--------------------------- MODULE ServicesProofs ---------------------------
(***************************************************************************)
(* The services of the main task.  The status LED shows the colour last    *)
(* asked for in the end, for every set of colours and every depth of the   *)
(* RMT driver's queue.  WiFi answers the scans it accepted, each once, and *)
(* the client hears of every loss of the connection, however many events   *)
(* wait.  A PWM output has the signal last asked for on its pin, for every *)
(* number of pins and timers, as long as no word overflows.  In a list of  *)
(* any length the first pair with the key is found.                        *)
(***************************************************************************)
EXTENDS Services, FiniteSetTheorems, SequenceTheorems, WellFoundedInduction, TLAPS

-----------------------------------------------------------------------------
\* Induction over numbers in the form the provers can use: a least element.
LEMMA LeastNumber ==
  ASSUME NEW T \in SUBSET Nat, T # {}
  PROVE  \E m \in T : \A k \in T : m <= k
<1>1. IsWellFoundedOn(OpToRel(<, Nat), Nat)
  BY NatLessThanWellFounded
<1>2. PICK m \in T : \A k \in T : ~ (<<k, m>> \in OpToRel(<, Nat))
  BY <1>1, WFMin
<1>3. \A k \in T : ~(k < m)
  BY <1>2 DEF OpToRel
<1>. QED  BY <1>3

-----------------------------------------------------------------------------
(* The status LED.                                                           *)

\* What jd_rgbext_set has stored so far is of the colour asked for; once it has
\* returned, so is the whole buffer, from which the last frame in flight is made.
Stored ==
  /\ set.pc \in 0..4
  /\ \A i \in 1..3 : set.pc = Rgb!Idle \/ i < set.pc => rgbext_buf[i] = set.colour[i]

Shapes == rgbext_buf \in [1..3 -> Nat] /\ set \in [pc : 0..4, colour : [1..3 -> Nat]]

LedInv == Shapes /\ inflight \in Nat /\ Stored /\ ColourShown

LEMMA StoredWhole ==
  ASSUME Shapes, Stored, set.pc \in {0, 4}
  PROVE  rgbext_buf = set.colour
<1>1. rgbext_buf \in [1..3 -> Nat] /\ set.colour \in [1..3 -> Nat]
  BY DEF Shapes
<1>2. \A i \in 1..3 : rgbext_buf[i] = set.colour[i]
  BY DEF Stored, Rgb!Idle
<1>. QED  BY <1>1, <1>2

LEMMA LedInit == ASSUME Init PROVE LedInv
<1>. USE DEF Init, Rgb!Init, Rgb!Dark, Rgb!Parts, Rgb!Idle
<1>1. Shapes /\ inflight \in Nat
  BY DEF Shapes
<1>2. Stored /\ ColourShown
  BY DEF Stored, ColourShown, Rgb!ColourShown
<1>. QED  BY <1>1, <1>2 DEF LedInv

LEMMA LedStep == ASSUME LedInv, Rgb!Next PROVE LedInv'
<1>. USE DEF LedInv, Rgb!Idle, Rgb!Sending, Rgb!Parts
<1>1. CASE Rgb!jd_rgbext_init
  BY <1>1 DEF Rgb!jd_rgbext_init, Shapes, Stored, ColourShown, Rgb!ColourShown
<1>2. CASE \E c \in Colours : Rgb!SetCall(c)
  <2>. PICK c \in Colours : Rgb!SetCall(c)
    BY <1>2
  <2>1. c \in [1..3 -> Nat]
    BY ServicesOK DEF Rgb!RgbConstantsOK
  <2>2. set' = [pc |-> 1, colour |-> c] /\ UNCHANGED <<rgbext_buf, inflight>>
    BY DEF Rgb!SetCall
  <2>. QED  BY <2>1, <2>2 DEF Shapes, Stored, ColourShown, Rgb!ColourShown
<1>3. CASE Rgb!Store
  <2>1. /\ set.pc \in 1..3
        /\ rgbext_buf' = [rgbext_buf EXCEPT ![set.pc] = set.colour[set.pc]]
        /\ set' = [set EXCEPT !.pc = @ + 1] /\ UNCHANGED inflight
    BY <1>3 DEF Rgb!Store
  <2>2. Shapes'
    BY <2>1 DEF Shapes
  <2>3. Stored'
    BY <2>1 DEF Shapes, Stored
  <2>. QED  BY <2>1, <2>2, <2>3 DEF Shapes, ColourShown, Rgb!ColourShown
<1>4. CASE Rgb!transmit
  <2>1. /\ set.pc = 4 /\ set' = [set EXCEPT !.pc = 0] /\ UNCHANGED <<rgbext_buf, lit>>
        /\ inflight' = inflight + 1 /\ air' = IF inflight = 0 THEN rgbext_buf ELSE air
    BY <1>4 DEF Rgb!transmit
  <2>2. rgbext_buf = set.colour
    BY <2>1, StoredWhole
  <2>3. Shapes' /\ set'.pc = 0 /\ set'.colour = set.colour
    BY <2>1 DEF Shapes
  <2>4. Stored'
    BY <2>1, <2>2, <2>3 DEF Stored
  <2>5. ColourShown'
    BY <2>1, <2>2, <2>3 DEF ColourShown, Rgb!ColourShown
  <2>. QED  BY <2>1, <2>3, <2>4, <2>5
<1>5. CASE Rgb!FrameSent
  <2>1. /\ inflight > 0 /\ inflight' = inflight - 1
        /\ lit' = air /\ air' = rgbext_buf /\ UNCHANGED <<rgbext_buf, set>>
    BY <1>5 DEF Rgb!FrameSent
  <2>2. Shapes' /\ Stored'
    BY <2>1 DEF Shapes, Stored
  <2>3. ASSUME set.pc = 0 PROVE rgbext_buf = set.colour
    BY <2>3, StoredWhole
  <2>4. ColourShown'
    BY <2>1, <2>3 DEF ColourShown, Rgb!ColourShown
  <2>. QED  BY <2>1, <2>2, <2>4
<1>. QED  BY <1>1, <1>2, <1>3, <1>4, <1>5 DEF Rgb!Next, Rgb!jd_rgbext_set

LEMMA LedInvariance == Spec => []LedInv
<1>1. LedInv /\ [Next]_vars => LedInv'
  <2>. SUFFICES ASSUME LedInv, [Next]_vars PROVE LedInv'
    OBVIOUS
  <2>1. CASE Rgb!Next
    BY <2>1, LedStep
  <2>2. CASE UNCHANGED rgbVars
    BY <2>2 DEF rgbVars, LedInv, Shapes, Stored, ColourShown, Rgb!ColourShown
  <2>. QED  BY <2>1, <2>2 DEF Next, vars
<1>. QED  BY LedInit, <1>1, PTL DEF Spec

\* The colour last asked for is the one shown, or the one of the last frame in
\* flight, although the buffer is overwritten under earlier frames (ledstrip.c:53-60).
THEOREM LastColour == Spec => []ColourShown
<1>1. LedInv => ColourShown
  BY DEF LedInv
<1>. QED  BY <1>1, LedInvariance, PTL

-----------------------------------------------------------------------------
(***************************************************************************)
(* WiFi.  The scans that are owed an answer are the one under way and the  *)
(* ones whose event waits; a loss the client has still to hear of waits    *)
(* behind every address it has still to hear of.                           *)
(***************************************************************************)
DonePos(q) == {i \in 1..Len(q) : q[i] = "scan_done"}

ScansOwed == Len(owed) = Cardinality(DonePos(events)) + (IF scanning THEN 1 ELSE 0)

LossToCome ==
  link # "up" /\ ~crossed /\ (online \/ \E i \in 1..Len(events) : events[i] = "got_ip") =>
    \E i \in 1..Len(events) :
      /\ events[i] = "disconnected"
      /\ \A j \in (i + 1)..Len(events) : events[j] # "got_ip"

WifiInv == Wifi!TypeOK /\ ScansOwed /\ LossToCome

LEMMA DoneFinite ==
  ASSUME NEW q \in Seq(Wifi!Events)
  PROVE  IsFiniteSet(DonePos(q)) /\ Cardinality(DonePos(q)) \in Nat
<1>1. Len(q) \in Nat
  OBVIOUS
<1>2. IsFiniteSet(1..Len(q))
  BY <1>1, FS_Interval
<1>3. DonePos(q) \in SUBSET (1..Len(q))
  BY DEF DonePos
<1>4. IsFiniteSet(DonePos(q))
  BY <1>2, <1>3, FS_Subset
<1>. QED  BY <1>4, FS_CardinalityType

\* An event posted at the end adds one position if it is the end of a scan.
LEMMA DoneAppend ==
  ASSUME NEW q \in Seq(Wifi!Events), NEW e \in Wifi!Events
  PROVE  Cardinality(DonePos(Append(q, e))) =
           Cardinality(DonePos(q)) + (IF e = "scan_done" THEN 1 ELSE 0)
<1>1. /\ Len(Append(q, e)) = Len(q) + 1 /\ Append(q, e)[Len(q) + 1] = e
      /\ Len(q) \in Nat /\ \A i \in 1..Len(q) : Append(q, e)[i] = q[i]
  OBVIOUS
<1>2. Len(q) + 1 \notin DonePos(q)
  BY <1>1 DEF DonePos
<1>3. CASE e = "scan_done"
  <2>1. DonePos(Append(q, e)) = DonePos(q) \cup {Len(q) + 1}
    BY <1>1, <1>3 DEF DonePos
  <2>. QED  BY <2>1, <1>2, <1>3, DoneFinite, FS_AddElement
<1>4. CASE e # "scan_done"
  <2>1. DonePos(Append(q, e)) = DonePos(q)
    BY <1>1, <1>4 DEF DonePos
  <2>. QED  BY <2>1, <1>4, DoneFinite
<1>. QED  BY <1>3, <1>4

\* The event taken from the head takes one away if it is the end of a scan.
LEMMA DoneTail ==
  ASSUME NEW q \in Seq(Wifi!Events), q # <<>>
  PROVE  Cardinality(DonePos(Tail(q))) =
           Cardinality(DonePos(q)) - (IF Head(q) = "scan_done" THEN 1 ELSE 0)
<1>1. /\ Len(q) \in Nat \ {0} /\ Len(Tail(q)) = Len(q) - 1 /\ Head(q) = q[1]
      /\ \A i \in 1..(Len(q) - 1) : Tail(q)[i] = q[i + 1]
  OBVIOUS
<1> DEFINE rest == DonePos(q) \ {1}
           f == [i \in rest |-> i - 1]
<1>2. \A i \in rest : i - 1 \in DonePos(Tail(q))
  BY <1>1 DEF DonePos
<1>3. \A j \in DonePos(Tail(q)) : j + 1 \in rest /\ f[j + 1] = j
  BY <1>1 DEF DonePos
<1>4. \A i, j \in rest : f[i] = f[j] => i = j
  BY DEF DonePos
<1>5. f \in Bijection(rest, DonePos(Tail(q)))
  <2>1. f \in [rest -> DonePos(Tail(q))]
    BY <1>2
  <2>2. f \in Injection(rest, DonePos(Tail(q)))
    BY <2>1, <1>4 DEF Injection, IsInjective
  <2>3. f \in Surjection(rest, DonePos(Tail(q)))
    BY <2>1, <1>3 DEF Surjection
  <2>. QED  BY <2>2, <2>3 DEF Bijection
<1>6. IsFiniteSet(rest) /\ Cardinality(rest) =
        IF 1 \in DonePos(q) THEN Cardinality(DonePos(q)) - 1 ELSE Cardinality(DonePos(q))
  BY DoneFinite, FS_RemoveElement
<1>7. Cardinality(DonePos(Tail(q))) = Cardinality(rest)
  BY <1>5, <1>6, FS_Bijection DEF ExistsBijection
<1>8. 1 \in DonePos(q) <=> Head(q) = "scan_done"
  BY <1>1 DEF DonePos
<1>9. Cardinality(DonePos(q)) \in Nat
  BY DoneFinite
<1>. QED  BY <1>6, <1>7, <1>8, <1>9

LEMMA WifiInit == ASSUME Init PROVE WifiInv
<1>. USE ServicesOK DEF Init, Wifi!Init, Wifi!WifiConstantsOK
<1>1. Wifi!TypeOK
  <2>1. /\ aps \in 0..MaxAps /\ events \in Seq(Wifi!Events) /\ Len(events) <= MaxEvents
        /\ owed \in Seq({"scan"})
    OBVIOUS
  <2>2. answer \in Wifi!Answers
    BY DEF Wifi!Answers
  <2>3. /\ scanning \in BOOLEAN /\ online \in BOOLEAN /\ crossed \in BOOLEAN
        /\ stopped \in BOOLEAN /\ link \in {"off", "joining", "up"}
        /\ dhcp \in {"off", "asking", "bound"}
    BY Zenon
  <2>. QED  BY ONLY <2>1, <2>2, <2>3 DEF Wifi!TypeOK
<1>2. DonePos(events) = {}
  BY DEF DonePos
<1>3. ScansOwed
  BY <1>2, FS_EmptySet DEF ScansOwed
<1>4. LossToCome
  BY DEF LossToCome
<1>. QED  BY <1>1, <1>3, <1>4 DEF WifiInv

\* What a post or a handler does to the event queue.
LEMMA Posted ==
  ASSUME Wifi!TypeOK, NEW e \in Wifi!Events, Wifi!Post(e)
  PROVE  /\ events' \in Seq(Wifi!Events) /\ Len(events') <= MaxEvents
         /\ Len(events') = Len(events) + 1 /\ Len(events) \in Nat
         /\ events'[Len(events) + 1] = e
         /\ \A i \in 1..Len(events) : events'[i] = events[i]
         /\ Cardinality(DonePos(events')) =
              Cardinality(DonePos(events)) + (IF e = "scan_done" THEN 1 ELSE 0)
<1>1. events \in Seq(Wifi!Events) /\ events' = Append(events, e) /\ Len(events) < MaxEvents
  BY DEF Wifi!TypeOK, Wifi!Post
<1>2. MaxEvents \in Nat
  BY ServicesOK DEF Wifi!WifiConstantsOK
<1>3. /\ events' \in Seq(Wifi!Events) /\ Len(events') = Len(events) + 1 /\ Len(events) \in Nat
      /\ events'[Len(events) + 1] = e /\ \A i \in 1..Len(events) : events'[i] = events[i]
  BY <1>1
<1>4. Len(events') <= MaxEvents
  BY <1>1, <1>2, <1>3
<1>. QED  BY <1>1, <1>3, <1>4, DoneAppend

LEMMA Handled ==
  ASSUME Wifi!TypeOK, NEW e, Wifi!Handle(e)
  PROVE  /\ events' \in Seq(Wifi!Events) /\ Len(events') <= MaxEvents
         /\ Len(events') = Len(events) - 1 /\ Len(events) \in Nat \ {0}
         /\ events[1] = e
         /\ \A i \in 1..Len(events') : events'[i] = events[i + 1]
         /\ Cardinality(DonePos(events')) =
              Cardinality(DonePos(events)) - (IF e = "scan_done" THEN 1 ELSE 0)
<1>1. /\ events \in Seq(Wifi!Events) /\ events # <<>> /\ events' = Tail(events)
      /\ e = Head(events) /\ Len(events) <= MaxEvents
  BY DEF Wifi!TypeOK, Wifi!Handle
<1>2. MaxEvents \in Nat
  BY ServicesOK DEF Wifi!WifiConstantsOK
<1>3. /\ events' \in Seq(Wifi!Events) /\ Len(events') = Len(events) - 1
      /\ Len(events) \in Nat \ {0} /\ events[1] = e
      /\ \A i \in 1..Len(events') : events'[i] = events[i + 1]
  BY <1>1
<1>4. Len(events') <= MaxEvents
  BY <1>1, <1>2, <1>3
<1>. QED  BY <1>1, <1>3, <1>4, DoneTail

\* A loss that waits goes on waiting, or the client has just heard of it.
LEMMA LossWaits ==
  ASSUME Wifi!TypeOK, LossToCome, NEW e, Wifi!Handle(e), UNCHANGED <<link, crossed>>,
         online' => online \/ e = "got_ip",
         e = "disconnected" => ~online'
  PROVE  LossToCome'
<1>1. SUFFICES ASSUME link # "up", ~crossed,
                      online' \/ \E i \in 1..Len(events') : events'[i] = "got_ip"
               PROVE  \E i \in 1..Len(events') :
                        /\ events'[i] = "disconnected"
                        /\ \A j \in (i + 1)..Len(events') : events'[j] # "got_ip"
  BY DEF LossToCome
<1>2. /\ Len(events') = Len(events) - 1 /\ Len(events) \in Nat \ {0} /\ events[1] = e
      /\ \A i \in 1..Len(events') : events'[i] = events[i + 1]
  BY Handled
<1>3. online \/ \E i \in 1..Len(events) : events[i] = "got_ip"
  BY <1>1, <1>2
<1>4. PICK i \in 1..Len(events) :
        /\ events[i] = "disconnected"
        /\ \A j \in (i + 1)..Len(events) : events[j] # "got_ip"
  BY <1>1, <1>3 DEF LossToCome
<1>5. i # 1
  <2>1. SUFFICES ASSUME i = 1 PROVE FALSE
    OBVIOUS
  <2>2. ~online'
    BY <1>2, <1>4, <2>1
  <2>3. PICK k \in 1..Len(events') : events'[k] = "got_ip"
    BY <1>1, <2>2
  <2>4. k + 1 \in (i + 1)..Len(events) /\ events[k + 1] = "got_ip"
    BY <1>2, <2>1, <2>3
  <2>. QED  BY <1>4, <2>4
<1>6. i - 1 \in 1..Len(events') /\ events'[i - 1] = "disconnected"
  BY <1>2, <1>4, <1>5
<1>7. ASSUME NEW j \in ((i - 1) + 1)..Len(events') PROVE events'[j] # "got_ip"
  BY <1>2, <1>4, <1>7
<1>. QED  BY <1>6, <1>7

\* The end of a scan finds a scan that is owed an answer.
LEMMA ScanIsOwed == ASSUME WifiInv, Wifi!scan_done_handler PROVE owed # <<>>
<1>1. /\ events' \in Seq(Wifi!Events)
      /\ Cardinality(DonePos(events')) = Cardinality(DonePos(events)) - 1
  BY Handled DEF WifiInv, Wifi!scan_done_handler
<1>2. Cardinality(DonePos(events')) \in Nat /\ Cardinality(DonePos(events)) \in Nat
  BY <1>1, DoneFinite DEF WifiInv, Wifi!TypeOK
<1>3. Len(owed) # 0
  BY <1>1, <1>2 DEF WifiInv, ScansOwed
<1>. QED  BY <1>3

LEMMA WifiStep == ASSUME WifiInv, Wifi!Next PROVE WifiInv'
<1>. USE ServicesOK DEF WifiInv, Wifi!WifiConstantsOK, Wifi!station, Wifi!scan, Wifi!Events
<1>0. /\ scanning \in BOOLEAN /\ online \in BOOLEAN /\ crossed \in BOOLEAN
      /\ Len(owed) \in Nat /\ Len(events) \in Nat
      /\ Cardinality(DonePos(events)) \in Nat
  BY DoneFinite DEF Wifi!TypeOK
<1>1. CASE Wifi!jd_wifi_start_scan
  <2>. USE <1>1 DEF Wifi!jd_wifi_start_scan
  <2>1. Wifi!TypeOK'
    BY DEF Wifi!TypeOK
  <2>2. Len(owed') = Len(owed) + 1
    BY DEF Wifi!TypeOK
  <2>3. ScansOwed'
    BY <1>0, <2>2 DEF ScansOwed
  <2>4. LossToCome'
    BY DEF LossToCome
  <2>. QED  BY <2>1, <2>3, <2>4
<1>2. CASE Wifi!ScanEnds
  <2>. USE <1>2 DEF Wifi!ScanEnds
  <2>1. /\ events' \in Seq(Wifi!Events) /\ Len(events') <= MaxEvents
        /\ Cardinality(DonePos(events')) = Cardinality(DonePos(events)) + 1
        /\ Len(events') = Len(events) + 1 /\ events'[Len(events) + 1] = "scan_done"
        /\ \A i \in 1..Len(events) : events'[i] = events[i]
    BY Posted
  <2>2. Wifi!TypeOK'
    BY <2>1 DEF Wifi!TypeOK
  <2>3. ScansOwed'
    BY <1>0, <2>1 DEF ScansOwed
  <2>4. LossToCome'
    BY <1>0, <2>1 DEF LossToCome
  <2>. QED  BY <2>2, <2>3, <2>4
<1>3. CASE Wifi!jd_wifi_connect
  <2>. USE <1>3 DEF Wifi!jd_wifi_connect
  <2>1. Wifi!TypeOK'
    BY DEF Wifi!TypeOK
  <2>2. ScansOwed'
    BY DEF ScansOwed
  <2>3. LossToCome'
    BY DEF LossToCome
  <2>. QED  BY <2>1, <2>2, <2>3
<1>4. CASE Wifi!Joined
  <2>. USE <1>4 DEF Wifi!Joined
  <2>1. /\ events' \in Seq(Wifi!Events) /\ Len(events') <= MaxEvents
        /\ Cardinality(DonePos(events')) = Cardinality(DonePos(events))
    BY <1>0, Posted
  <2>2. Wifi!TypeOK'
    BY <2>1 DEF Wifi!TypeOK
  <2>3. ScansOwed'
    BY <2>1 DEF ScansOwed
  <2>4. LossToCome'
    BY DEF LossToCome
  <2>. QED  BY <2>2, <2>3, <2>4
<1>5. CASE Wifi!LinkLost
  <2>. USE <1>5 DEF Wifi!LinkLost
  <2>1. /\ events' \in Seq(Wifi!Events) /\ Len(events') <= MaxEvents
        /\ Cardinality(DonePos(events')) = Cardinality(DonePos(events))
        /\ Len(events') = Len(events) + 1 /\ events'[Len(events) + 1] = "disconnected"
    BY <1>0, Posted
  <2>2. Wifi!TypeOK'
    BY <2>1 DEF Wifi!TypeOK
  <2>3. ScansOwed'
    BY <2>1 DEF ScansOwed
  <2>4. LossToCome'
    BY <1>0, <2>1 DEF LossToCome
  <2>. QED  BY <2>2, <2>3, <2>4
<1>6. CASE Wifi!Bound
  <2>. USE <1>6 DEF Wifi!Bound
  <2>1. /\ events' \in Seq(Wifi!Events) /\ Len(events') <= MaxEvents
        /\ Cardinality(DonePos(events')) = Cardinality(DonePos(events))
    BY <1>0, Posted
  <2>2. Wifi!TypeOK'
    BY <2>1 DEF Wifi!TypeOK
  <2>3. ScansOwed'
    BY <2>1 DEF ScansOwed
  <2>4. LossToCome'
    BY DEF LossToCome
  <2>. QED  BY <2>2, <2>3, <2>4
<1>7. CASE Wifi!scan_done_handler
  <2>. USE <1>7 DEF Wifi!scan_done_handler
  <2>1. /\ events' \in Seq(Wifi!Events) /\ Len(events') <= MaxEvents
        /\ Len(events) \in Nat \ {0} /\ events[1] = "scan_done"
        /\ Cardinality(DonePos(events')) = Cardinality(DonePos(events)) - 1
    BY Handled
  <2>2. owed # <<>>
    BY ScanIsOwed
  <2>3. Wifi!TypeOK'
    BY <2>1, <2>2 DEF Wifi!TypeOK, Wifi!Answers
  <2>4. Len(owed') = Len(owed) - 1
    BY <2>2 DEF Wifi!TypeOK
  <2>5. ScansOwed'
    BY <1>0, <2>1, <2>4 DEF ScansOwed
  <2>6. LossToCome'
    BY LossWaits
  <2>. QED  BY <2>3, <2>5, <2>6
<1>8. CASE Wifi!ConnectedHandler
  <2>. USE <1>8 DEF Wifi!ConnectedHandler
  <2>1. /\ events' \in Seq(Wifi!Events) /\ Len(events') <= MaxEvents
        /\ Cardinality(DonePos(events')) = Cardinality(DonePos(events))
    BY <1>0, Handled
  <2>2. Wifi!TypeOK'
    BY <2>1 DEF Wifi!TypeOK
  <2>3. ScansOwed'
    BY <2>1 DEF ScansOwed
  <2>4. LossToCome'
    BY LossWaits
  <2>. QED  BY <2>2, <2>3, <2>4
<1>9. CASE Wifi!got_ip_handler
  <2>. USE <1>9 DEF Wifi!got_ip_handler
  <2>1. /\ events' \in Seq(Wifi!Events) /\ Len(events') <= MaxEvents
        /\ Cardinality(DonePos(events')) = Cardinality(DonePos(events))
    BY <1>0, Handled
  <2>2. Wifi!TypeOK'
    BY <2>1 DEF Wifi!TypeOK
  <2>3. ScansOwed'
    BY <2>1 DEF ScansOwed
  <2>4. LossToCome'
    BY LossWaits
  <2>. QED  BY <2>2, <2>3, <2>4
<1>10. CASE Wifi!disconnect_handler
  <2>. USE <1>10 DEF Wifi!disconnect_handler
  <2>1. /\ events' \in Seq(Wifi!Events) /\ Len(events') <= MaxEvents
        /\ Cardinality(DonePos(events')) = Cardinality(DonePos(events))
    BY <1>0, Handled
  <2>2. Wifi!TypeOK'
    BY <2>1 DEF Wifi!TypeOK
  <2>3. ScansOwed'
    BY <2>1 DEF ScansOwed
  <2>4. LossToCome'
    BY LossWaits
  <2>. QED  BY <2>2, <2>3, <2>4
<1>. QED
  BY <1>1, <1>2, <1>3, <1>4, <1>5, <1>6, <1>7, <1>8, <1>9, <1>10
     DEF Wifi!Next, Wifi!jd_wifi_disconnect, Wifi!Driver, Wifi!Handlers

LEMMA WifiInvariance == Spec => []WifiInv
<1>1. WifiInv /\ [Next]_vars => WifiInv'
  <2>. SUFFICES ASSUME WifiInv, [Next]_vars PROVE WifiInv'
    OBVIOUS
  <2>1. CASE Wifi!Next
    BY <2>1, WifiStep
  <2>2. CASE UNCHANGED wifiVars
    BY <2>2 DEF wifiVars, WifiInv, Wifi!TypeOK, ScansOwed, LossToCome
  <2>. QED  BY <2>1, <2>2 DEF Next, vars
<1>. QED  BY WifiInit, <1>1, PTL DEF Spec

\* WiFi keeps its types: the event queue never overflows (wifi_impl.c:37-105).
THEOREM WifiTypes == Spec => []Wifi!TypeOK
<1>1. WifiInv => Wifi!TypeOK
  BY DEF WifiInv
<1>. QED  BY <1>1, WifiInvariance, PTL

\* Once all events are handled, a client that believes itself connected is,
\* unless the address came when the connection was already lost
\* (wifi_impl.c:96-105).
THEOREM BeliefKept == Spec => []Wifi!BeliefRight
<1>1. WifiInv => Wifi!BeliefRight
  BY DEF WifiInv, LossToCome, Wifi!BeliefRight
<1>. QED  BY <1>1, WifiInvariance, PTL

\* No scan is answered that was not accepted, none twice, and answers come in
\* order: the safety part of Wifi's promise (wifi_impl.c:37-94).
THEOREM ScansAnsweredOnce == Spec => Wifi!Promised!Safety
<1>1. Init => Wifi!Promised!DeferredInit
  BY DEF Init, Wifi!Init, Wifi!Promised!DeferredInit
<1>2. WifiInv /\ [Next]_vars => [Wifi!Promised!DeferredNext]_owed
  <2>. SUFFICES ASSUME WifiInv, [Next]_vars PROVE [Wifi!Promised!DeferredNext]_owed
    OBVIOUS
  <2>1. CASE Wifi!jd_wifi_start_scan
    <3>1. Wifi!Promised!Accept("scan")
      BY <2>1 DEF Wifi!jd_wifi_start_scan, Wifi!Promised!Accept
    <3>. QED  BY <3>1 DEF Wifi!Promised!DeferredNext
  <2>2. CASE Wifi!scan_done_handler
    <3>1. owed # <<>>
      BY <2>2, ScanIsOwed
    <3>2. Wifi!Promised!Run
      BY <2>2, <3>1 DEF Wifi!scan_done_handler, Wifi!Promised!Run
    <3>. QED  BY <3>2 DEF Wifi!Promised!DeferredNext
  <2>3. CASE UNCHANGED owed
    BY <2>3
  <2>. QED
    BY <2>1, <2>2, <2>3
       DEF Next, vars, wifiVars, Wifi!Next, Wifi!Driver, Wifi!Handlers, Wifi!jd_wifi_connect,
           Wifi!jd_wifi_disconnect, Wifi!ScanEnds, Wifi!Joined, Wifi!LinkLost, Wifi!Bound,
           Wifi!ConnectedHandler, Wifi!got_ip_handler, Wifi!disconnect_handler, Wifi!scan,
           Wifi!station
<1>. QED  BY <1>1, <1>2, WifiInvariance, PTL DEF Spec, Wifi!Promised!Safety

\* No scan is forgotten (wifi_impl.c:37-94): each one the driver has accepted and the client
\* has no answer to is under way, or the event of its end waits in the queue.  This is the
\* safety core of TellsClient: whether the handler gets there is fairness.
THEOREM ScansDue == Spec => []ScansOwed
<1>1. WifiInv => ScansOwed
  BY DEF WifiInv
<1>. QED  BY <1>1, WifiInvariance, PTL

-----------------------------------------------------------------------------
(***************************************************************************)
(* The PWM outputs.  The words of the code do not overflow for what the    *)
(* client asks (a period of less than 2^24 clock cycles, as words have 32  *)
(* bits), and no LEDC counts more than 20 bits: LEDC_TIMER_BIT_MAX is at   *)
(* most 21.  The bound also stands for 2^b > 0, which the provers know of  *)
(* numbers only.                                                           *)
(***************************************************************************)
InRange ==
  /\ BitMax \in 1..21
  /\ \A r \in Requests : r.period * r.prescaler * 256 < 2^WordBits
  /\ \A d \in Duties, b \in 4..(BitMax - 1) : 2^b * d < 2^WordBits

\* What a channel ch gives for what was asked, a (compare PeriodRight, DutyRight).
PeriodFits(ch, a) ==
  /\ ch.div * 2^ch.bits <= a.period * a.prescaler * 256
  /\ a.period * a.prescaler * 256 < (ch.div + 1) * 2^ch.bits
  /\ ch.bits = BitMax - 1 \/ a.period * a.prescaler < 2^(ch.bits + 1)

DutyFits(ch, a) ==
  IF a.duty >= a.period
  THEN ch.duty = 2^ch.bits - 1
  ELSE /\ ch.duty * a.period <= a.duty * 2^ch.bits
       /\ a.duty * 2^ch.bits < ch.duty * a.period + a.period

PwmShapes ==
  /\ timers \in [Pwm!Timers -> [pin : Pins \union {"none"}, bits : 0..(BitMax - 1), period : Nat]]
  /\ hw \in [Pwm!Timers -> [div : 0..DivMax, bits : 0..(BitMax - 1), duty : Nat]]
  /\ matrix \in [Pins -> Pwm!Timers \union {-1}]
  /\ asked \in [Pins -> [period : Nat, prescaler : Nat, duty : Nat]]
  /\ failed \in {"none", "too fast", "out of timers", "null"}

DutyBelow == \A t \in Pwm!Timers : hw[t].duty < 2^hw[t].bits

\* A connected pin is connected to its own timer, and it has one only.
OwnTimer ==
  /\ \A p \in Pins : matrix[p] # -1 => timers[matrix[p]].pin = p
  /\ \A t, u \in Pwm!Timers : timers[t].pin = timers[u].pin /\ timers[t].pin # "none" => t = u

\* The timer of a pin and its channel give what was asked for that pin, also
\* while the pin is disconnected.
ChannelRight ==
  \A t \in Pwm!Timers : timers[t].pin # "none" =>
    /\ timers[t].bits = hw[t].bits /\ hw[t].bits \in 4..(BitMax - 1)
    /\ timers[t].period = asked[timers[t].pin].period /\ timers[t].period > 0
    /\ PeriodFits(hw[t], asked[timers[t].pin])
    /\ DutyFits(hw[t], asked[timers[t].pin])

PwmInv == PwmShapes /\ DutyBelow /\ OwnTimer /\ ChannelRight

LEMMA PowerPositive == ASSUME NEW b \in 0..20 PROVE 2^b \in Nat \ {0}
<1> DEFINE Powers == {2^0, 2^1, 2^2, 2^3, 2^4, 2^5, 2^6, 2^7, 2^8, 2^9, 2^10,
                       2^11, 2^12, 2^13, 2^14, 2^15, 2^16, 2^17, 2^18, 2^19, 2^20}
<1>1. Powers \subseteq Nat \ {0}
  OBVIOUS
<1>2. \/ b = 0 \/ b = 1 \/ b = 2 \/ b = 3 \/ b = 4 \/ b = 5 \/ b = 6 \/ b = 7 \/ b = 8 \/ b = 9
      \/ b = 10 \/ b = 11 \/ b = 12 \/ b = 13 \/ b = 14 \/ b = 15 \/ b = 16 \/ b = 17 \/ b = 18
      \/ b = 19 \/ b = 20
  OBVIOUS
<1>3. 2^b \in Powers
  BY <1>2, Zenon
<1>. HIDE DEF Powers
<1>. QED  BY <1>1, <1>3, Zenon

\* The loop of jd_pwm_init finds the finest of the usable resolutions.
LEMMA FinestExists ==
  ASSUME NEW T \in SUBSET (4..20), T # {}
  PROVE  \E m \in T : \A c \in T : c <= m
<1> DEFINE Below == {d \in 0..16 : 20 - d \in T}
<1>1. Below \in SUBSET Nat /\ \A c \in T : c \in 4..20 /\ 20 - c \in Below
  OBVIOUS
<1>2. PICK d \in Below : \A k \in Below : d <= k
  BY <1>1, LeastNumber
<1>3. 20 - d \in T /\ d \in 0..16
  OBVIOUS
<1>. HIDE DEF Below
<1>4. \A c \in T : c <= 20 - d
  BY <1>1, <1>2, <1>3
<1>. QED  BY <1>3, <1>4

LEMMA WordFits ==
  ASSUME NEW n \in Nat, n < 2^WordBits
  PROVE  Pwm!Word(n) = n
<1>1. WordBits \in Nat
  BY ServicesOK DEF Pwm!PwmConstantsOK
<1>2. 2^WordBits \in Int
  BY <1>1
<1>. QED  BY <1>2 DEF Pwm!Word

LEMMA Quotient ==
  ASSUME NEW x \in Nat, NEW n \in Nat \ {0}
  PROVE  /\ x \div n \in Nat
         /\ (x \div n) * n <= x /\ x < (x \div n) * n + n
OBVIOUS

LEMMA PeriodOf ==
  ASSUME InRange, NEW r \in Requests, Pwm!Usable(r) # {}
  PROVE  /\ Pwm!Bits(r) \in 4..(BitMax - 1)
         /\ Pwm!Div(r, Pwm!Bits(r)) \in Nat
         /\ \A d \in Nat : PeriodFits([div |-> Pwm!Div(r, Pwm!Bits(r)), bits |-> Pwm!Bits(r), duty |-> d],
                                      [period |-> r.period, prescaler |-> r.prescaler, duty |-> d])
<1> DEFINE cycles == r.period * r.prescaler
           b == Pwm!Bits(r)
<1>1. r.period \in Nat \ {0} /\ r.prescaler \in Nat
  BY ServicesOK DEF Pwm!PwmConstantsOK
<1>2. cycles \in Nat /\ cycles * 256 < 2^WordBits
  BY <1>1 DEF InRange
<1>3. \A c \in 4..(BitMax - 1) : Pwm!Div(r, c) = (cycles * 256) \div 2^c
  <2>1. WordBits \in Nat /\ 2^WordBits \in Int
    BY ServicesOK DEF Pwm!PwmConstantsOK
  <2>2. Pwm!Word(cycles) = cycles
    BY <1>2, <2>1, WordFits
  <2>3. Pwm!Word(cycles * 256) = cycles * 256
    BY <1>2, WordFits
  <2>. QED  BY <2>2, <2>3 DEF Pwm!Div
<1>4. Pwm!Usable(r) \in SUBSET (4..20)
  BY DEF Pwm!Usable, InRange
<1>5. b \in Pwm!Usable(r) /\ \A c \in Pwm!Usable(r) : c <= b
  BY <1>4, FinestExists DEF Pwm!Bits
<1>6. b \in 4..(BitMax - 1) /\ b \in 0..20 /\ 2^b \in Nat \ {0}
  <2>1. b \in 4..(BitMax - 1)
    BY <1>5 DEF Pwm!Usable
  <2>2. b \in 0..20
    BY <2>1 DEF InRange
  <2>. QED  BY <2>1, <2>2, PowerPositive
<1>7. /\ Pwm!Div(r, b) \in Nat
      /\ Pwm!Div(r, b) * 2^b <= cycles * 256
      /\ cycles * 256 < Pwm!Div(r, b) * 2^b + 2^b
  <2>1. cycles * 256 \in Nat /\ Pwm!Div(r, b) = (cycles * 256) \div 2^b
    BY <1>2, <1>3, <1>6
  <2>. QED  BY ONLY <1>6, <2>1, Quotient
<1>8. b = BitMax - 1 \/ cycles < 2^(b + 1)
  <2>1. SUFFICES ASSUME b # BitMax - 1 PROVE cycles < 2^(b + 1)
    OBVIOUS
  <2>2. b + 1 \in 4..(BitMax - 1) /\ b + 1 \in 0..20
    BY <1>6, <2>1 DEF InRange
  <2>3. b + 1 \notin Pwm!Usable(r)
    BY <1>5, <1>6
  <2>4. 2^(b + 1) \in Nat \ {0}
    BY <2>2, PowerPositive
  <2>5. Pwm!Div(r, b + 1) = (cycles * 256) \div 2^(b + 1)
    BY <1>3, <2>2
  <2>6. Pwm!Div(r, b + 1) \in Nat /\ cycles * 256 < Pwm!Div(r, b + 1) * 2^(b + 1) + 2^(b + 1)
    <3>1. cycles * 256 \in Nat
      BY <1>2
    <3>. QED  BY ONLY <2>4, <2>5, <3>1, Quotient
  <2>7. Pwm!Div(r, b + 1) < 256
    BY <2>2, <2>3, <2>6 DEF Pwm!Usable
  <2>. QED  BY ONLY <1>2, <2>4, <2>6, <2>7
<1>9. Pwm!Div(r, b) * 2^b + 2^b = (Pwm!Div(r, b) + 1) * 2^b
  BY <1>6, <1>7
<1>. QED  BY <1>6, <1>7, <1>8, <1>9 DEF PeriodFits

LEMMA DutyOf ==
  ASSUME InRange, NEW b \in 4..(BitMax - 1), NEW n \in Nat \ {0}, NEW d \in Duties
  PROVE  /\ Pwm!DutyPart(b, n, d) \in Nat /\ Pwm!DutyPart(b, n, d) < 2^b
         /\ \A ch, a : ch.bits = b /\ ch.duty = Pwm!DutyPart(b, n, d) /\ a.period = n /\ a.duty = d =>
              DutyFits(ch, a)
<1> DEFINE part == (2^b * d) \div n
<1>1. d \in Nat
  BY ServicesOK DEF Pwm!PwmConstantsOK
<1>2. 2^b \in Nat \ {0}
  <2>1. b \in 0..20
    BY DEF InRange
  <2>. QED  BY <2>1, PowerPositive
<1>3. Pwm!Word(2^b * d) = 2^b * d
  BY <1>1, <1>2, WordFits DEF InRange
<1>4. part \in Nat /\ part * n <= 2^b * d /\ 2^b * d < part * n + n
  BY <1>1, <1>2, Quotient
<1>5. Pwm!DutyPart(b, n, d) = IF part >= 2^b THEN 2^b - 1 ELSE part
  BY <1>3 DEF Pwm!DutyPart
<1>6. d >= n => part >= 2^b
  BY <1>1, <1>2, <1>4
<1>7. d < n => part < 2^b
  BY <1>1, <1>2, <1>4
<1>8. Pwm!DutyPart(b, n, d) \in Nat /\ Pwm!DutyPart(b, n, d) < 2^b
  BY <1>2, <1>4, <1>5
<1>9. ASSUME NEW ch, NEW a, ch.bits = b, ch.duty = Pwm!DutyPart(b, n, d), a.period = n, a.duty = d
      PROVE  DutyFits(ch, a)
  <2>1. CASE d >= n
    BY <1>1, <1>5, <1>6, <1>9, <2>1 DEF DutyFits
  <2>2. CASE ~(d >= n)
    <3>1. part < 2^b /\ ch.duty = part
      BY <1>1, <1>2, <1>4, <1>5, <1>7, <1>9, <2>2
    <3>2. 2^b * d = d * 2^b
      BY <1>1, <1>2
    <3>. QED  BY <1>1, <1>4, <1>9, <2>2, <3>1, <3>2 DEF DutyFits
  <2>. QED  BY <2>1, <2>2
<1>. QED  BY <1>8, <1>9

LEMMA PwmInit == ASSUME InRange, Init PROVE PwmInv
<1>. USE ServicesOK DEF Init, Pwm!Init, Pwm!PwmConstantsOK, InRange
<1>1. PwmShapes
  BY DEF PwmShapes, Pwm!None
<1>3. DutyBelow
  <2>1. ASSUME NEW t \in Pwm!Timers PROVE hw[t].duty < 2^hw[t].bits
    <3>1. hw[t].bits = 0 /\ hw[t].duty = 0
      OBVIOUS
    <3>2. 2^hw[t].bits = 1
      BY ONLY <3>1
    <3>. QED  BY <3>1, <3>2
  <2>. QED  BY <2>1 DEF DutyBelow
<1>4. OwnTimer
  BY DEF OwnTimer
<1>5. ChannelRight
  BY DEF ChannelRight
<1>. QED  BY <1>1, <1>3, <1>4, <1>5 DEF PwmInv

\* A timer that is found for a pin is the pin's own, or a free one when it has none.
LEMMA FoundTimer ==
  ASSUME NEW p \in Pins, NEW t \in Pwm!TimerFor(p), OwnTimer
  PROVE  /\ t \in Pwm!Timers
         /\ \A u \in Pwm!Timers : u # t => timers[u].pin # p
<1>1. p # "none"
  BY ServicesOK DEF Pwm!PwmConstantsOK
<1>. QED  BY <1>1 DEF Pwm!TimerFor, OwnTimer

LEMMA PwmSetUp ==
  ASSUME InRange, PwmInv, NEW p \in Pins, NEW r \in Requests, NEW d \in Duties,
         Pwm!jd_pwm_init(p, r, d), failed' = "none"
  PROVE  PwmInv'
<1> DEFINE t == CHOOSE u \in Pwm!TimerFor(p) : TRUE
           b == Pwm!Bits(r)
           div == Pwm!Div(r, b)
           part == Pwm!DutyPart(b, r.period, d)
<1>1. Pwm!Usable(r) # {} /\ ~(div > DivMax) /\ Pwm!TimerFor(p) # {}
  BY DEF Pwm!jd_pwm_init
<1>2. /\ timers' = [timers EXCEPT ![t] = [pin |-> p, bits |-> b, period |-> r.period]]
      /\ hw' = [hw EXCEPT ![t] = [div |-> div, bits |-> b, duty |-> part]]
      /\ matrix' = [matrix EXCEPT ![p] = t]
      /\ asked' = [asked EXCEPT ![p] = [period |-> r.period, prescaler |-> r.prescaler, duty |-> d]]
  BY DEF Pwm!jd_pwm_init, Pwm!apply_config
<1>3. t \in Pwm!TimerFor(p)
  BY <1>1
<1>4. t \in Pwm!Timers /\ \A u \in Pwm!Timers : u # t => timers[u].pin # p
  BY <1>3, FoundTimer DEF PwmInv
<1>5. r.period \in Nat \ {0} /\ r.prescaler \in Nat /\ d \in Nat /\ DivMax \in Nat /\ p # "none"
  BY ServicesOK DEF Pwm!PwmConstantsOK
<1>6. /\ b \in 4..(BitMax - 1) /\ div \in Nat
      /\ \A e \in Nat : PeriodFits([div |-> div, bits |-> b, duty |-> e],
                                   [period |-> r.period, prescaler |-> r.prescaler, duty |-> e])
  BY <1>1, PeriodOf
<1>7. part \in Nat /\ part < 2^b
  BY <1>5, <1>6, DutyOf
<1>8. PwmShapes'
  <2>1. div \in 0..DivMax /\ b \in 0..(BitMax - 1)
    BY <1>1, <1>5, <1>6
  <2>. QED  BY <1>2, <1>4, <1>5, <1>7, <2>1 DEF PwmInv, PwmShapes
<1>9. /\ timers'[t] = [pin |-> p, bits |-> b, period |-> r.period]
      /\ hw'[t] = [div |-> div, bits |-> b, duty |-> part]
      /\ matrix'[p] = t
      /\ asked'[p] = [period |-> r.period, prescaler |-> r.prescaler, duty |-> d]
  BY <1>2, <1>4 DEF PwmInv, PwmShapes
<1>10. /\ \A u \in Pwm!Timers : u # t => timers'[u] = timers[u] /\ hw'[u] = hw[u]
       /\ \A q \in Pins : q # p => matrix'[q] = matrix[q] /\ asked'[q] = asked[q]
  BY <1>2 DEF PwmInv, PwmShapes
<1>11. DutyBelow'
  <2>1. SUFFICES ASSUME NEW u \in Pwm!Timers PROVE hw'[u].duty < 2^hw'[u].bits
    BY DEF DutyBelow
  <2>2. CASE u = t
    <3>1. hw'[u].duty = part /\ hw'[u].bits = b
      BY <1>9, <2>2
    <3>. QED  BY ONLY <1>7, <3>1
  <2>3. CASE u # t
    <3>1. hw'[u] = hw[u]
      BY <1>10, <2>3
    <3>. QED  BY <3>1 DEF PwmInv, DutyBelow
  <2>. QED  BY <2>2, <2>3
<1>12. OwnTimer'
  <2>1. ASSUME NEW q \in Pins, matrix'[q] # -1 PROVE timers'[matrix'[q]].pin = q
    <3>1. CASE q = p
      <4>1. matrix'[q] = t
        BY <1>9, <3>1
      <4>2. timers'[t].pin = p
        BY <1>9
      <4>. QED  BY <3>1, <4>1, <4>2
    <3>2. CASE q # p
      <4>1. matrix[q] \in Pwm!Timers /\ timers[matrix[q]].pin = q /\ matrix'[q] = matrix[q]
        BY <1>10, <2>1, <3>2 DEF PwmInv, PwmShapes, OwnTimer
      <4>2. matrix[q] # t
        <5>1. SUFFICES ASSUME matrix[q] = t PROVE FALSE
          OBVIOUS
        <5>2. timers[t].pin = q
          BY <4>1, <5>1
        <5>3. Pwm!TimerFor(p) = {u \in Pwm!Timers : timers[u].pin = p} \/ timers[t].pin = "none"
          BY <1>3 DEF Pwm!TimerFor
        <5>4. q # "none"
          BY ServicesOK DEF Pwm!PwmConstantsOK
        <5>. QED  BY <1>3, <3>2, <5>2, <5>3, <5>4
      <4>. QED  BY <1>10, <4>1, <4>2
    <3>. QED  BY <3>1, <3>2
  <2>2. ASSUME NEW u \in Pwm!Timers, NEW v \in Pwm!Timers, timers'[u].pin = timers'[v].pin,
               timers'[u].pin # "none"
        PROVE  u = v
    <3>1. timers'[t].pin = p
      BY <1>9
    <3>2. CASE u = t \/ v = t
      BY <1>4, <1>10, <2>2, <3>1, <3>2
    <3>3. CASE u # t /\ v # t
      BY <1>10, <2>2, <3>3 DEF PwmInv, OwnTimer
    <3>. QED  BY <3>2, <3>3
  <2>. QED  BY <2>1, <2>2 DEF OwnTimer
<1>13. ChannelRight'
  <2>1. SUFFICES ASSUME NEW u \in Pwm!Timers, timers'[u].pin # "none"
                 PROVE  /\ timers'[u].bits = hw'[u].bits /\ hw'[u].bits \in 4..(BitMax - 1)
                        /\ timers'[u].period = asked'[timers'[u].pin].period
                        /\ timers'[u].period > 0
                        /\ PeriodFits(hw'[u], asked'[timers'[u].pin])
                        /\ DutyFits(hw'[u], asked'[timers'[u].pin])
    BY DEF ChannelRight
  <2>2. CASE u = t
    <3>1. PeriodFits(hw'[t], asked'[p])
      <4>1. PeriodFits([div |-> div, bits |-> b, duty |-> d],
                       [period |-> r.period, prescaler |-> r.prescaler, duty |-> d])
        BY <1>5, <1>6
      <4>. QED  BY <1>9, <4>1 DEF PeriodFits
    <3>2. DutyFits(hw'[t], asked'[p])
      BY <1>5, <1>6, <1>9, DutyOf
    <3>. QED  BY <1>5, <1>6, <1>9, <2>2, <3>1, <3>2
  <2>3. CASE u # t
    <3>1. timers'[u] = timers[u] /\ hw'[u] = hw[u] /\ timers[u].pin # p
      BY <1>4, <1>10, <2>3
    <3>2. timers[u].pin \in Pins
      BY <2>1, <3>1 DEF PwmInv, PwmShapes
    <3>3. asked'[timers[u].pin] = asked[timers[u].pin]
      BY <1>10, <3>1, <3>2
    <3>. QED  BY <2>1, <3>1, <3>3 DEF PwmInv, ChannelRight
  <2>. QED  BY <2>2, <2>3
<1>. QED  BY <1>8, <1>11, <1>12, <1>13 DEF PwmInv

LEMMA PwmSetDuty ==
  ASSUME InRange, PwmInv, NEW t \in Pwm!Timers, NEW d \in Duties, Pwm!jd_pwm_set_duty(t, d)
  PROVE  PwmInv'
<1> DEFINE p == timers[t].pin
           part == Pwm!DutyPart(timers[t].bits, timers[t].period, d)
<1>1. /\ p # "none" /\ UNCHANGED <<timers, matrix, failed>>
      /\ hw' = [hw EXCEPT ![t].duty = part] /\ asked' = [asked EXCEPT ![p].duty = d]
  BY DEF Pwm!jd_pwm_set_duty
<1>2. p \in Pins /\ timers[t].period \in Nat \ {0} /\ timers[t].bits \in 4..(BitMax - 1) /\ d \in Nat
  <2>1. p \in Pins /\ timers[t].period \in Nat
    BY <1>1 DEF PwmInv, PwmShapes
  <2>2. timers[t].period > 0 /\ timers[t].bits \in 4..(BitMax - 1)
    BY <1>1 DEF PwmInv, ChannelRight
  <2>3. d \in Nat
    BY ServicesOK DEF Pwm!PwmConstantsOK
  <2>. QED  BY <2>1, <2>2, <2>3
<1>3. part \in Nat /\ part < 2^timers[t].bits
  BY <1>2, DutyOf
<1>4. PwmShapes'
  BY ZenonT(30), <1>1, <1>2, <1>3 DEF PwmInv, PwmShapes
<1>5. /\ hw'[t].div = hw[t].div /\ hw'[t].bits = hw[t].bits /\ hw'[t].duty = part
      /\ asked'[p].period = asked[p].period /\ asked'[p].prescaler = asked[p].prescaler
      /\ asked'[p].duty = d
  BY <1>1, <1>2 DEF PwmInv, PwmShapes
<1>6. /\ \A u \in Pwm!Timers : u # t => hw'[u] = hw[u]
      /\ \A q \in Pins : q # p => asked'[q] = asked[q]
  BY <1>1 DEF PwmInv, PwmShapes
<1>7. timers[t].bits = hw[t].bits
  BY <1>1 DEF PwmInv, ChannelRight
<1>8. DutyBelow'
  BY <1>3, <1>5, <1>6, <1>7 DEF PwmInv, DutyBelow
<1>9. OwnTimer'
  BY <1>1 DEF PwmInv, OwnTimer
<1>10. ChannelRight'
  <2>1. SUFFICES ASSUME NEW u \in Pwm!Timers, timers[u].pin # "none"
                 PROVE  /\ timers[u].bits = hw'[u].bits /\ hw'[u].bits \in 4..(BitMax - 1)
                        /\ timers[u].period = asked'[timers[u].pin].period
                        /\ timers[u].period > 0
                        /\ PeriodFits(hw'[u], asked'[timers[u].pin])
                        /\ DutyFits(hw'[u], asked'[timers[u].pin])
    BY <1>1 DEF ChannelRight
  <2>2. CASE u = t
    <3>1. /\ timers[t].bits = hw'[t].bits /\ hw'[t].bits \in 4..(BitMax - 1)
          /\ timers[t].period = asked'[p].period /\ timers[t].period > 0
      BY <1>1, <1>5 DEF PwmInv, ChannelRight
    <3>2. PeriodFits(hw'[t], asked'[p])
      BY <1>1, <1>5 DEF PwmInv, ChannelRight, PeriodFits
    <3>3. DutyFits(hw'[t], asked'[p])
      BY <1>2, <1>5, <3>1, DutyOf
    <3>. QED  BY <2>2, <3>1, <3>2, <3>3
  <2>3. CASE u # t
    <3>1. timers[u].pin # p
      BY <1>1, <2>3 DEF PwmInv, OwnTimer
    <3>2. timers[u].pin \in Pins
      BY <2>1 DEF PwmInv, PwmShapes
    <3>3. asked'[timers[u].pin] = asked[timers[u].pin] /\ hw'[u] = hw[u]
      BY <1>6, <2>3, <3>1, <3>2
    <3>. QED  BY <2>1, <3>3 DEF PwmInv, ChannelRight
  <2>. QED  BY <2>2, <2>3
<1>. QED  BY <1>4, <1>8, <1>9, <1>10 DEF PwmInv

LEMMA PwmEnable ==
  ASSUME InRange, PwmInv, NEW t \in Pwm!Timers, NEW e \in BOOLEAN, Pwm!jd_pwm_enable(t, e)
  PROVE  PwmInv'
<1> DEFINE p == timers[t].pin
<1>1. /\ p # "none" /\ UNCHANGED <<timers, hw, asked, failed>>
      /\ matrix' = [matrix EXCEPT ![p] = IF e THEN t ELSE -1]
  BY DEF Pwm!jd_pwm_enable
<1>2. p \in Pins /\ matrix'[p] \in {t, -1} /\ \A q \in Pins : q # p => matrix'[q] = matrix[q]
  BY <1>1 DEF PwmInv, PwmShapes
<1>3. PwmShapes'
  BY <1>1, <1>2 DEF PwmInv, PwmShapes
<1>4. OwnTimer'
  BY <1>1, <1>2 DEF PwmInv, OwnTimer
<1>5. DutyBelow' /\ ChannelRight'
  BY <1>1 DEF PwmInv, DutyBelow, ChannelRight
<1>. QED  BY <1>3, <1>4, <1>5 DEF PwmInv

LEMMA PwmStep == ASSUME InRange, PwmInv, [Next]_vars PROVE PwmInv'
<1>1. CASE Pwm!Next
  <2>1. CASE \E p \in Pins, r \in Requests, d \in Duties : Pwm!jd_pwm_init(p, r, d)
    <3>. PICK p \in Pins, r \in Requests, d \in Duties : Pwm!jd_pwm_init(p, r, d)
      BY <2>1
    <3>1. CASE failed' = "none"
      BY <3>1, PwmSetUp
    <3>2. CASE failed' # "none"
      <4>1. UNCHANGED <<timers, hw, matrix, asked>>
        BY <3>2 DEF Pwm!jd_pwm_init
      <4>2. failed' \in {"none", "too fast", "out of timers", "null"}
        BY DEF Pwm!jd_pwm_init
      <4>. QED  BY <4>1, <4>2 DEF PwmInv, PwmShapes, DutyBelow, OwnTimer, ChannelRight
    <3>. QED  BY <3>1, <3>2
  <2>. QED  BY <1>1, <2>1, PwmSetDuty, PwmEnable DEF Pwm!Next
<1>2. CASE UNCHANGED pwmVars
  BY <1>2 DEF pwmVars, PwmInv, PwmShapes, DutyBelow, OwnTimer, ChannelRight
<1>. QED  BY <1>1, <1>2 DEF Next, vars

\* The signal on a connected pin is the one last asked for on that pin, whatever
\* the other pins have been set to, for any pins, timers, and requests and duties
\* that do not overflow a word (led.c:49-130).
THEOREM SignalsRight == ASSUME InRange PROVE Spec => []SignalRight
<1>1. Init => PwmInv
  BY PwmInit
<1>2. PwmInv /\ [Next]_vars => PwmInv'
  BY PwmStep
<1>3. PwmInv => SignalRight
  <2>1. SUFFICES ASSUME PwmInv, NEW p \in Pins, matrix[p] # -1
                 PROVE  Pwm!PeriodRight(p) /\ Pwm!DutyRight(p)
    BY DEF SignalRight, Pwm!SignalRight, Pwm!Connected
  <2>2. matrix[p] \in Pwm!Timers /\ timers[matrix[p]].pin = p /\ p # "none"
    BY <2>1, ServicesOK DEF PwmInv, PwmShapes, OwnTimer, Pwm!PwmConstantsOK
  <2>3. PeriodFits(hw[matrix[p]], asked[p]) /\ DutyFits(hw[matrix[p]], asked[p])
    <3> DEFINE t == matrix[p]
    <3>1. t \in Pwm!Timers /\ timers[t].pin = p /\ timers[t].pin # "none"
      BY <2>2
    <3> HIDE DEF t
    <3>2. PeriodFits(hw[t], asked[timers[t].pin]) /\ DutyFits(hw[t], asked[timers[t].pin])
      BY <2>1, <3>1 DEF PwmInv, ChannelRight
    <3>. QED  BY <3>1, <3>2 DEF t
  <2>. QED  BY <2>3 DEF PeriodFits, DutyFits, Pwm!PeriodRight, Pwm!DutyRight
<1>. QED  BY <1>1, <1>2, <1>3, PTL DEF Spec

-----------------------------------------------------------------------------
(***************************************************************************)
(* The reading of properties.  The code's loop is a recursive function of  *)
(* the offset of a pair.  FirstFrom says without recursion what it must    *)
(* return; it obeys the function's equation, and nothing else does: at the *)
(* last offset where another solution differed, it would have to agree.    *)
(***************************************************************************)
MatchAt(bag, key, p) ==
  /\ p + Len(key) < Len(bag)
  /\ bag[p + Len(key) + 1] = "=" /\ Bag!Slice(bag, p, p + Len(key)) = key

Starts(bag, ptr) == {p \in ptr..Len(bag) : p = ptr \/ bag[p] = Bag!Sep}

FirstMatch(bag, key, ptr) ==
  {p \in Starts(bag, ptr) : /\ MatchAt(bag, key, p)
                            /\ \A q \in Starts(bag, ptr) : MatchAt(bag, key, q) => p <= q}

Value(bag, key, p) == Bag!Slice(bag, p + Len(key) + 1, Bag!EndOfPair(bag, p))

FirstFrom(bag, key, ptr) == {Value(bag, key, p) : p \in FirstMatch(bag, key, ptr)}

NextPair(bag, ptr) ==
  IF Bag!EndOfPair(bag, ptr) < Len(bag) THEN Bag!EndOfPair(bag, ptr) + 1
                                        ELSE Bag!EndOfPair(bag, ptr)

\* What is demanded of the loop, as a function of the offset it starts from.
ScanOf(bag, key, From) ==
  [ptr \in 0..Len(bag) |->
     IF ptr + Len(key) >= Len(bag) THEN {}
     ELSE IF bag[ptr + Len(key) + 1] = "=" /\ Bag!Slice(bag, ptr, ptr + Len(key)) = key
     THEN {Bag!Slice(bag, ptr + Len(key) + 1, Bag!EndOfPair(bag, ptr))}
     ELSE From[IF Bag!EndOfPair(bag, ptr) < Len(bag) THEN Bag!EndOfPair(bag, ptr) + 1
               ELSE Bag!EndOfPair(bag, ptr)]]

Bytes == Chars \union {Bag!Sep, "="}

LEMMA LookupIsScan ==
  ASSUME NEW bag, NEW key
  PROVE  Bag!Lookup(bag, key) = (CHOOSE From : From = ScanOf(bag, key, From))[0]
BY Zenon DEF Bag!Lookup, ScanOf

LEMMA PairEnds ==
  ASSUME NEW bag \in Seq(Bytes), NEW ptr \in 0..Len(bag)
  PROVE  /\ Bag!EndOfPair(bag, ptr) \in ptr..Len(bag)
         /\ Bag!EndOfPair(bag, ptr) = Len(bag) \/ bag[Bag!EndOfPair(bag, ptr) + 1] = Bag!Sep
         /\ \A i \in ptr..(Bag!EndOfPair(bag, ptr) - 1) : bag[i + 1] # Bag!Sep
<1> DEFINE T == {n \in ptr..Len(bag) : n = Len(bag) \/ bag[n + 1] = Bag!Sep}
<1>1. Len(bag) \in T /\ T \in SUBSET Nat
  OBVIOUS
<1>2. PICK m \in T : \A k \in T : m <= k
  BY <1>1, LeastNumber
<1>3. \A i \in ptr..(m - 1) : bag[i + 1] # Bag!Sep
  <2>1. ASSUME NEW i \in ptr..(m - 1), bag[i + 1] = Bag!Sep PROVE FALSE
    <3>1. i \in ptr..Len(bag) /\ ~(m <= i)
      BY <1>2
    <3>2. i \in T
      BY <2>1, <3>1
    <3>. QED  BY <1>2, <3>1, <3>2
  <2>. QED  BY <2>1
<1>4. m \in ptr..Len(bag) /\ (m = Len(bag) \/ bag[m + 1] = Bag!Sep)
  BY <1>2
<1>. QED  BY <1>3, <1>4 DEF Bag!EndOfPair

\* A pair with the key begins at ptr: it is the first from there.
LEMMA MatchHere ==
  ASSUME NEW bag \in Seq(Bytes), NEW key \in Seq(Chars), NEW ptr \in 0..Len(bag),
         MatchAt(bag, key, ptr)
  PROVE  FirstFrom(bag, key, ptr) = {Value(bag, key, ptr)}
<1>1. ptr \in Starts(bag, ptr) /\ \A q \in Starts(bag, ptr) : ptr <= q
  BY DEF Starts
<1>2. FirstMatch(bag, key, ptr) = {ptr}
  <2>1. ptr \in FirstMatch(bag, key, ptr)
    BY <1>1 DEF FirstMatch
  <2>2. ASSUME NEW q \in FirstMatch(bag, key, ptr) PROVE q = ptr
    <3>1. q \in Starts(bag, ptr) /\ q <= ptr /\ ptr <= q
      BY <1>1 DEF FirstMatch
    <3>. QED  BY <3>1 DEF Starts
  <2>. QED  BY <2>1, <2>2
<1>. QED  BY <1>2 DEF FirstFrom

\* None begins there: the first is the first from the next pair on.
LEMMA MatchLater ==
  ASSUME NEW bag \in Seq(Bytes), NEW key \in Seq(Chars), NEW ptr \in 0..Len(bag),
         ~MatchAt(bag, key, ptr), ptr < Len(bag)
  PROVE  /\ NextPair(bag, ptr) \in (ptr + 1)..Len(bag)
         /\ FirstFrom(bag, key, ptr) = FirstFrom(bag, key, NextPair(bag, ptr))
<1> DEFINE e == Bag!EndOfPair(bag, ptr)
           n == NextPair(bag, ptr)
<1>1. e \in ptr..Len(bag) /\ (e = Len(bag) \/ bag[e + 1] = Bag!Sep)
      /\ \A i \in ptr..(e - 1) : bag[i + 1] # Bag!Sep
  BY PairEnds
<1>2. n \in (ptr + 1)..Len(bag)
  BY <1>1 DEF NextPair
<1>3. CASE e < Len(bag)
  <2>1. n = e + 1
    BY <1>3 DEF NextPair
  <2>2. \A q \in (ptr + 1)..Len(bag) : bag[q] = Bag!Sep => q >= n
    <3>1. ASSUME NEW q \in (ptr + 1)..Len(bag), bag[q] = Bag!Sep, q < n PROVE FALSE
      <4>1. q - 1 \in ptr..(e - 1) /\ (q - 1) + 1 = q
        BY <1>1, <2>1, <3>1
      <4>. QED  BY <1>1, <3>1, <4>1
    <3>. QED  BY <1>2, <3>1
  <2>3. bag[n] = Bag!Sep
    BY <1>1, <1>3, <2>1
  <2>4. Starts(bag, ptr) = {ptr} \cup Starts(bag, n)
    BY <1>2, <2>2, <2>3 DEF Starts
  <2>5. FirstMatch(bag, key, ptr) = FirstMatch(bag, key, n)
    BY <2>4 DEF FirstMatch
  <2>. QED  BY <1>2, <2>5 DEF FirstFrom
<1>4. CASE e = Len(bag)
  <2>1. n = Len(bag)
    BY <1>4 DEF NextPair
  <2>2. \A q \in (ptr + 1)..Len(bag) : bag[q] # Bag!Sep
    <3>1. ASSUME NEW q \in (ptr + 1)..Len(bag), bag[q] = Bag!Sep PROVE FALSE
      <4>1. q - 1 \in ptr..(e - 1) /\ (q - 1) + 1 = q
        BY <1>4, <3>1
      <4>. QED  BY <1>1, <3>1, <4>1
    <3>. QED  BY <3>1
  <2>3. FirstMatch(bag, key, ptr) = {}
    BY <2>2 DEF FirstMatch, Starts
  <2>4. FirstMatch(bag, key, n) = {}
    BY <2>1 DEF FirstMatch, Starts, MatchAt
  <2>. QED  BY <1>2, <2>3, <2>4 DEF FirstFrom
<1>. QED  BY <1>1, <1>3, <1>4

LEMMA NoRoom ==
  ASSUME NEW bag \in Seq(Bytes), NEW key \in Seq(Chars), NEW ptr \in 0..Len(bag),
         ptr + Len(key) >= Len(bag)
  PROVE  FirstFrom(bag, key, ptr) = {}
<1>1. FirstMatch(bag, key, ptr) = {}
  BY DEF FirstMatch, Starts, MatchAt
<1>. QED  BY <1>1 DEF FirstFrom

\* FirstFrom obeys the equation of the loop.
LEMMA FirstObeys ==
  ASSUME NEW bag \in Seq(Bytes), NEW key \in Seq(Chars)
  PROVE  LET F == [ptr \in 0..Len(bag) |-> FirstFrom(bag, key, ptr)]
         IN  F = ScanOf(bag, key, F)
<1> DEFINE F == [ptr \in 0..Len(bag) |-> FirstFrom(bag, key, ptr)]
<1>1. SUFFICES ASSUME NEW ptr \in 0..Len(bag)
               PROVE  F[ptr] = ScanOf(bag, key, F)[ptr]
  BY Zenon DEF ScanOf
<1>2. CASE ptr + Len(key) >= Len(bag)
  BY <1>2, NoRoom DEF ScanOf
<1>3. CASE MatchAt(bag, key, ptr)
  <2>1. ~(ptr + Len(key) >= Len(bag))
    BY <1>3 DEF MatchAt
  <2>. QED  BY <1>3, <2>1, MatchHere DEF ScanOf, MatchAt, Value
<1>4. CASE ~(ptr + Len(key) >= Len(bag)) /\ ~MatchAt(bag, key, ptr)
  <2>1. NextPair(bag, ptr) \in 0..Len(bag) /\ F[ptr] = F[NextPair(bag, ptr)]
    BY <1>4, MatchLater
  <2>2. ScanOf(bag, key, F)[ptr] = F[NextPair(bag, ptr)]
    BY <1>4 DEF ScanOf, MatchAt, NextPair
  <2>. QED  BY <2>1, <2>2
<1>. QED  BY <1>2, <1>3, <1>4

\* So does no other function.
LEMMA OnlyFirst ==
  ASSUME NEW bag \in Seq(Bytes), NEW key \in Seq(Chars), NEW From, From = ScanOf(bag, key, From)
  PROVE  From[0] = FirstFrom(bag, key, 0)
<1> DEFINE Wrong == {d \in 0..Len(bag) : From[Len(bag) - d] # FirstFrom(bag, key, Len(bag) - d)}
<1>1. SUFFICES ASSUME Wrong # {} PROVE FALSE
  <2>1. Len(bag) \notin Wrong => From[0] = FirstFrom(bag, key, 0)
    OBVIOUS
  <2>. QED  BY <2>1
<1>2. PICK d \in Wrong : \A k \in Wrong : d <= k
  <2>1. Wrong \in SUBSET Nat
    OBVIOUS
  <2>. HIDE DEF Wrong
  <2>. QED  BY <1>1, <2>1, LeastNumber
<1> DEFINE ptr == Len(bag) - d
<1>3. ptr \in 0..Len(bag) /\ From[ptr] # FirstFrom(bag, key, ptr)
  BY <1>2
<1>4. \A p \in (ptr + 1)..Len(bag) : From[p] = FirstFrom(bag, key, p)
  <2>1. SUFFICES ASSUME NEW p \in (ptr + 1)..Len(bag), From[p] # FirstFrom(bag, key, p) PROVE FALSE
    OBVIOUS
  <2>2. Len(bag) - p \in 0..Len(bag) /\ Len(bag) - (Len(bag) - p) = p /\ Len(bag) - p < d
    BY <2>1
  <2>3. Len(bag) - p \in Wrong
    BY <2>1, <2>2
  <2>. QED  BY <1>2, <2>2, <2>3
<1> HIDE DEF ptr, Wrong
<1>5. From[ptr] = ScanOf(bag, key, From)[ptr]
  OBVIOUS
<1>6. CASE ptr + Len(key) >= Len(bag)
  BY <1>3, <1>5, <1>6, NoRoom DEF ScanOf
<1>7. CASE MatchAt(bag, key, ptr)
  <2>1. ~(ptr + Len(key) >= Len(bag))
    BY <1>3, <1>7 DEF MatchAt
  <2>. QED  BY <1>3, <1>5, <1>7, <2>1, MatchHere DEF ScanOf, MatchAt, Value
<1>8. CASE ~(ptr + Len(key) >= Len(bag)) /\ ~MatchAt(bag, key, ptr)
  <2>1. /\ NextPair(bag, ptr) \in (ptr + 1)..Len(bag)
        /\ FirstFrom(bag, key, ptr) = FirstFrom(bag, key, NextPair(bag, ptr))
    BY <1>3, <1>8, MatchLater
  <2>2. ScanOf(bag, key, From)[ptr] = From[NextPair(bag, ptr)]
    BY <1>3, <1>8 DEF ScanOf, MatchAt, NextPair
  <2>. QED  BY <1>3, <1>4, <1>5, <2>1, <2>2
<1>. QED  BY <1>6, <1>7, <1>8

\* What the loop returns, for every list and key.
LEMMA LookupFirst ==
  ASSUME NEW bag \in Seq(Bytes), NEW key \in Seq(Chars)
  PROVE  Bag!Lookup(bag, key) = FirstFrom(bag, key, 0)
<1> DEFINE S == CHOOSE From : From = ScanOf(bag, key, From)
<1>1. \E From : From = ScanOf(bag, key, From)
  BY FirstObeys, Zenon
<1>2. S = ScanOf(bag, key, S)
  BY <1>1, Zenon
<1> HIDE DEF S
<1>3. S[0] = FirstFrom(bag, key, 0)
  BY <1>2, OnlyFirst
<1>. QED  BY <1>3, LookupIsScan, Zenon DEF S

\* The value that is found lies in its pair, because a key has no separator in it.
LEMMA NameInPair ==
  ASSUME NEW bag \in Seq(Bytes), NEW key \in Seq(Chars), NEW p \in 0..Len(bag),
         MatchAt(bag, key, p)
  PROVE  p + Len(key) + 1 \in 0..Bag!EndOfPair(bag, p)
<1> DEFINE e == Bag!EndOfPair(bag, p)
<1>1. e \in p..Len(bag) /\ (e = Len(bag) \/ bag[e + 1] = Bag!Sep)
  BY PairEnds
<1>2. /\ p + Len(key) < Len(bag) /\ bag[p + Len(key) + 1] = "="
      /\ SubSeq(bag, p + 1, p + Len(key)) = key
  BY DEF MatchAt, Bag!Slice
<1>3. \A i \in 1..Len(key) : bag[p + i] = key[i] /\ key[i] \in Chars
  BY <1>2
<1>4. Bag!Sep \notin Chars /\ Bag!Sep # "="
  <2>1. Bag!Sep # "="
    BY Zenon DEF Bag!Sep
  <2>. QED  BY <2>1, ServicesOK DEF Bag!BagConstantsOK
<1>5. ASSUME NEW i \in 1..(Len(key) + 1) PROVE bag[p + i] # Bag!Sep
  <2>1. CASE i \in 1..Len(key)
    BY <1>3, <1>4, <2>1
  <2>2. CASE p + i = p + Len(key) + 1
    BY <1>2, <1>4, <2>2
  <2>. QED  BY <2>1, <2>2
<1> HIDE DEF e
<1>6. SUFFICES ASSUME e < p + Len(key) + 1 PROVE FALSE
  BY <1>1 DEF e
<1>7. e < Len(bag) /\ e + 1 - p \in 1..(Len(key) + 1) /\ p + (e + 1 - p) = e + 1
  BY <1>1, <1>2, <1>6
<1>8. bag[e + 1] # Bag!Sep
  BY <1>5, <1>7
<1>. QED  BY <1>1, <1>7, <1>8

\* A whole pair that begins with the name is one the loop stops at.
LEMMA HitIsMatch ==
  ASSUME NEW bag \in Seq(Bytes), NEW key \in Seq(Chars),
         NEW a \in 0..Len(bag), NEW b \in 0..Len(bag),
         a <= b, Bag!IsPair(bag, a, b), a + Len(Append(key, "=")) <= b,
         Bag!Slice(bag, a, a + Len(Append(key, "="))) = Append(key, "=")
  PROVE  a \in Starts(bag, 0) /\ MatchAt(bag, key, a) /\ b = Bag!EndOfPair(bag, a)
<1>1. Len(Append(key, "=")) = Len(key) + 1 /\ Len(key) \in Nat /\ a + (Len(key) + 1) <= Len(bag)
  OBVIOUS
<1>2. a \in Starts(bag, 0)
  BY DEF Bag!IsPair, Starts
<1>3. SubSeq(bag, a + 1, a + (Len(key) + 1)) = Append(key, "=")
  BY <1>1 DEF Bag!Slice
<1>4. \A i \in 1..(Len(key) + 1) : bag[a + i] = Append(key, "=")[i]
  <2>1. \A i \in 1..(Len(key) + 1) : SubSeq(bag, a + 1, a + (Len(key) + 1))[i] = bag[a + i]
    BY ONLY <1>1, a \in 0..Len(bag), bag \in Seq(Bytes)
  <2>. QED  BY <1>3, <2>1
<1>5. bag[a + Len(key) + 1] = "="
  <2>1. a + Len(key) + 1 = a + (Len(key) + 1) /\ Append(key, "=")[Len(key) + 1] = "="
    BY <1>1
  <2>. QED  BY <1>1, <1>4, <2>1
<1>6. SubSeq(bag, a + 1, a + Len(key)) = key
  <2>1. \A i \in 1..Len(key) : bag[a + i] = key[i]
    <3>1. \A i \in 1..Len(key) : i \in 1..(Len(key) + 1) /\ Append(key, "=")[i] = key[i]
      BY <1>1
    <3>. QED  BY <1>4, <3>1
  <2>2. /\ SubSeq(bag, a + 1, a + Len(key)) \in Seq(Bytes)
        /\ Len(SubSeq(bag, a + 1, a + Len(key))) = Len(key)
        /\ \A i \in 1..Len(key) : SubSeq(bag, a + 1, a + Len(key))[i] = bag[a + i]
    BY ONLY <1>1, a \in 0..Len(bag), bag \in Seq(Bytes)
  <2>3. key \in Seq(Bytes)
    BY DEF Bytes
  <2>. QED  BY <2>1, <2>2, <2>3, SeqEqual
<1>7. MatchAt(bag, key, a)
  BY <1>1, <1>5, <1>6 DEF MatchAt, Bag!Slice
<1>8. b = Bag!EndOfPair(bag, a)
  <2> DEFINE e == Bag!EndOfPair(bag, a)
  <2>1. /\ e \in a..Len(bag) /\ (e = Len(bag) \/ bag[e + 1] = Bag!Sep)
        /\ \A i \in a..(e - 1) : bag[i + 1] # Bag!Sep
    BY PairEnds
  <2>2. /\ b = Len(bag) \/ bag[b + 1] = Bag!Sep
        /\ \A i \in (a + 1)..b : bag[i] # Bag!Sep
    BY DEF Bag!IsPair
  <2> HIDE DEF e
  <2>3. ~(b < e)
    <3>1. b < e => b \in a..(e - 1) /\ b # Len(bag)
      BY <2>1
    <3>. QED  BY <2>1, <2>2, <3>1
  <2>4. ~(e < b)
    <3>1. e < b => e + 1 \in (a + 1)..b /\ e # Len(bag)
      BY <2>1
    <3>. QED  BY <2>1, <2>2, <3>1
  <2>. QED  BY <2>1, <2>3, <2>4 DEF e
<1>. QED  BY <1>2, <1>7, <1>8

\* And the other way round.
LEMMA MatchIsHit ==
  ASSUME NEW bag \in Seq(Bytes), NEW key \in Seq(Chars), NEW p \in Starts(bag, 0),
         MatchAt(bag, key, p)
  PROVE  /\ p \in 0..Len(bag) /\ Bag!EndOfPair(bag, p) \in p..Len(bag)
         /\ Bag!IsPair(bag, p, Bag!EndOfPair(bag, p))
         /\ p + Len(Append(key, "=")) <= Bag!EndOfPair(bag, p)
         /\ Bag!Slice(bag, p, p + Len(Append(key, "="))) = Append(key, "=")
<1> DEFINE e == Bag!EndOfPair(bag, p)
<1>1. Len(Append(key, "=")) = Len(key) + 1 /\ Len(key) \in Nat /\ p \in 0..Len(bag)
  BY DEF Starts
<1>2. /\ e \in p..Len(bag) /\ (e = Len(bag) \/ bag[e + 1] = Bag!Sep)
      /\ \A i \in p..(e - 1) : bag[i + 1] # Bag!Sep
  BY <1>1, PairEnds
<1>3. p + Len(key) + 1 \in 0..e
  BY <1>1, NameInPair
<1> HIDE DEF e
<1>4. Bag!IsPair(bag, p, e)
  <2>1. p = 0 \/ bag[p] = Bag!Sep
    BY DEF Starts
  <2>2. \A i \in (p + 1)..e : bag[i] # Bag!Sep
    <3>1. ASSUME NEW i \in (p + 1)..e PROVE bag[i] # Bag!Sep
      <4>1. i - 1 \in p..(e - 1) /\ (i - 1) + 1 = i
        BY <1>1, <1>2
      <4>. QED  BY <1>2, <4>1
    <3>. QED  BY <3>1
  <2>. QED  BY <1>2, <2>1, <2>2 DEF Bag!IsPair
<1>5. SubSeq(bag, p + 1, p + (Len(key) + 1)) = Append(key, "=")
  <2>1. /\ p + Len(key) < Len(bag) /\ bag[p + Len(key) + 1] = "="
        /\ SubSeq(bag, p + 1, p + Len(key)) = key
    BY DEF MatchAt, Bag!Slice
  <2>2. \A i \in 1..Len(key) : bag[p + i] = key[i]
    BY <1>1, <2>1
  <2>3. \A i \in 1..(Len(key) + 1) : bag[p + i] = Append(key, "=")[i]
    <3>1. p + (Len(key) + 1) = p + Len(key) + 1
      BY <1>1
    <3>. QED  BY <1>1, <2>1, <2>2, <3>1
  <2>4. /\ SubSeq(bag, p + 1, p + (Len(key) + 1)) \in Seq(Bytes)
        /\ Len(SubSeq(bag, p + 1, p + (Len(key) + 1))) = Len(key) + 1
        /\ \A i \in 1..(Len(key) + 1) : SubSeq(bag, p + 1, p + (Len(key) + 1))[i] = bag[p + i]
    BY <1>1, <2>1
  <2>5. Append(key, "=") \in Seq(Bytes)
    BY DEF Bytes
  <2>. QED  BY <1>1, <2>3, <2>4, <2>5, SeqEqual
<1>. QED  BY <1>1, <1>2, <1>3, <1>4, <1>5 DEF e, Bag!Slice

-----------------------------------------------------------------------------
BagShapes ==
  /\ call \in [bag : Bag!Bags, key : Bag!Keys, result : SUBSET Bag!Bags]

BagInv == BagShapes /\ call.result = FirstFrom(call.bag, call.key, 0)

LEMMA BagSeq ==
  /\ Bag!Bags = {bag \in Seq(Bytes) : Len(bag) <= MaxLen}
  /\ Bag!Keys \in SUBSET Seq(Chars)
<1>1. MaxLen \in Nat
  BY ServicesOK DEF Bag!BagConstantsOK
<1>2. ASSUME NEW bag \in Bag!Bags PROVE bag \in Seq(Bytes) /\ Len(bag) <= MaxLen
  BY <1>1 DEF Bag!Bags, Bytes
<1>3. ASSUME NEW bag \in Seq(Bytes), Len(bag) <= MaxLen PROVE bag \in Bag!Bags
  <2>1. Len(bag) \in 0..MaxLen /\ bag \in [1..Len(bag) -> Bytes]
    BY <1>1, <1>3
  <2>. QED  BY <2>1 DEF Bag!Bags, Bytes
<1>4. ASSUME NEW key \in Bag!Keys PROVE key \in Seq(Chars)
  <2>1. PICK n \in 0..MaxKey : key \in [1..n -> Chars]
    BY DEF Bag!Keys
  <2>. QED  BY <2>1
<1>. QED  BY <1>2, <1>3, <1>4

LEMMA ValueTyped ==
  ASSUME NEW bag \in Bag!Bags, NEW key \in Bag!Keys
  PROVE  FirstFrom(bag, key, 0) \subseteq Bag!Bags
<1>1. bag \in Seq(Bytes) /\ Len(bag) <= MaxLen /\ key \in Seq(Chars) /\ MaxLen \in Nat
  BY BagSeq, ServicesOK DEF Bag!BagConstantsOK
<1>2. ASSUME NEW p \in FirstMatch(bag, key, 0) PROVE Value(bag, key, p) \in Bag!Bags
  <2> DEFINE a == p + Len(key) + 1
             e == Bag!EndOfPair(bag, p)
  <2>1. p \in 0..Len(bag) /\ MatchAt(bag, key, p)
    BY DEF FirstMatch, Starts
  <2>2. a \in 0..e /\ e \in p..Len(bag)
    BY <1>1, <2>1, NameInPair, PairEnds
  <2> HIDE DEF a, e
  <2>3. SubSeq(bag, a + 1, e) \in Seq(Bytes) /\ Len(SubSeq(bag, a + 1, e)) <= MaxLen
    BY <1>1, <2>1, <2>2
  <2>4. Value(bag, key, p) = SubSeq(bag, a + 1, e)
    BY Zenon DEF Value, Bag!Slice, a, e
  <2>. QED  BY <2>3, <2>4, BagSeq
<1>. QED  BY <1>2 DEF FirstFrom

LEMMA BagInit == ASSUME Init PROVE BagInv
<1>1. call = [bag |-> <<>>, key |-> <<>>, result |-> {}] /\ MaxLen \in Nat /\ MaxKey \in Nat
  BY ServicesOK DEF Init, Bag!Init, Bag!BagConstantsOK
<1>2. <<>> \in Bag!Bags /\ <<>> \in Seq(Bytes)
  BY <1>1, BagSeq
<1>3. <<>> \in Bag!Keys
  <2>1. <<>> \in [1..0 -> Chars] /\ 0 \in 0..MaxKey
    BY <1>1
  <2>. QED  BY <2>1 DEF Bag!Keys
<1>4. BagShapes
  BY <1>1, <1>2, <1>3 DEF BagShapes
<1>5. FirstFrom(<<>>, <<>>, 0) = {}
  <2>1. <<>> \in Seq(Chars) /\ 0 \in 0..Len(<<>>) /\ 0 + Len(<<>>) >= Len(<<>>)
    BY <1>1
  <2>. QED  BY ONLY <1>2, <2>1, NoRoom
<1>. QED  BY <1>1, <1>4, <1>5 DEF BagInv

LEMMA BagStep == ASSUME BagInv, [Next]_vars PROVE BagInv'
<1>1. CASE Bag!Next
  <2>. PICK bag \in Bag!Bags, key \in Bag!Keys : Bag!extract_property(bag, key)
    BY <1>1 DEF Bag!Next
  <2>1. call' = [bag |-> bag, key |-> key, result |-> FirstFrom(bag, key, 0)]
    BY BagSeq, LookupFirst DEF Bag!extract_property
  <2>2. FirstFrom(bag, key, 0) \in SUBSET Bag!Bags
    BY ValueTyped
  <2>. QED  BY <2>1, <2>2 DEF BagInv, BagShapes
<1>2. CASE UNCHANGED call
  BY <1>2 DEF BagInv, BagShapes
<1>. QED  BY <1>1, <1>2 DEF Next, vars

LEMMA BagInvariance == Spec => []BagInv
BY BagInit, BagStep, PTL DEF Spec

\* What is found is what follows "key=" in the first whole pair that begins with
\* it, for every list and key, also when the key occurs in a value or at the end of
\* another key; and nothing is found when there is no such pair (utils.c:6-25).
THEOREM FirstPairFound == Spec => []FindsFirst
<1>1. ASSUME BagInv PROVE FindsFirst
  <2> DEFINE bag == call.bag
             key == call.key
             name == Append(key, "=")
             Hit(p) == /\ p[1] <= p[2] /\ Bag!IsPair(bag, p[1], p[2])
                       /\ p[1] + Len(name) <= p[2]
                       /\ Bag!Slice(bag, p[1], p[1] + Len(name)) = name
             hits == {p \in (0..Len(bag)) \X (0..Len(bag)) : Hit(p)}
             first == {p \in hits : \A q \in hits : p[1] <= q[1]}
             found == FirstMatch(bag, key, 0)
  <2>1. bag \in Seq(Bytes) /\ key \in Seq(Chars) /\ call.result = FirstFrom(bag, key, 0)
    BY <1>1, BagSeq DEF BagInv, BagShapes
  <2>2. Len(name) = Len(key) + 1 /\ Len(key) \in Nat
    BY <2>1
  <2> HIDE DEF bag, key
  <2>3. ASSUME NEW p \in hits
        PROVE  /\ p[1] \in Starts(bag, 0) /\ MatchAt(bag, key, p[1])
               /\ p[2] = Bag!EndOfPair(bag, p[1]) /\ p[1] \in Nat
    <3>1. p[1] \in 0..Len(bag) /\ p[2] \in 0..Len(bag) /\ Hit(p)
      OBVIOUS
    <3>. QED  BY <2>1, <3>1, HitIsMatch
  <2>4. ASSUME NEW p \in Starts(bag, 0), MatchAt(bag, key, p)
        PROVE  <<p, Bag!EndOfPair(bag, p)>> \in hits
    <3> DEFINE e == Bag!EndOfPair(bag, p)
    <3>1. /\ p \in 0..Len(bag) /\ e \in p..Len(bag) /\ Bag!IsPair(bag, p, e)
          /\ p + Len(name) <= e /\ Bag!Slice(bag, p, p + Len(name)) = name
      BY <2>1, <2>4, MatchIsHit
    <3>. HIDE DEF e, name
    <3>2. p <= e /\ e \in 0..Len(bag)
      BY <2>1, <3>1
    <3>. QED  BY <3>1, <3>2 DEF e
  <2> HIDE DEF hits
  <2>5. ASSUME NEW p \in first PROVE p[1] \in found /\ p[2] = Bag!EndOfPair(bag, p[1])
    <3>1. p \in hits /\ \A q \in hits : p[1] <= q[1]
      OBVIOUS
    <3>2. ASSUME NEW q \in Starts(bag, 0), MatchAt(bag, key, q) PROVE p[1] <= q
      <4>1. <<q, Bag!EndOfPair(bag, q)>> \in hits
        BY <2>4, <3>2
      <4>2. p[1] <= <<q, Bag!EndOfPair(bag, q)>>[1]
        BY <3>1, <4>1
      <4>. QED  BY <4>2
    <3>. QED  BY <2>3, <3>1, <3>2 DEF FirstMatch
  <2>6. ASSUME NEW p \in found PROVE <<p, Bag!EndOfPair(bag, p)>> \in first
    <3>1. p \in Starts(bag, 0) /\ MatchAt(bag, key, p)
      BY DEF FirstMatch
    <3>2. <<p, Bag!EndOfPair(bag, p)>> \in hits
      BY <2>4, <3>1
    <3>3. ASSUME NEW q \in hits PROVE p <= q[1]
      BY <2>3, <3>3 DEF FirstMatch
    <3>. QED  BY <3>2, <3>3
  <2> DEFINE values == {Bag!Slice(bag, p[1] + Len(name), p[2]) : p \in first}
  <2>7. values = FirstFrom(bag, key, 0)
    <3> HIDE DEF first
    <3>1. ASSUME NEW p \in first
          PROVE  Bag!Slice(bag, p[1] + Len(name), p[2]) = Value(bag, key, p[1]) /\ p[1] \in found
      <4>1. p[1] \in Nat
        BY <2>5 DEF FirstMatch, Starts
      <4>2. p[1] + Len(name) = p[1] + Len(key) + 1
        BY <2>2, <4>1
      <4>. QED  BY <2>5, <4>2 DEF Value
    <3>2. ASSUME NEW p \in found
          PROVE  /\ <<p, Bag!EndOfPair(bag, p)>> \in first
                 /\ Bag!Slice(bag, p + Len(name), Bag!EndOfPair(bag, p)) = Value(bag, key, p)
      <4>1. p + Len(name) = p + Len(key) + 1
        BY <2>2 DEF FirstMatch, Starts
      <4>. QED  BY <2>6, <4>1 DEF Value
    <3> HIDE DEF found, name
    <3>3. values \subseteq FirstFrom(bag, key, 0)
      BY <3>1 DEF FirstFrom, found
    <3>4. ASSUME NEW p \in found PROVE Value(bag, key, p) \in values
      <4> DEFINE q == <<p, Bag!EndOfPair(bag, p)>>
      <4>1. q \in first /\ q[1] = p /\ q[2] = Bag!EndOfPair(bag, p)
        BY <3>2
      <4>. HIDE DEF q
      <4>. QED  BY <3>2, <4>1
    <3>. QED  BY <3>3, <3>4 DEF FirstFrom, found
  <2>. QED  BY <2>1, <2>7 DEF FindsFirst, Bag!FindsFirst, values, first, hits, name, bag, key
<1>. QED  BY <1>1, BagInvariance, PTL

-----------------------------------------------------------------------------
\* Every component of the buffer and of the frames is a level of a colour asked
\* for, or dark.
LEMMA RgbTypeStep == ASSUME Shapes, Rgb!TypeOK, [Next]_vars PROVE Rgb!TypeOK'
<1>. USE ServicesOK DEF Rgb!TypeOK, Rgb!RgbConstantsOK, Rgb!Idle, Rgb!Sending
<1>1. CASE Rgb!jd_rgbext_init
  BY <1>1 DEF Rgb!jd_rgbext_init
<1>2. CASE \E c \in Colours : Rgb!SetCall(c)
  <2>. PICK c \in Colours : Rgb!SetCall(c)
    BY <1>2
  <2>1. c \in Rgb!Frames
    BY DEF Rgb!Frames, Rgb!Levels, Rgb!Parts
  <2>2. set' = [pc |-> 1, colour |-> c] /\ UNCHANGED <<rgbext_chan, rgbext_buf, inflight, air, lit>>
    BY DEF Rgb!SetCall
  <2>. QED  BY <2>1, <2>2
<1>3. CASE Rgb!Store
  <2>1. /\ set.pc \in Rgb!Parts /\ set.colour \in Rgb!Frames
        /\ rgbext_buf' = [rgbext_buf EXCEPT ![set.pc] = set.colour[set.pc]]
        /\ set' = [set EXCEPT !.pc = @ + 1] /\ UNCHANGED <<rgbext_chan, inflight, air, lit>>
    BY <1>3 DEF Rgb!Store
  <2>2. rgbext_buf' \in Rgb!Frames
    BY <2>1 DEF Rgb!Frames
  <2>3. set'.pc \in 0..4 /\ set'.colour = set.colour
    BY <2>1 DEF Rgb!Parts, Shapes
  <2>. QED  BY <2>1, <2>2, <2>3
<1>4. CASE Rgb!transmit
  BY <1>4 DEF Rgb!transmit, Shapes
<1>5. CASE Rgb!FrameSent
  BY <1>5 DEF Rgb!FrameSent
<1>6. CASE UNCHANGED rgbVars
  BY <1>6 DEF rgbVars
<1>. QED
  BY <1>1, <1>2, <1>3, <1>4, <1>5, <1>6 DEF Next, vars, Rgb!Next, Rgb!jd_rgbext_set

\* The types of the services: a frame of the LED is made of levels asked for and no
\* more frames are queued than the RMT driver takes; WiFi's event queue does not
\* overflow; a channel's duty is below its resolution; extract_property returns a
\* part of its list, or nothing.
THEOREM ServiceTypes ==
  ASSUME InRange
  PROVE  Spec => []TypeOK
<1> DEFINE ServiceOK == service \in {"pwm", "rgbext", "wifi", "bag"}
<1>1. Init => PwmInv /\ Rgb!TypeOK /\ ServiceOK
  <2>1. Rgb!Dark \in Rgb!Frames
    <3>1. Rgb!Dark \in [Rgb!Parts -> {0}]
      BY DEF Rgb!Dark
    <3>2. 0 \in Rgb!Levels
      <4>1. 1 \in Rgb!Parts /\ Rgb!Dark[1] = 0 /\ Rgb!Dark \in Colours \union {Rgb!Dark}
        BY <3>1 DEF Rgb!Parts
      <4>. QED  BY <4>1 DEF Rgb!Levels
    <3>. QED  BY <3>1, <3>2 DEF Rgb!Frames
  <2>2. ASSUME Init PROVE Rgb!TypeOK
    <3>1. /\ rgbext_chan = FALSE /\ rgbext_buf = Rgb!Dark /\ air = Rgb!Dark /\ lit = Rgb!Dark
          /\ inflight = 0 /\ set = [pc |-> 0, colour |-> Rgb!Dark]
      BY <2>2 DEF Init, Rgb!Init, Rgb!Idle
    <3>2. rgbext_chan \in BOOLEAN
      BY <3>1, Zenon
    <3>3. set.pc \in 0..4 /\ {rgbext_buf, set.colour, air, lit} \subseteq Rgb!Frames
      BY <2>1, <3>1
    <3>4. inflight \in 0..QueueDepth
      BY <3>1, ServicesOK DEF Rgb!RgbConstantsOK
    <3>. QED  BY <3>2, <3>3, <3>4 DEF Rgb!TypeOK, Rgb!Idle, Rgb!Sending
  <2>3. Init => ServiceOK
    BY DEF Init
  <2>. QED  BY <2>2, <2>3, PwmInit
<1>2. LedInv /\ PwmInv /\ Rgb!TypeOK /\ [Next]_vars => PwmInv' /\ Rgb!TypeOK'
  BY PwmStep, RgbTypeStep DEF LedInv
<1>3. ServiceOK /\ [Next]_vars => ServiceOK'
  BY DEF Next, vars
<1>4. PwmInv /\ Rgb!TypeOK /\ Wifi!TypeOK /\ BagInv /\ ServiceOK => TypeOK
  BY DEF PwmInv, PwmShapes, DutyBelow, Pwm!TypeOK, BagInv, BagShapes, Bag!TypeOK, TypeOK
<1>. QED  BY <1>1, <1>2, <1>3, <1>4, LedInvariance, WifiTypes, BagInvariance, PTL DEF Spec
=============================================================================
