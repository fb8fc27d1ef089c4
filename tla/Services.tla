------------------------------ MODULE Services ------------------------------
(***************************************************************************)
(* The services the client uses from the main task only: PWM outputs, the  *)
(* status LED, WiFi, and the reading of properties.  They share nothing    *)
(* but that task, so that a behaviour is about one of them.                *)
(***************************************************************************)
EXTENDS Integers

CONSTANTS
  Pins, Requests, Duties, WordBits, TimerMax, BitMax, DivMax,   (* see Pwm  *)
  Colours, QueueDepth,                                       (* see RgbExt  *)
  MaxAps, MaxEvents,                                           (* see Wifi  *)
  Chars, MaxLen, MaxKey                                 (* see PropertyBag  *)

VARIABLES
  service,     (* the one that is used                                      *)
  timers, hw, matrix, asked, failed,
  rgbext_chan, rgbext_buf, set, inflight, air, lit,
  scanning, aps, link, dhcp, events, owed, answer, online, crossed, stopped,
  call

Pwm == INSTANCE Pwm
Rgb == INSTANCE RgbExt
Wifi == INSTANCE Wifi
Bag == INSTANCE PropertyBag

ASSUME ServicesOK ==
  /\ Pwm!PwmConstantsOK /\ Rgb!RgbConstantsOK /\ Wifi!WifiConstantsOK /\ Bag!BagConstantsOK

pwmVars  == <<timers, hw, matrix, asked, failed>>
rgbVars  == <<rgbext_chan, rgbext_buf, set, inflight, air, lit>>
wifiVars == <<scanning, aps, link, dhcp, events, owed, answer, online, crossed, stopped>>
vars     == <<service, pwmVars, rgbVars, wifiVars, call>>

TypeOK ==
  /\ service \in {"pwm", "rgbext", "wifi", "bag"}
  /\ Pwm!TypeOK /\ Rgb!TypeOK /\ Wifi!TypeOK /\ Bag!TypeOK

Init ==
  /\ service \in {"pwm", "rgbext", "wifi", "bag"}
  /\ Pwm!Init /\ Rgb!Init /\ Wifi!Init /\ Bag!Init

Next ==
  \/ service = "pwm"    /\ Pwm!Next  /\ UNCHANGED <<service, rgbVars, wifiVars, call>>
  \/ service = "rgbext" /\ Rgb!Next  /\ UNCHANGED <<service, pwmVars, wifiVars, call>>
  \/ service = "wifi"   /\ Wifi!Next /\ UNCHANGED <<service, pwmVars, rgbVars, call>>
  \/ service = "bag"    /\ Bag!Next  /\ UNCHANGED <<service, pwmVars, rgbVars, wifiVars>>

Spec == Init /\ [][Next]_vars /\ Wifi!Fairness

-----------------------------------------------------------------------------
\* See Pwm: the signals are those asked for (led.c:49-130).
SignalRight == Pwm!SignalRight

\* See RgbExt: the colour last asked for is shown in the end (ledstrip.c:53-60).
ColourShown == Rgb!ColourShown

\* See PropertyBag: the first pair with the key is found (utils.c:6-25).
FindsFirst == Bag!FindsFirst

\* See Wifi: scans are answered, and a loss is told (wifi_impl.c:37-105).
TellsClient == Wifi!TellsClient
=============================================================================
