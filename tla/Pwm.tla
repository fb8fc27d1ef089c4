-------------------------------- MODULE Pwm --------------------------------
(***************************************************************************)
(* The PWM outputs of main/led.c.  A pin gets one of the LEDC's timers and *)
(* the channel of the same number.  The driver looks for the finest        *)
(* resolution whose clock divider, a fixed-point number with 8 fractional  *)
(* bits, is at least 1.  Everything is computed in words of WordBits bits. *)
(* The client calls from the main task only, so a call is one step.        *)
(***************************************************************************)
EXTENDS Integers, FiniteSets

CONSTANTS
  Pins,
  Requests,     (* the period and prescaler of each PWM the client sets up  *)
  Duties,
  WordBits,     (* 32 in the code                                           *)
  TimerMax,     (* LEDC_TIMER_MAX                                           *)
  BitMax,       (* LEDC_TIMER_BIT_MAX                                       *)
  DivMax        (* LEDC_TIMER_DIV_NUM_MAX                                   *)

PwmConstantsOK ==
  /\ Requests \subseteq [period : Nat \ {0}, prescaler : Nat]
  /\ Duties \subseteq Nat
  /\ WordBits \in Nat /\ TimerMax \in Nat \ {0} /\ BitMax \in Nat /\ DivMax \in Nat
  /\ "none" \notin Pins

VARIABLES
  timers,   (* timers[t]: the pin, the resolution and the client's period   *)
  hw,       (* the LEDC: each timer's div and bits, its channel's duty      *)
  matrix,   (* the channel each pin is connected to                         *)
  asked,    (* history: the last request and duty of each pin               *)
  failed    (* what stopped the firmware                                    *)

vars == <<timers, hw, matrix, asked, failed>>

Timers == 0..(TimerMax - 1)
None   == [period |-> 0, prescaler |-> 0, duty |-> 0]

TypeOK ==
  /\ timers \in [Timers -> [pin : Pins \union {"none"}, bits : 0..(BitMax - 1), period : Nat]]
  /\ hw \in [Timers -> [div : 0..DivMax, bits : 0..(BitMax - 1), duty : Nat]]
  /\ \A t \in Timers : hw[t].duty < 2^hw[t].bits
  /\ matrix \in [Pins -> Timers \union {-1}]
  /\ asked \in [Pins -> [period : Nat, prescaler : Nat, duty : Nat]]
  /\ failed \in {"none", "too fast", "out of timers", "null"}

Init ==
  /\ timers = [t \in Timers |-> [pin |-> "none", bits |-> 0, period |-> 0]]
  /\ hw = [t \in Timers |-> [div |-> 0, bits |-> 0, duty |-> 0]]
  /\ matrix = [p \in Pins |-> -1]
  /\ asked = [p \in Pins |-> None]
  /\ failed = "none"

-----------------------------------------------------------------------------
Word(n) == n % 2^WordBits

Div(r, bits) == Word(Word(r.period * r.prescaler) * 256) \div 2^bits

\* The resolutions the loop of jd_pwm_init does not skip; it takes the first.
Usable(r) == {b \in 4..(BitMax - 1) : Div(r, b) >= 256}
Bits(r)   == CHOOSE b \in Usable(r) : \A c \in Usable(r) : c <= b

\* Faulty variant: the pin's own timer is not looked for.
TimerFor_Fresh(pin) ==
  {t \in Timers : timers[t].pin = "none" /\ \A u \in 0..(t - 1) : timers[u].pin # "none"}

TimerFor(pin) ==
  LET own  == {t \in Timers : timers[t].pin = pin}
      free == {t \in Timers : timers[t].pin = "none" /\ \A u \in 0..(t - 1) : timers[u].pin # "none"}
  IN  IF own # {} THEN own ELSE free

\* Faulty variant: the duty is not limited to what the channel takes.
DutyPart_NoLimit(bits, period, duty) == Word(2^bits * duty) \div period

DutyPart(bits, period, duty) ==
  LET part == Word(2^bits * duty) \div period
  IN  IF part >= 2^bits THEN 2^bits - 1 ELSE part

\* The timer gets its divider and resolution, then its channel the duty.
apply_config(t, div, bits, duty) ==
  hw' = [hw EXCEPT ![t] = [div |-> div, bits |-> bits, duty |-> duty]]

jd_pwm_init(pin, r, duty) ==
  /\ failed = "none"
  /\ failed' =
       IF Usable(r) = {} THEN "null"
       ELSE IF Div(r, Bits(r)) > DivMax THEN "too fast"
       ELSE IF TimerFor(pin) = {} THEN "out of timers"
       ELSE "none"
  /\ IF failed' # "none" THEN UNCHANGED <<timers, hw, matrix, asked>>
     ELSE LET t == CHOOSE u \in TimerFor(pin) : TRUE
              b == Bits(r)
          IN  /\ timers' = [timers EXCEPT ![t] = [pin |-> pin, bits |-> b, period |-> r.period]]
              /\ apply_config(t, Div(r, b), b, DutyPart(b, r.period, duty))
              /\ matrix' = [matrix EXCEPT ![pin] = t]
              /\ asked' = [asked EXCEPT ![pin] =
                   [period |-> r.period, prescaler |-> r.prescaler, duty |-> duty]]

\* The client has the pwm_id of a pin it has set up: the timer's number plus 1.
jd_pwm_set_duty(t, duty) ==
  /\ failed = "none" /\ timers[t].pin # "none"
  /\ hw' = [hw EXCEPT ![t].duty = DutyPart(timers[t].bits, timers[t].period, duty)]
  /\ asked' = [asked EXCEPT ![timers[t].pin].duty = duty]
  /\ UNCHANGED <<timers, matrix, failed>>

\* pin_setup_output takes the pin from the channel first.
jd_pwm_enable(t, enabled) ==
  /\ failed = "none" /\ timers[t].pin # "none"
  /\ matrix' = [matrix EXCEPT ![timers[t].pin] = IF enabled THEN t ELSE -1]
  /\ UNCHANGED <<timers, hw, asked, failed>>

Next ==
  \/ \E p \in Pins, r \in Requests, d \in Duties : jd_pwm_init(p, r, d)
  \/ \E t \in Timers, d \in Duties : jd_pwm_set_duty(t, d)
  \/ \E t \in Timers, e \in BOOLEAN : jd_pwm_enable(t, e)

Spec == Init /\ [][Next]_vars

-----------------------------------------------------------------------------
Connected(p) == matrix[p] # -1

\* The period of the signal is the one asked for, within the precision of the
\* divider, and no finer resolution was possible.
PeriodRight(p) ==
  LET ch     == hw[matrix[p]]
      cycles == asked[p].period * asked[p].prescaler
  IN  /\ ch.div * 2^ch.bits <= cycles * 256
      /\ cycles * 256 < (ch.div + 1) * 2^ch.bits
      /\ ch.bits = BitMax - 1 \/ cycles < 2^(ch.bits + 1)

\* The share of the period for which it is high is the one asked for, up to one
\* step of the resolution; above the period it is as high as it gets.
DutyRight(p) ==
  LET ch   == hw[matrix[p]]
      high == ch.duty * asked[p].period
      want == asked[p].duty * 2^ch.bits
  IN  IF asked[p].duty >= asked[p].period
      THEN ch.duty = 2^ch.bits - 1
      ELSE high <= want /\ want < high + asked[p].period

\* The signal on a connected pin is the one last asked for on that pin, whatever
\* the other pins have been set to (led.c:49-130).
SignalRight == \A p \in Pins : Connected(p) => PeriodRight(p) /\ DutyRight(p)
=============================================================================
