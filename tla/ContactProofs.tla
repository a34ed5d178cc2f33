---------------------------- MODULE ContactProofs ----------------------------
(***************************************************************************)
(* The two contacts that start a task: the start button, for any settings  *)
(* of its times and any time between two ticks, and the leak switch, for   *)
(* any debouncing that outlasts the passes' unevenness.                    *)
(***************************************************************************)
EXTENDS OneButton, LeakWatch, TLAPS

-----------------------------------------------------------------------------
(* The time at which ages stop is one.                                     *)
LEMMA NeverIsAnAge == Never \in Nat
<1>1. PICK m \in {_debounceTicks, _clickTicks, _pressTicks} :
          \A y \in {_debounceTicks, _clickTicks, _pressTicks} : m >= y
  BY OneButtonAssumption
<1>2. Max({_debounceTicks, _clickTicks, _pressTicks}) \in {_debounceTicks, _clickTicks, _pressTicks}
  BY <1>1 DEF Max
<1>. QED
  BY <1>2, OneButtonAssumption DEF Never

(* An age stops at Never.                                                  *)
LEMMA AgesStop ==
    ASSUME NEW age \in Nat, NEW d \in Nat
    PROVE  Ages(age, d) = IF age + d <= Never THEN age + d ELSE Never
<1>1. age + d \in Nat /\ Never \in Nat
  BY NeverIsAnAge
<1>2. PICK m \in {age + d, Never} : \A y \in {age + d, Never} : m =< y
  BY <1>1
<1>3. /\ Min({age + d, Never}) \in {age + d, Never}
      /\ \A y \in {age + d, Never} : Min({age + d, Never}) =< y
  BY <1>2 DEF Min
<1>. QED
  BY <1>1, <1>3 DEF Ages

(* An age that was not behind another stays so.                            *)
LEMMA AgesKeepOrder ==
    ASSUME NEW a \in Nat, NEW b \in Nat, NEW d \in 1 .. MaxTick, a <= b
    PROVE  /\ Ages(a, d) \in Nat /\ Ages(b, d) \in Nat
           /\ Ages(a, d) <= Ages(b, d)
<1>1. d \in Nat
  BY OneButtonAssumption
<1>. QED
  BY <1>1, AgesStop, NeverIsAnAge

-----------------------------------------------------------------------------
Buttons ==
    [state : {0, 1, 2, 3, 6}, start : Nat, stop : Nat, long : BOOLEAN, double : BOOLEAN]

ButtonTypeOK == btn \in Buttons /\ held \in Nat /\ fired \in BOOLEAN

(* While the button counts as down, every tick since _startTime has found  *)
(* it down, and only a press that is over has fired.                       *)
DownSince ==
    /\ btn.state = 1 => btn.start <= held
    /\ fired => btn.state = 6

ButtonInv == ButtonTypeOK /\ DownSince

(* Every field that a tick writes leaves a button, in the state it was in. *)
LEMMA Writes ==
    ASSUME NEW b \in Buttons
    PROVE  /\ [b EXCEPT !.start = 0] \in Buttons
           /\ [b EXCEPT !.start = 0].start = 0
           /\ [b EXCEPT !.start = 0].state = b.state
           /\ [b EXCEPT !.stop = 0] \in Buttons
           /\ [b EXCEPT !.stop = 0].state = b.state
  BY DEF Buttons

(* The writes to the members of the button that the cases of tick share.   *)
LEMMA WritesLong ==
    ASSUME NEW b \in Buttons, NEW l \in BOOLEAN
    PROVE  /\ [b EXCEPT !.long = l] \in Buttons
           /\ [b EXCEPT !.long = l].state = b.state
           /\ [b EXCEPT !.long = l, !.stop = 0] \in Buttons
           /\ [b EXCEPT !.long = l, !.stop = 0].state = b.state
<1>. DEFINE c == [b EXCEPT !.long = l]
<1>1. c \in Buttons /\ c.state = b.state
  BY DEF Buttons
<1>2. [b EXCEPT !.long = l, !.stop = 0] = [c EXCEPT !.stop = 0]
  BY DEF Buttons
<1>. HIDE DEF c
<1>3. [c EXCEPT !.stop = 0] \in Buttons /\ [c EXCEPT !.stop = 0].state = c.state
  BY <1>1, Writes
<1>. QED
  BY <1>1, <1>2, <1>3 DEF c

(* A change of _state keeps the rest of the button.                        *)
LEMMA GoesTo ==
    ASSUME ButtonTypeOK, NEW s \in {0, 1, 2, 3, 6}
    PROVE  Goes(s) \in Buttons /\ Goes(s).state = s
  BY DEF ButtonTypeOK, Goes, Buttons

(* What a tick makes of the button, before time passes.                    *)
Tells(active, to) ==
    /\ to[1] \in Buttons
    /\ to[1].state = 1 => active /\ (to[1].start = 0 \/ to[1] = btn)
    /\ btn.state = 6 /\ active => to[1].state = 6
    /\ to[2] = "longPressStart" =>
          active /\ btn.state = 1 /\ btn.start > _pressTicks /\ to[1].state = 6

(* Every case of tick is one of those that Tells describes.                *)
LEMMA AfterTells ==
    ASSUME ButtonTypeOK, NEW active \in BOOLEAN
    PROVE  Tells(active, After(active))
<1>. btn \in Buttons /\ btn.state \in {0, 1, 2, 3, 6} /\ btn.double \in BOOLEAN
  BY DEF ButtonTypeOK, Buttons
<1>1. CASE btn.state = 0
  <2>. DEFINE pressed == [Goes(1) EXCEPT !.start = 0]
  <2>1. pressed \in Buttons /\ pressed.start = 0
    BY GoesTo, Writes
  <2>2. After(active) = IF active THEN <<pressed, "none">> ELSE <<btn, "none">>
    BY <1>1 DEF After, Idle
  <2>. HIDE DEF pressed
  <2>. QED
    BY <1>1, <2>1, <2>2 DEF Tells
<1>2. CASE btn.state = 1
  <2>. DEFINE released == [Goes(2) EXCEPT !.stop = 0]
              long == [Goes(6) EXCEPT !.long = TRUE, !.stop = 0]
  <2>1. /\ released \in Buttons /\ released.state = 2
        /\ long \in Buttons /\ long.state = 6
        /\ Goes(0) \in Buttons /\ Goes(0).state = 0
    BY GoesTo, Writes, WritesLong
  <2>2. After(active) = Down(active)
    BY <1>2 DEF After
  <2>3. \/ After(active) \in {<<Goes(0), "none">>, <<released, "none">>}
        \/ active /\ btn.start > _pressTicks /\ After(active) = <<long, "longPressStart">>
        \/ active /\ After(active) = <<btn, "none">>
    <3>1. CASE ~active
      BY <2>2, <3>1, OneButtonAssumption DEF Down, ButtonTypeOK, Buttons
    <3>2. CASE active /\ btn.start > _pressTicks
      BY <2>2, <3>2 DEF Down
    <3>3. CASE active /\ ~(btn.start > _pressTicks)
      BY <2>2, <3>3 DEF Down
    <3>. QED
      BY <3>1, <3>2, <3>3
  <2>. HIDE DEF released, long
  <2>. QED
    BY <1>2, <2>1, <2>3 DEF Tells
<1>3. CASE btn.state = 2
  <2>. DEFINE pressed == [Goes(3) EXCEPT !.start = 0]
  <2>1. /\ pressed \in Buttons /\ pressed.state = 3
        /\ Goes(0) \in Buttons /\ Goes(0).state = 0
    BY GoesTo, Writes
  <2>2. After(active) = Released(active)
    BY <1>3 DEF After
  <2>3. After(active) \in {<<Goes(0), "click">>, <<pressed, "none">>, <<btn, "none">>}
    BY <2>2 DEF Released
  <2>. HIDE DEF pressed
  <2>. QED
    BY <1>3, <2>1, <2>3 DEF Tells
<1>4. CASE btn.state = 3
  <2>. DEFINE released == [Goes(0) EXCEPT !.stop = 0]
  <2>1. released \in Buttons /\ released.state = 0
    BY GoesTo, Writes
  <2>2. After(active) \in {<<released, "doubleClick">>, <<btn, "none">>}
    BY <1>4 DEF After, DownAgain
  <2>. HIDE DEF released
  <2>. QED
    BY <1>4, <2>1, <2>2 DEF Tells
<1>5. CASE btn.state = 6
  <2>. DEFINE during == [btn EXCEPT !.long = TRUE]
              released == [Goes(0) EXCEPT !.long = FALSE, !.stop = 0]
  <2>1. /\ during \in Buttons /\ during.state = 6
        /\ released \in Buttons /\ released.state = 0
    BY <1>5, GoesTo, WritesLong
  <2>2. After(active) = IF active THEN <<during, "duringLongPress">>
                        ELSE <<released, "longPressStop">>
    BY <1>5 DEF After, LongPressed
  <2>. HIDE DEF during, released
  <2>. QED
    BY <1>5, <2>1, <2>2 DEF Tells
<1>. QED
  BY <1>1, <1>2, <1>3, <1>4, <1>5

(* A tick keeps the invariant, and starts the task only when it may.       *)
LEMMA TickStep ==
    ASSUME ButtonInv, NEW active \in BOOLEAN, NEW d \in 1 .. MaxTick, tick(active, d)
    PROVE  /\ ButtonInv'
           /\ event' = "longPressStart" => ~fired /\ held > _pressTicks
<1>. DEFINE b == After(active)[1]
<1>1. ButtonTypeOK /\ Tells(active, After(active))
  BY AfterTells DEF ButtonInv
<1>2. b \in Buttons
  BY <1>1 DEF Tells
<1>3. btn' = [b EXCEPT !.start = Ages(b.start, d), !.stop = Ages(b.stop, d)]
  BY DEF tick
<1>. HIDE DEF b
<1>4. /\ b.start \in Nat /\ b.stop \in Nat /\ held \in Nat
      /\ Ages(b.start, d) \in Nat /\ Ages(b.stop, d) \in Nat /\ Ages(held, d) \in Nat
      /\ b.start <= held => Ages(b.start, d) <= Ages(held, d)
  BY <1>1, <1>2, AgesKeepOrder DEF Buttons, ButtonTypeOK
<1>5. btn' \in Buttons /\ btn'.state = b.state /\ btn'.start = Ages(b.start, d)
  <2>. DEFINE c == [b EXCEPT !.start = Ages(b.start, d)]
  <2>1. c \in Buttons /\ c.state = b.state /\ c.start = Ages(b.start, d)
    BY <1>2, <1>4 DEF Buttons
  <2>2. btn' = [c EXCEPT !.stop = Ages(b.stop, d)]
    BY <1>2, <1>3 DEF Buttons
  <2>. HIDE DEF c
  <2>. QED
    BY <2>1, <2>2, <1>4 DEF Buttons
<1>6. /\ held' = IF active THEN Ages(held, d) ELSE 0
      /\ fired' = (active /\ (fired \/ event' = "longPressStart"))
      /\ event' = After(active)[2]
  BY DEF tick
<1>7. ButtonTypeOK'
  BY <1>4, <1>5, <1>6 DEF ButtonTypeOK
<1>8. btn'.state = 1 => btn'.start <= held'
  <2>1. SUFFICES ASSUME b.state = 1 PROVE Ages(b.start, d) <= held'
    BY <1>5
  <2>2. active /\ (b.start = 0 \/ b = btn)
    BY <2>1, <1>1 DEF Tells, b
  <2>3. b.start <= held
    BY <2>1, <2>2, <1>4 DEF ButtonInv, DownSince
  <2>. QED
    BY <2>2, <2>3, <1>4, <1>6
<1>9. fired' => btn'.state = 6
  BY <1>1, <1>5, <1>6 DEF Tells, b, ButtonInv, DownSince
<1>10. event' = "longPressStart" => ~fired /\ held > _pressTicks
  BY <1>1, <1>6, OneButtonAssumption DEF Tells, ButtonInv, DownSince, ButtonTypeOK, Buttons
<1>. QED
  BY <1>7, <1>8, <1>9, <1>10 DEF ButtonInv, DownSince

(* A press starts FILLITK once, and only if it was held for longer than    *)
(* _pressTicks, whatever the button does before, between two ticks         *)
(* and after: bounces and presses do not add up.                           *)
THEOREM OneStartPerPressAlways == ButtonSpec => OneStartPerPress
<1>1. ButtonInit => ButtonInv
  <2>1. SUFFICES ASSUME ButtonInit PROVE ButtonInv
    OBVIOUS
  <2>2. PICK d \in BOOLEAN : btn = [state |-> 0, start |-> Never, stop |-> Never,
                                  long |-> FALSE, double |-> d]
    BY <2>1 DEF ButtonInit
  <2>3. btn \in Buttons /\ btn.state = 0
    BY <2>2, NeverIsAnAge DEF Buttons
  <2>4. held = 0 /\ fired = FALSE
    BY <2>1 DEF ButtonInit
  <2>5. ButtonTypeOK
    BY <2>3, <2>4 DEF ButtonTypeOK
  <2>6. DownSince
    BY <2>3, <2>4 DEF DownSince
  <2>. QED
    BY <2>5, <2>6 DEF ButtonInv
<1>2. ButtonInv /\ [ButtonNext]_buttonVars =>
         ButtonInv' /\ [event' = "longPressStart" => ~fired /\ held > _pressTicks]_buttonVars
  <2>1. SUFFICES ASSUME ButtonInv, [ButtonNext]_buttonVars
                 PROVE  /\ ButtonInv'
                        /\ [event' = "longPressStart" => ~fired /\ held > _pressTicks]_buttonVars
    OBVIOUS
  <2>2. CASE ButtonNext
    BY <2>1, <2>2, TickStep DEF ButtonNext
  <2>3. CASE UNCHANGED buttonVars
    BY <2>1, <2>3 DEF buttonVars, ButtonInv, ButtonTypeOK, DownSince
  <2>. QED
    BY <2>1, <2>2, <2>3
<1>. QED
  BY <1>1, <1>2, PTL DEF ButtonSpec, OneStartPerPress

-----------------------------------------------------------------------------
(* The leak switch.  What poll and the time that passes do to its level    *)
(* and to the age of its last change, which stops at MaxAge.               *)
Switches ==
    [level : {0, 1}, switched : BOOLEAN, longPress : BOOLEAN, longPressLatch : BOOLEAN,
     doubleClick : BOOLEAN, sinceSwitched : Nat, sincePushed : Nat]

(* The delays are below MaxAge.                                            *)
LEMMA DelaysAreAges == MaxAge \in Nat /\ debounceDelay \in Nat /\ debounceDelay < MaxAge
<1>1. PICK m \in {debounceDelay, longPressDelay, doubleClickDelay} :
          \A y \in {debounceDelay, longPressDelay, doubleClickDelay} : m >= y
  BY SwitchAssumption
<1>2. /\ Max({debounceDelay, longPressDelay, doubleClickDelay})
            \in {debounceDelay, longPressDelay, doubleClickDelay}
      /\ Max({debounceDelay, longPressDelay, doubleClickDelay}) >= debounceDelay
  BY <1>1 DEF Max
<1>. QED
  BY <1>2, SwitchAssumption DEF MaxAge

(* The lesser of two numbers.                                              *)
LEMMA MinOfTwo ==
    ASSUME NEW a \in Nat, NEW b \in Nat
    PROVE  Min({a, b}) = IF a <= b THEN a ELSE b
<1>1. PICK m \in {a, b} : \A y \in {a, b} : m =< y
  OBVIOUS
<1>2. Min({a, b}) \in {a, b} /\ \A y \in {a, b} : Min({a, b}) =< y
  BY <1>1 DEF Min
<1>. QED
  BY <1>2

(* Time that passes leaves the level of a switch alone.                    *)
LEMMA PassesFacts ==
    ASSUME NEW s \in Switches, NEW d \in Nat
    PROVE  /\ Passes(s, d) \in Switches /\ Passes(s, d).level = s.level
           /\ Passes(s, d).sinceSwitched =
                 IF s.sinceSwitched + d <= MaxAge THEN s.sinceSwitched + d ELSE MaxAge
<1>1. s.sinceSwitched + d \in Nat /\ s.sincePushed + d \in Nat /\ MaxAge \in Nat
  BY DelaysAreAges DEF Switches
<1>2. /\ Older(s.sinceSwitched, d) \in Nat /\ Older(s.sincePushed, d) \in Nat
      /\ Older(s.sinceSwitched, d) =
            IF s.sinceSwitched + d <= MaxAge THEN s.sinceSwitched + d ELSE MaxAge
  BY <1>1, MinOfTwo DEF Older
<1>. QED
  BY <1>2 DEF Passes, Switches

(* A poll changes the level only when it accepts a new one, and the age of *)
(* the last change with it.                                                *)
LEMMA PollFacts ==
    ASSUME NEW s \in Switches, NEW n \in {0, 1}
    PROVE  /\ poll(s, n) \in Switches
           /\ poll(s, n).level = IF Accepts(s, n) THEN n ELSE s.level
           /\ poll(s, n).sinceSwitched = IF Accepts(s, n) THEN 0 ELSE s.sinceSwitched
<1>1. Accepts(s, n) \in BOOLEAN /\ on(s) \in BOOLEAN
  BY DEF Accepts, on
<1>. QED
  BY <1>1, ZenonT(60) DEF poll, Switches

(* While LEAKHANDLER runs and no poll has found the sensor wet, a switch   *)
(* that is on has been so since before LEAKHANDLER began, and the last     *)
(* poll came too early for it to let go.                                   *)
LeakTypeOK ==
    /\ sw \in Switches
    /\ leakTask \in {"STOPPED", "STARTING", "RUNNING", "STOPPING"}
    /\ bounceAge \in Nat /\ leakError \in BOOLEAN /\ wet \in BOOLEAN /\ sincePoll \in Nat
    /\ watch.seen \in BOOLEAN /\ watch.lag \in Nat

HeldOn ==
    leakTask = "RUNNING" /\ ~watch.seen /\ on(sw)
       /\ bounceAge < leakHandler_DEBOUNCETIME + Window =>
          /\ sw.sinceSwitched >= watch.lag + bounceAge \/ sw.sinceSwitched >= MaxAge
          /\ watch.lag + bounceAge < sincePoll + debounceDelay

LeakInv == LeakTypeOK /\ HeldOn

(* A pass keeps the invariant.                                             *)
LEMMA LeakPassInv ==
    ASSUME LeakInv, NEW e \in 0 .. MaxPass, NEW d \in 0 .. MaxPass, LeakPass(e, d)
    PROVE  LeakInv'
<1>. DEFINE s == Passes(sw, e)
            n == IF wet THEN 0 ELSE 1
            p == poll(s, n)
            cap == leakHandler_DEBOUNCETIME + Window
            stopped == leakTask \in {"STOPPED", "STOPPING"} \/ (Looks /\ ~on(sw))
            age == IF Looks /\ on(sw) THEN cap ELSE AgeAtRun
            w == WatchAfter(e, d)
<1>1. /\ e \in Nat /\ d \in Nat /\ MaxPass \in Nat
      /\ leakHandler_DEBOUNCETIME \in Nat /\ Window \in Nat /\ cap \in Nat
      /\ MaxAge \in Nat /\ debounceDelay \in Nat /\ debounceDelay < MaxAge
  BY SwitchAssumption, LeakWatchAssumption, DelaysAreAges
<1>2. /\ sw \in Switches /\ bounceAge \in Nat /\ sw.sinceSwitched \in Nat
      /\ sw.level \in {0, 1} /\ watch.lag \in Nat /\ watch.seen \in BOOLEAN
  BY DEF LeakInv, LeakTypeOK, Switches
<1>3. /\ s \in Switches /\ s.level = sw.level
      /\ s.sinceSwitched =
            IF sw.sinceSwitched + e <= MaxAge THEN sw.sinceSwitched + e ELSE MaxAge
  BY <1>1, <1>2, PassesFacts
<1>4. /\ p \in Switches /\ p.level = IF Accepts(s, n) THEN n ELSE s.level
      /\ p.sinceSwitched = IF Accepts(s, n) THEN 0 ELSE s.sinceSwitched
  BY <1>3, PollFacts
<1>5. /\ sw' \in Switches /\ sw'.level = p.level
      /\ sw'.sinceSwitched =
            IF p.sinceSwitched + d <= MaxAge THEN p.sinceSwitched + d ELSE MaxAge
  BY <1>1, <1>4, PassesFacts DEF LeakPass
<1>6. /\ leakTask' = IF ~stopped THEN "RUNNING" ELSE IF on(sw) THEN "STARTING" ELSE "STOPPED"
      /\ leakError' = CASE leakTask = "STOPPING" \/ (Looks /\ ~on(sw)) -> FALSE
                        [] Looks /\ on(sw) -> TRUE
                        [] OTHER -> leakError
      /\ watch' = (IF leakTask' = "RUNNING" THEN w ELSE NewWatch)
      /\ wet' = wet /\ sincePoll' = d
      /\ bounceAge' = Min({age + e + d, cap})
  BY DEF LeakPass
<1>7. /\ AgeAtRun \in Nat /\ age \in Nat /\ bounceAge' \in Nat
      /\ bounceAge' = IF age + e + d <= cap THEN age + e + d ELSE cap
  <2>1. AgeAtRun \in Nat /\ age \in Nat
    BY <1>1, <1>2 DEF AgeAtRun
  <2>2. age + e + d \in Nat
    BY <2>1, <1>1
  <2>. HIDE DEF age, cap
  <2>. QED
    BY <2>1, <2>2, <1>1, <1>6, MinOfTwo
<1>8. /\ w.seen = (watch.seen \/ wet)
      /\ w.lag = IF leakTask = "STARTING" THEN sw.sinceSwitched ELSE watch.lag
  BY DEF WatchAfter
<1>9. NewWatch.seen = FALSE /\ NewWatch.lag = 0
  BY DEF NewWatch
<1>. HIDE DEF s, p, n, stopped, age, w
<1>10. LeakTypeOK'
  <2>1. leakTask' \in {"STOPPED", "STARTING", "RUNNING", "STOPPING"}
    BY <1>6
  <2>2. leakError' \in BOOLEAN
    BY <1>6 DEF LeakInv, LeakTypeOK
  <2>3. watch'.seen \in BOOLEAN
    BY <1>2, <1>6, <1>8, <1>9 DEF LeakInv, LeakTypeOK
  <2>4. watch'.lag \in Nat
    BY <1>2, <1>6, <1>8, <1>9
  <2>5. wet' \in BOOLEAN /\ sincePoll' \in Nat
    BY <1>1, <1>6 DEF LeakInv, LeakTypeOK
  <2>. QED
    BY <2>1, <2>2, <2>3, <2>4, <2>5, <1>5, <1>7 DEF LeakTypeOK
<1>11. ASSUME leakTask' = "RUNNING", ~watch'.seen, on(sw'), bounceAge' < cap
       PROVE  /\ sw'.sinceSwitched >= watch'.lag + bounceAge' \/ sw'.sinceSwitched >= MaxAge
              /\ watch'.lag + bounceAge' < sincePoll' + debounceDelay
  <2>1. ~stopped /\ watch' = w
    BY <1>6, <1>11
  <2>2. ~watch.seen /\ n = 1
    BY <2>1, <1>8, <1>11 DEF n
  \* The switch was on before, and the poll came too early.
  <2>3. on(sw) /\ s.sinceSwitched < debounceDelay /\ p.sinceSwitched = s.sinceSwitched
    <3>1. p.level = 0
      BY <1>5, <1>11 DEF on
    <3>2. s.sinceSwitched \in Nat
      BY <1>3 DEF Switches
    <3>. QED
      BY <3>1, <3>2, <2>2, <1>1, <1>2, <1>3, <1>4 DEF Accepts, on
  <2>4. s.sinceSwitched = sw.sinceSwitched + e /\ ~(sw.sinceSwitched >= MaxAge)
    BY <2>3, <1>1, <1>2, <1>3
  <2>5. age = AgeAtRun /\ bounceAge' = AgeAtRun + e + d
    <3>1. age + e + d < cap \/ bounceAge' = cap
      BY <1>1, <1>7
    <3>2. bounceAge' = age + e + d /\ age < cap
      BY <3>1, <1>1, <1>7, <1>11
    <3>3. age = IF Looks /\ on(sw) THEN cap ELSE AgeAtRun
      BY DEF age
    <3>. HIDE DEF cap
    <3>4. age # cap
      BY <3>2, <1>1, <1>7
    <3>. QED
      BY <3>2, <3>3, <3>4
  <2>6. leakTask \in {"STARTING", "RUNNING"}
    BY <2>1 DEF stopped, LeakInv, LeakTypeOK
  <2>7. sw.sinceSwitched >= w.lag + AgeAtRun
    <3>1. CASE leakTask = "STARTING"
      BY <3>1, <1>2, <1>8 DEF AgeAtRun
    <3>2. CASE leakTask = "RUNNING"
      <4>1. AgeAtRun = bounceAge /\ w.lag = watch.lag /\ bounceAge < cap
        BY <3>2, <2>5, <1>1, <1>2, <1>7, <1>8, <1>11 DEF AgeAtRun
      <4>. QED
        BY <4>1, <3>2, <2>2, <2>3, <2>4 DEF LeakInv, HeldOn
    <3>. QED
      BY <2>6, <3>1, <3>2
  <2>8. w.lag \in Nat
    BY <1>2, <1>8
  <2>. QED
    BY <2>1, <2>3, <2>4, <2>5, <2>7, <2>8, <1>1, <1>2, <1>5, <1>6, <1>7
<1>. QED
  BY <1>10, <1>11 DEF LeakInv, HeldOn

(* LEAKHANDLER raises LEAK in its window only.  If no poll has found the   *)
(* sensor wet, the last one was too long ago.                              *)
LEMMA LeakNeedsSight ==
    ASSUME LeakInv, NEW e \in 0 .. MaxPass, NEW d \in 0 .. MaxPass,
           LeakPass(e, d), leakError', ~leakError
    PROVE  \/ watch.seen
           \/ sincePoll + debounceDelay > leakHandler_DEBOUNCETIME + watch.lag
<1>1. Looks /\ on(sw)
  BY DEF LeakPass
<1>2. leakTask = "RUNNING" /\ bounceAge > leakHandler_DEBOUNCETIME
      /\ bounceAge < leakHandler_DEBOUNCETIME + Window
  <2>1. /\ leakTask \in {"STARTING", "RUNNING"}
        /\ AgeAtRun > leakHandler_DEBOUNCETIME
        /\ AgeAtRun < leakHandler_DEBOUNCETIME + Window
    BY <1>1 DEF Looks, InWindow
  <2>2. leakTask # "STARTING"
    BY <2>1, LeakWatchAssumption DEF AgeAtRun
  <2>. QED
    BY <2>1, <2>2 DEF AgeAtRun
<1>3. \/ watch.seen
      \/ watch.lag + bounceAge < sincePoll + debounceDelay
  BY <1>1, <1>2 DEF LeakInv, HeldOn
<1>. QED
  BY <1>2, <1>3, LeakWatchAssumption, SwitchAssumption DEF LeakInv, LeakTypeOK

(* LEAK is raised for water, or after a pass in which the switch had no    *)
(* chance to let go of a splash: for any times of the two debouncings, any *)
(* window and any passes.                                                  *)
THEOREM LeakAlwaysNeedsWater == LeakSpec => LeakNeedsWater
<1>1. LeakInit => LeakInv
  <2>1. SUFFICES ASSUME LeakInit PROVE LeakInv
    OBVIOUS
  <2>2. sw \in Switches
    BY <2>1 DEF LeakInit, NewSwitch, Switches
  <2>3. bounceAge \in Nat
    BY <2>1, LeakWatchAssumption DEF LeakInit
  <2>. QED
    BY <2>1, <2>2, <2>3 DEF LeakInit, LeakInv, LeakTypeOK, HeldOn, NewWatch
<1>2. LeakInv /\ [LeakNext]_leakVars =>
         /\ LeakInv'
         /\ [leakError' /\ ~leakError =>
                \/ watch.seen
                \/ sincePoll + debounceDelay > leakHandler_DEBOUNCETIME + watch.lag]_leakVars
  <2>1. SUFFICES ASSUME LeakInv, [LeakNext]_leakVars
                 PROVE  /\ LeakInv'
                        /\ leakError' /\ ~leakError =>
                              \/ watch.seen
                              \/ sincePoll + debounceDelay
                                    > leakHandler_DEBOUNCETIME + watch.lag
    OBVIOUS
  <2>2. CASE Pass
    <3>1. PICK e, d \in 0 .. MaxPass : e + d \in MinPass .. MaxPass /\ LeakPass(e, d)
      BY <2>2 DEF Pass
    <3>. QED
      BY <3>1, <2>1, LeakPassInv, LeakNeedsSight
  <2>3. CASE ContactChanges
    BY <2>1, <2>3 DEF ContactChanges, LeakInv, LeakTypeOK, HeldOn
  <2>4. CASE Flick
    BY <2>1, <2>4 DEF Flick, LeakInv, LeakTypeOK, HeldOn
  <2>5. CASE UNCHANGED leakVars
    BY <2>1, <2>5 DEF leakVars, LeakInv, LeakTypeOK, HeldOn
  <2>. QED
    BY <2>1, <2>2, <2>3, <2>4, <2>5 DEF LeakNext
<1>. QED
  BY <1>1, <1>2, PTL DEF LeakSpec, LeakNeedsWater

=============================================================================
