----------------------------- MODULE DeviceProofs -----------------------------
(***************************************************************************)
(* Theorems about the devices of the host, for any number of requests,     *)
(* timers, cells of memory, files, connections and characters.             *)
(***************************************************************************)
EXTENDS MCHostDevices, SequenceFacts, FiniteSetTheorems

(* How many elements a set has, as the modules of the devices count them.  *)
LEMMA Counts ==
  ASSUME NEW S
  PROVE  /\ Timer!Cardinality(S) = Cardinality(S)
         /\ Tcp!Cardinality(S) = Cardinality(S)
         /\ Fs!Cardinality(S) = Cardinality(S)
BY DEF Timer!Cardinality, Tcp!Cardinality, Fs!Cardinality, Cardinality

-----------------------------------------------------------------------------
(***************************************************************************)
(* The timer device: a timer waits in one cell, or has ended once.  What a *)
(* handle names may be the cell of another timer by now.                   *)
(***************************************************************************)
WaitsIn(t) == {c \in Cells : dev.timer_map[c] = t}
Ends(t) == dev.fired[t] + dev.stopped[t]
TimerInv ==
  /\ Timer!TypeOK
  /\ dev.stubs = {c \in Cells : dev.timer_map[c] # 0}
  /\ \A c, d \in Cells : dev.timer_map[c] = dev.timer_map[d] /\ dev.timer_map[c] # 0 => c = d
  /\ \A t \in Timers :
       /\ t \in dev.started => Ends(t) = IF WaitsIn(t) = {} THEN 1 ELSE 0
       /\ t \notin dev.started => dev.fired[t] = 0 /\ dev.stopped[t] = 0 /\ WaitsIn(t) = {}

(* No timer was started yet.                                               *)
LEMMA TimerInit == Timer!Init => TimerInv
<1> SUFFICES ASSUME Timer!Init PROVE TimerInv
  OBVIOUS
<1>1. Timer!TypeOK
  BY DEF Timer!Init, Timer!TypeOK
<1> QED BY <1>1, HostDevicesAssumption DEF Timer!Init, TimerInv, WaitsIn, Ends

(* A timer takes a free cell.                                              *)
LEMMA TimerStart ==
  ASSUME TimerInv, NEW t \in Timers, NEW c \in Cells, Timer!Start(t, c)
  PROVE  TimerInv'
<1>1. t \notin dev.started /\ dev.timer_map[c] = 0 /\ t # 0 /\ Timer!TypeOK
  BY HostDevicesAssumption DEF TimerInv, Timer!Start
<1>2. /\ dev'.started = dev.started \cup {t} /\ dev'.stubs = dev.stubs \cup {c}
      /\ dev'.timer_map = [dev.timer_map EXCEPT ![c] = t]
      /\ dev'.fired = dev.fired /\ dev'.stopped = dev.stopped
  BY <1>1 DEF Timer!Start, Timer!TypeOK
<1>3. Timer!TypeOK'
  BY <1>1 DEF Timer!Start, Timer!TypeOK
<1>4. /\ dev.timer_map \in [Cells -> Timers \cup {0}]
      /\ dev.fired \in [Timers -> Nat] /\ dev.stopped \in [Timers -> Nat]
  BY <1>1 DEF Timer!TypeOK
<1>5. \A d \in Cells : dev'.timer_map[d] = IF d = c THEN t ELSE dev.timer_map[d]
  BY <1>2, <1>4
<1>6. \A d \in Cells : dev.timer_map[d] # t
  BY <1>1 DEF TimerInv, WaitsIn
<1>7. WaitsIn(t)' # {} /\ \A s \in Timers : s # t => WaitsIn(s)' = WaitsIn(s)
  <2>1. c \in WaitsIn(t)'
    BY <1>5 DEF WaitsIn
  <2>2. ASSUME NEW s \in Timers, s # t PROVE WaitsIn(s)' = WaitsIn(s)
    BY <1>1, <1>5, <2>2, HostDevicesAssumption DEF WaitsIn
  <2> QED BY <2>1, <2>2
<1>8. \A s \in Timers : Ends(s)' = Ends(s)
  BY <1>2 DEF Ends
<1>9. Ends(t) = 0
  BY <1>1 DEF TimerInv, Ends
<1>10. dev'.stubs = {d \in Cells : dev'.timer_map[d] # 0}
  BY <1>1, <1>2, <1>5 DEF TimerInv
<1>11. \A d, e \in Cells : dev'.timer_map[d] = dev'.timer_map[e] /\ dev'.timer_map[d] # 0 => d = e
  BY <1>5, <1>6 DEF TimerInv
<1>12. ASSUME NEW s \in Timers
       PROVE  /\ s \in dev'.started => Ends(s)' = IF WaitsIn(s)' = {} THEN 1 ELSE 0
              /\ s \notin dev'.started => dev'.fired[s] = 0 /\ dev'.stopped[s] = 0 /\ WaitsIn(s)' = {}
  BY <1>2, <1>7, <1>8, <1>9 DEF TimerInv
<1> QED BY <1>3, <1>10, <1>11, <1>12 DEF TimerInv

(* The timer that waits in a cell ends: it fires, or is stopped.           *)
LEMMA TimerEnds ==
  ASSUME TimerInv, NEW c \in Cells, NEW t \in Timers, dev.timer_map[c] = t, Timer!TypeOK',
         dev'.started = dev.started, dev'.stubs = dev.stubs \ {c},
         dev'.timer_map = [dev.timer_map EXCEPT ![c] = 0],
         \A s \in Timers : /\ s # t => dev'.fired[s] = dev.fired[s] /\ dev'.stopped[s] = dev.stopped[s]
                           /\ Ends(t)' = Ends(t) + 1
  PROVE  TimerInv'
<1>1. dev.timer_map \in [Cells -> Timers \cup {0}] /\ t # 0
  BY HostDevicesAssumption DEF TimerInv, Timer!TypeOK
<1>2. \A d \in Cells : dev'.timer_map[d] = IF d = c THEN 0 ELSE dev.timer_map[d]
  BY <1>1
<1>3. WaitsIn(t)' = {} /\ WaitsIn(t) # {}
  BY <1>1, <1>2 DEF TimerInv, WaitsIn
<1>4. \A s \in Timers : s # t => WaitsIn(s)' = WaitsIn(s)
  BY <1>1, <1>2, HostDevicesAssumption DEF WaitsIn
<1>5. \A s \in Timers : s # t => Ends(s)' = Ends(s)
  BY DEF Ends
<1>6. t \in dev.started /\ Ends(t) = 0
  BY <1>3 DEF TimerInv
<1>7. dev'.stubs = {d \in Cells : dev'.timer_map[d] # 0}
  BY <1>2 DEF TimerInv
<1>8. \A d, e \in Cells : dev'.timer_map[d] = dev'.timer_map[e] /\ dev'.timer_map[d] # 0 => d = e
  BY <1>2 DEF TimerInv
<1>9. ASSUME NEW s \in Timers
      PROVE  /\ s \in dev'.started => Ends(s)' = IF WaitsIn(s)' = {} THEN 1 ELSE 0
             /\ s \notin dev'.started => dev'.fired[s] = 0 /\ dev'.stopped[s] = 0 /\ WaitsIn(s)' = {}
  BY <1>3, <1>4, <1>5, <1>6 DEF TimerInv
<1> QED BY <1>7, <1>8, <1>9 DEF TimerInv

(* Each step keeps the invariant.                                          *)
LEMMA TimerNext ==
  ASSUME TimerInv, Timer!Next
  PROVE  TimerInv'
<1>1. ASSUME NEW t \in Timers, NEW c \in Cells, Timer!Start(t, c) PROVE TimerInv'
  BY <1>1, TimerStart
<1>2. ASSUME NEW c \in Cells, Timer!Fire(c) PROVE TimerInv'
  <2>1. PICK t \in Timers : dev.timer_map[c] = t
    BY <1>2 DEF Timer!Fire, TimerInv, Timer!TypeOK
  <2>2. dev' = [dev EXCEPT !.timer_map[c] = 0, !.stubs = @ \ {c}, !.fired[t] = @ + 1]
    BY <1>2, <2>1 DEF Timer!Fire
  <2>3. Timer!TypeOK
    BY DEF TimerInv
  <2>4. /\ dev'.started = dev.started /\ dev'.stubs = dev.stubs \ {c}
        /\ dev'.timer_map = [dev.timer_map EXCEPT ![c] = 0]
        /\ dev'.fired = [dev.fired EXCEPT ![t] = @ + 1] /\ dev'.stopped = dev.stopped
    BY <2>2, <2>3 DEF Timer!TypeOK
  <2>5. Timer!TypeOK'
    <3>1. /\ [dev.timer_map EXCEPT ![c] = 0] \in [Cells -> Timers \cup {0}]
          /\ [dev.fired EXCEPT ![t] = @ + 1] \in [Timers -> Nat]
      BY <2>3 DEF Timer!TypeOK
    <3> QED BY <2>2, <2>3, <3>1 DEF Timer!TypeOK
  <2>6. dev.fired \in [Timers -> Nat] /\ dev.stopped \in [Timers -> Nat]
    BY <2>3 DEF Timer!TypeOK
  <2>7. Ends(t)' = Ends(t) + 1
    BY <2>4, <2>6 DEF Ends
  <2> QED BY <2>1, <2>4, <2>5, <2>6, <2>7, TimerEnds
<1>3. ASSUME NEW t \in Timers, Timer!Cancel(t) PROVE TimerInv'
  <2>1. Timer!TypeOK
    BY DEF TimerInv
  <2>2. /\ dev'.stubs = dev.stubs /\ dev'.timer_map = dev.timer_map /\ dev'.started = dev.started
        /\ dev'.fired = dev.fired /\ dev'.stopped = dev.stopped
    BY <1>3, <2>1 DEF Timer!Cancel, Timer!TypeOK
  <2>3. Append(dev.queue, t) \in Seq(Timers)
    BY <2>1, AppendProperties DEF Timer!TypeOK
  <2>4. Timer!TypeOK'
    BY <1>3, <2>1, <2>3 DEF Timer!Cancel, Timer!TypeOK
  <2> QED BY <2>2, <2>4 DEF TimerInv, WaitsIn, Ends
<1>4. ASSUME Timer!Stop PROVE TimerInv'
  <2>1. Timer!TypeOK
    BY DEF TimerInv
  <2>2. PICK t \in Timers : t = Head(dev.queue) /\ Tail(dev.queue) \in Seq(Timers)
    BY <1>4, <2>1, HeadTailProperties DEF Timer!Stop, Timer!TypeOK
  <2>3. PICK c \in Cells \cup {0} : c = dev.handle[t]
    BY <2>1 DEF Timer!TypeOK
  <2>4. PICK d : d = [dev EXCEPT !.queue = Tail(@), !.handle[t] = 0]
    OBVIOUS
  <2>5. d \in [stubs : SUBSET Cells, timer_map : [Cells -> Timers \cup {0}],
               handle : [Timers -> Cells \cup {0}], started : SUBSET Timers,
               queue : Seq(Timers), cancelled : SUBSET Timers,
               fired : [Timers -> Nat], stopped : [Timers -> Nat]]
    BY <2>1, <2>2, <2>4 DEF Timer!TypeOK
  <2>6. /\ d.stubs = dev.stubs /\ d.timer_map = dev.timer_map /\ d.started = dev.started
        /\ d.fired = dev.fired /\ d.stopped = dev.stopped
    BY <2>1, <2>4 DEF Timer!TypeOK
  <2>7. dev' = IF c # 0 /\ dev.timer_map[c] # 0
               THEN [d EXCEPT !.stubs = @ \ {c}, !.timer_map[c] = 0, !.stopped[dev.timer_map[c]] = @ + 1]
               ELSE d
    BY <1>4, <2>2, <2>3, <2>4 DEF Timer!Stop
  <2>8. CASE c # 0 /\ dev.timer_map[c] # 0
    <3>1. PICK s \in Timers : dev.timer_map[c] = s
      BY <2>1, <2>8 DEF Timer!TypeOK
    <3>2. dev' = [d EXCEPT !.stubs = @ \ {c}, !.timer_map[c] = 0, !.stopped[s] = @ + 1]
      BY <2>7, <2>8, <3>1
    <3>3. /\ dev'.started = dev.started /\ dev'.stubs = dev.stubs \ {c}
          /\ dev'.timer_map = [dev.timer_map EXCEPT ![c] = 0]
          /\ dev'.stopped = [dev.stopped EXCEPT ![s] = @ + 1] /\ dev'.fired = dev.fired
      BY <2>5, <2>6, <3>2
    <3>4. Timer!TypeOK'
      <4>1. /\ [d.timer_map EXCEPT ![c] = 0] \in [Cells -> Timers \cup {0}]
            /\ [d.stopped EXCEPT ![s] = @ + 1] \in [Timers -> Nat]
        <5>1. d.timer_map \in [Cells -> Timers \cup {0}] /\ d.stopped \in [Timers -> Nat]
          BY <2>5
        <5> QED BY <2>8, <5>1
      <4> QED BY <2>5, <3>2, <4>1 DEF Timer!TypeOK
    <3>5. dev.fired \in [Timers -> Nat] /\ dev.stopped \in [Timers -> Nat]
      BY <2>1 DEF Timer!TypeOK
    <3>6. Ends(s)' = Ends(s) + 1
      BY <3>3, <3>5 DEF Ends
    <3> QED BY <2>8, <3>1, <3>3, <3>4, <3>5, <3>6, TimerEnds
  <2>9. CASE ~ (c # 0 /\ dev.timer_map[c] # 0)
    <3>1. dev' = d
      BY <2>7, <2>9
    <3>2. Timer!TypeOK'
      BY <2>5, <3>1 DEF Timer!TypeOK
    <3> QED BY <2>6, <3>1, <3>2 DEF TimerInv, WaitsIn, Ends
  <2> QED BY <2>8, <2>9
<1> QED BY <1>1, <1>2, <1>3, <1>4 DEF Timer!Next

(***************************************************************************)
(* A timer that was started waits, or has fired, or was stopped, exactly   *)
(* one of these, and the stubs held are those of the timers that wait,     *)
(* however cells are used again and handles grow stale.                    *)
(***************************************************************************)
THEOREM TimersOnce == Spec => []TimerOnce
<1> DEFINE Inv == device = "timer" => TimerInv
<1>1. Init => Inv
  BY TimerInit DEF Init
<1>2. Inv /\ [Next]_vars => Inv'
  <2> SUFFICES ASSUME Inv, [Next]_vars, device' = "timer" PROVE TimerInv'
    OBVIOUS
  <2>1. CASE Next
    BY <2>1, TimerNext DEF Next
  <2>2. CASE UNCHANGED vars
    BY <2>2 DEF vars, TimerInv, Timer!TypeOK, WaitsIn, Ends
  <2> QED BY <2>1, <2>2
<1>3. Inv => TimerOnce
  <2> SUFFICES ASSUME TimerInv PROVE Timer!TimerOnce
    BY DEF TimerOnce
  <2>1. ASSUME NEW t \in dev.started
        PROVE  dev.fired[t] + dev.stopped[t] + Cardinality(WaitsIn(t)) = 1
    <3>1. t \in Timers /\ Ends(t) = IF WaitsIn(t) = {} THEN 1 ELSE 0
      BY DEF TimerInv, Timer!TypeOK
    <3>2. CASE WaitsIn(t) = {}
      BY <3>1, <3>2, FS_EmptySet DEF Ends
    <3>3. CASE WaitsIn(t) # {}
      <4>1. PICK c \in WaitsIn(t) : TRUE
        BY <3>3
      <4>2. WaitsIn(t) = {c}
        BY <3>1, <4>1, HostDevicesAssumption DEF WaitsIn, TimerInv
      <4>3. Cardinality(WaitsIn(t)) = 1
        BY <4>2, FS_Singleton
      <4> QED BY <3>1, <3>3, <4>3 DEF Ends
    <3> QED BY <3>2, <3>3
  <2>2. \A t \in dev.started :
          dev.fired[t] + dev.stopped[t] + Cardinality({c \in Cells : dev.timer_map[c] = t}) = 1
    BY <2>1 DEF WaitsIn
  <2>3. dev.stubs = {c \in Cells : dev.timer_map[c] # 0}
    BY DEF TimerInv
  <2> QED BY <2>2, <2>3, Counts DEF Timer!TimerOnce
<1> QED BY <1>1, <1>2, <1>3, PTL DEF Spec

-----------------------------------------------------------------------------
(***************************************************************************)
(* The I/O device: the answers and the buffer are what was typed.          *)
(***************************************************************************)
Numbers(n) == [k \in 1 .. n |-> k]
IoType ==
  [buffer : Seq(Nat), stub : Reads \cup {0}, asked : Nat, typed : Nat, chars : Nat,
   got : [Reads -> Nat], order : Seq(Nat), overrun : SUBSET Reads]
InOrder(d) == d.order \o d.buffer = Numbers(d.chars)
NoIdleRead(d) ==
  /\ d.stub # 0 => d.buffer = <<>>
  /\ \A r \in 1 .. d.asked : d.got[r] = 0 => r \in d.overrun \cup {d.stub}
IoInv == dev \in IoType /\ InOrder(dev) /\ NoIdleRead(dev)

(* The first element of a queue goes to the end of another one.            *)
LEMMA PassedOn ==
  ASSUME NEW S, NEW s \in Seq(S), NEW b \in Seq(S), b # <<>>
  PROVE  /\ Append(s, Head(b)) \o Tail(b) = s \o b
         /\ Append(s, Head(b)) \in Seq(S) /\ Tail(b) \in Seq(S) /\ Head(b) \in S
<1>1. /\ Head(b) \in S /\ Tail(b) \in Seq(S) /\ Head(b) = b[1] /\ Len(b) \in Nat \ {0} /\ Len(Tail(b)) = Len(b) - 1
      /\ \A i \in 1 .. Len(b) - 1 : Tail(b)[i] = b[i + 1]
  BY Queued1
<1>2. PICK t : t = Tail(b)
  OBVIOUS
<1>3. PICK a : a = Append(s, Head(b))
  OBVIOUS
<1>4. /\ a \in Seq(S) /\ Len(a) = Len(s) + 1 /\ Len(s) \in Nat
      /\ \A i \in 1 .. Len(s) : a[i] = s[i]
      /\ a[Len(s) + 1] = b[1]
  BY <1>1, <1>3, AppendProperties, LenProperties
<1>5. PICK c : c = a \o t
  OBVIOUS
<1>6. /\ c \in Seq(S) /\ Len(c) = Len(a) + Len(t)
      /\ \A i \in 1 .. Len(a) + Len(t) : c[i] = IF i <= Len(a) THEN a[i] ELSE t[i - Len(a)]
  BY <1>1, <1>2, <1>4, <1>5, ConcatProperties, ZenonT(60)
<1>7. PICK d : d = s \o b
  OBVIOUS
<1>8. /\ d \in Seq(S) /\ Len(d) = Len(s) + Len(b)
      /\ \A i \in 1 .. Len(s) + Len(b) : d[i] = IF i <= Len(s) THEN s[i] ELSE b[i - Len(s)]
  BY <1>7, ConcatProperties
<1>9. Len(c) = Len(d)
  BY <1>1, <1>2, <1>4, <1>6, <1>8
<1>10. ASSUME NEW i \in 1 .. Len(d) PROVE c[i] = d[i]
  <2>0. /\ i \in 1 .. Len(a) + Len(t) /\ i \in 1 .. Len(s) + Len(b) /\ Len(a) = Len(s) + 1
        /\ i \in Int /\ Len(s) \in Int
    BY <1>1, <1>2, <1>4, <1>6, <1>8, <1>9
  <2>a. c[i] = IF i <= Len(a) THEN a[i] ELSE t[i - Len(a)]
    BY <1>6, <2>0
  <2>b. d[i] = IF i <= Len(s) THEN s[i] ELSE b[i - Len(s)]
    BY <1>8, <2>0
  <2>1. CASE i <= Len(s)
    <3>1. i <= Len(a) /\ i \in 1 .. Len(s)
      BY <2>0, <2>1
    <3> QED BY <1>4, <2>1, <2>a, <2>b, <3>1
  <2>2. CASE i = Len(s) + 1
    <3>1. i <= Len(a) /\ ~ (i <= Len(s)) /\ i - Len(s) = 1
      BY <2>0, <2>2
    <3> QED BY <1>4, <2>2, <2>a, <2>b, <3>1
  <2>3. CASE i > Len(s) + 1
    <3>1. i - Len(a) \in 1 .. Len(b) - 1 /\ (i - Len(a)) + 1 = i - Len(s) /\ ~ (i <= Len(a)) /\ ~ (i <= Len(s))
      BY <1>1, <2>0, <2>3
    <3> QED BY <1>1, <1>2, <2>a, <2>b, <3>1
  <2> QED BY <2>0, <2>1, <2>2, <2>3
<1>11. c = d
  BY <1>6, <1>8, <1>9, <1>10, SeqEqual
<1> QED BY <1>1, <1>2, <1>3, <1>4, <1>5, <1>7, <1>11

(* Numbers of the characters typed, and of those typed after them.         *)
LEMMA Numbered ==
  ASSUME NEW c \in Nat, NEW n \in Nat
  PROVE  /\ Numbers(c) \in Seq(Nat) /\ [k \in 1 .. n |-> c + k] \in Seq(Nat)
         /\ Numbers(c) \o [k \in 1 .. n |-> c + k] = Numbers(c + n)
<1>1. PICK a : a = Numbers(c)
  OBVIOUS
<1>2. PICK b : b = [k \in 1 .. n |-> c + k]
  OBVIOUS
<1>3. PICK d : d = Numbers(c + n)
  OBVIOUS
<1>4. a \in Seq(Nat) /\ Len(a) = c /\ \A i \in 1 .. c : a[i] = i
  <2>1. a \in [1 .. c -> Nat] /\ \A i \in 1 .. c : a[i] = i
    BY <1>1 DEF Numbers
  <2>2. a \in Seq(Nat)
    BY <2>1, SeqDef
  <2> QED BY <2>1, <2>2, LenProperties
<1>5. b \in Seq(Nat) /\ Len(b) = n /\ \A i \in 1 .. n : b[i] = c + i
  <2>1. b \in [1 .. n -> Nat] /\ \A i \in 1 .. n : b[i] = c + i
    BY <1>2
  <2>2. b \in Seq(Nat)
    BY <2>1, SeqDef
  <2> QED BY <2>1, <2>2, LenProperties
<1>6. d \in Seq(Nat) /\ Len(d) = c + n /\ \A i \in 1 .. c + n : d[i] = i
  <2>1. d \in [1 .. c + n -> Nat] /\ \A i \in 1 .. c + n : d[i] = i
    BY <1>3 DEF Numbers
  <2>2. d \in Seq(Nat)
    BY <2>1, SeqDef
  <2> QED BY <2>1, <2>2, LenProperties
<1>7. PICK e : e = a \o b
  OBVIOUS
<1>8. /\ e \in Seq(Nat) /\ Len(e) = c + n
      /\ \A i \in 1 .. c + n : e[i] = IF i <= c THEN a[i] ELSE b[i - c]
  BY <1>4, <1>5, <1>7, ConcatProperties
<1>9. ASSUME NEW i \in 1 .. c + n PROVE e[i] = d[i]
  <2>1. CASE i <= c
    BY <1>4, <1>6, <1>8, <2>1
  <2>2. CASE i > c
    <3>1. i - c \in 1 .. n /\ c + (i - c) = i /\ ~ (i <= c)
      BY <2>2
    <3> QED BY <1>5, <1>6, <1>8, <3>1
  <2> QED BY <2>1, <2>2
<1>10. e = d
  BY <1>6, <1>8, <1>9, SeqEqual
<1> QED BY <1>1, <1>2, <1>3, <1>4, <1>5, <1>7, <1>10

(* The characters in the buffer are numbered from 1.                       *)
LEMMA NoZero ==
  ASSUME NEW s \in Seq(Nat), NEW b \in Seq(Nat), b # <<>>, NEW c \in Nat, s \o b = Numbers(c)
  PROVE  Head(b) # 0
<1>1. Head(b) = b[1] /\ Len(b) \in Nat \ {0} /\ Len(s) \in Nat
  BY Queued1, LenProperties
<1>2. PICK d : d = s \o b
  OBVIOUS
<1>3. /\ d \in Seq(Nat) /\ Len(d) = Len(s) + Len(b)
      /\ \A i \in 1 .. Len(s) + Len(b) : d[i] = IF i <= Len(s) THEN s[i] ELSE b[i - Len(s)]
  BY <1>2, ConcatProperties
<1>4. DOMAIN d = 1 .. Len(s) + Len(b) /\ DOMAIN d = 1 .. c /\ \A i \in 1 .. c : d[i] = i
  BY <1>2, <1>3, LenProperties DEF Numbers
<1>5. Len(s) + 1 \in 1 .. Len(s) + Len(b) /\ ~ (Len(s) + 1 <= Len(s)) /\ (Len(s) + 1) - Len(s) = 1
  BY <1>1
<1>6. d[Len(s) + 1] = b[1] /\ d[Len(s) + 1] = Len(s) + 1
  BY <1>3, <1>4, <1>5
<1> QED BY <1>1, <1>6

(* Nothing was typed yet.                                                  *)
LEMMA IoInit ==
  ASSUME Io!Init
  PROVE  IoInv
<1>1. /\ dev.buffer = <<>> /\ dev.order = <<>> /\ dev.stub = 0 /\ dev.asked = 0 /\ dev.typed = 0
      /\ dev.chars = 0 /\ dev.got \in [Reads -> Nat] /\ dev.overrun = {}
  BY DEF Io!Init
<1>2. <<>> \o <<>> = Numbers(0)
  <2>1. <<>> \o <<>> = <<>>
    BY ConcatEmptySeq, EmptySeq
  <2>2. DOMAIN Numbers(0) = {}
    BY DEF Numbers
  <2>3. Numbers(0) = <<>>
    BY <2>2 DEF Numbers
  <2> QED BY <2>1, <2>3
<1>3. dev \in IoType
  BY EmptySeq DEF Io!Init, IoType
<1> QED BY <1>1, <1>2, <1>3 DEF IoInv, InOrder, NoIdleRead

(* A read takes a character, or leaves its stub.                           *)
LEMMA IoRead ==
  ASSUME IoInv, NEW r \in Reads, Io!Read(r)
  PROVE  IoInv'
<1>1. /\ dev \in IoType /\ r = dev.asked + 1 /\ r \in Nat
      /\ dev.buffer \in Seq(Nat) /\ dev.order \in Seq(Nat) /\ dev.chars \in Nat
      /\ dev.order \o dev.buffer = Numbers(dev.chars) /\ dev.asked \in Nat
      /\ dev.stub \in Reads \cup {0} /\ dev.overrun \subseteq Reads /\ dev.got \in [Reads -> Nat]
  <2>1. dev \in IoType /\ r = dev.asked + 1 /\ dev.order \o dev.buffer = Numbers(dev.chars)
    BY Zenon DEF IoInv, Io!Read, InOrder
  <2>2. /\ dev.buffer \in Seq(Nat) /\ dev.order \in Seq(Nat) /\ dev.chars \in Nat /\ dev.asked \in Nat
        /\ dev.stub \in Reads \cup {0} /\ dev.overrun \subseteq Reads /\ dev.got \in [Reads -> Nat]
    BY ONLY <2>1 DEF IoType
  <2>3. r \in Nat
    BY ONLY <2>1, <2>2
  <2> QED BY ONLY <2>1, <2>2, <2>3
<1>2. /\ dev.stub # 0 => dev.buffer = <<>>
      /\ \A s \in 1 .. dev.asked : dev.got[s] = 0 => s \in dev.overrun \cup {dev.stub}
  BY DEF IoInv, NoIdleRead
<1>3. /\ r \in 1 .. r /\ \A s \in 1 .. r : s = r \/ s \in 1 .. dev.asked
      /\ r # 0 /\ \A s \in 1 .. dev.asked : s # r
  BY <1>1
<1>4. CASE dev.buffer # <<>>
  <2>1. PICK h : h = Head(dev.buffer)
    OBVIOUS
  <2>2. /\ Append(dev.order, h) \o Tail(dev.buffer) = dev.order \o dev.buffer
        /\ Append(dev.order, h) \in Seq(Nat) /\ Tail(dev.buffer) \in Seq(Nat) /\ h \in Nat
    <3>1. dev.order \in Seq(Nat) /\ dev.buffer \in Seq(Nat) /\ dev.buffer # <<>>
      BY <1>1, <1>4
    <3> QED BY ONLY <2>1, <3>1, PassedOn, ZenonT(60)
  <2>3. h # 0
    BY <1>1, <1>4, <2>1, NoZero
  <2>4. dev' = [dev EXCEPT !.asked = r, !.got[r] = h, !.order = Append(@, h), !.buffer = Tail(@)]
    BY <1>4, <2>1 DEF Io!Read
  <2>5. [dev.got EXCEPT ![r] = h] \in [Reads -> Nat]
    BY <1>1, <2>2
  <2>6. /\ dev'.asked = r /\ dev'.got = [dev.got EXCEPT ![r] = h] /\ dev'.order = Append(dev.order, h)
        /\ dev'.buffer = Tail(dev.buffer) /\ dev'.stub = dev.stub /\ dev'.chars = dev.chars
        /\ dev'.overrun = dev.overrun
    BY <1>1, <2>4 DEF IoType
  <2>7. dev' \in IoType
    BY <1>1, <2>2, <2>4, <2>5 DEF IoType
  <2>8. InOrder(dev')
    BY <1>1, <2>2, <2>6 DEF InOrder
  <2>9. NoIdleRead(dev')
    <3>1. dev'.stub = 0
      BY <1>2, <1>4, <2>6
    <3>2. \A s \in 1 .. r : dev'.got[s] = 0 => s \in dev.overrun \cup {dev.stub}
      BY <1>1, <1>2, <1>3, <2>3, <2>6
    <3> QED BY <2>6, <3>1, <3>2 DEF NoIdleRead
  <2> QED BY <2>7, <2>8, <2>9 DEF IoInv
<1>5. CASE dev.buffer = <<>>
  <2>1. PICK o : o = IF dev.stub # 0 THEN dev.overrun \cup {dev.stub} ELSE dev.overrun
    OBVIOUS
  <2>2. dev' = [dev EXCEPT !.asked = r, !.stub = r, !.overrun = o]
    BY <1>5, <2>1 DEF Io!Read
  <2>3. /\ dev'.asked = r /\ dev'.got = dev.got /\ dev'.order = dev.order
        /\ dev'.buffer = dev.buffer /\ dev'.stub = r /\ dev'.chars = dev.chars /\ dev'.overrun = o
    BY <1>1, <2>2 DEF IoType
  <2>4. o \subseteq Reads /\ dev.overrun \subseteq o /\ (dev.stub # 0 => dev.stub \in o)
    BY <1>1, <2>1
  <2>5. dev' \in IoType
    BY <1>1, <2>2, <2>4 DEF IoType
  <2>6. InOrder(dev')
    BY <1>1, <2>3 DEF InOrder
  <2>7. NoIdleRead(dev')
    <3>1. \A s \in 1 .. r : dev.got[s] = 0 => s \in o \cup {r}
      BY <1>2, <1>3, <2>4
    <3> QED BY <1>5, <2>3, <3>1 DEF NoIdleRead
  <2> QED BY <2>5, <2>6, <2>7 DEF IoInv
<1> QED BY <1>4, <1>5

(* A string is typed, and its first character goes to the read that waits. *)
LEMMA IoTyped ==
  ASSUME IoInv, Io!Type
  PROVE  IoInv'
<1>1. /\ dev \in IoType /\ dev.buffer \in Seq(Nat) /\ dev.order \in Seq(Nat) /\ dev.chars \in Nat
      /\ dev.order \o dev.buffer = Numbers(dev.chars) /\ dev.asked \in Nat /\ dev.typed \in Nat
      /\ dev.stub \in Reads \cup {0} /\ dev.overrun \subseteq Reads /\ dev.got \in [Reads -> Nat]
  BY DEF IoInv, IoType, InOrder
<1>2. /\ dev.stub # 0 => dev.buffer = <<>>
      /\ \A s \in 1 .. dev.asked : dev.got[s] = 0 => s \in dev.overrun \cup {dev.stub}
  BY DEF IoInv, NoIdleRead
<1>3. PICK n \in Nat : n = Typed[dev.typed + 1]
  <2>1. dev.typed + 1 \in 1 .. Len(Typed)
    BY <1>1, HostDevicesAssumption, LenProperties DEF Io!Type
  <2> QED BY <2>1, HostDevicesAssumption, ElementOfSeq
<1>4. PICK new \in Seq(Nat) : new = [k \in 1 .. n |-> dev.chars + k]
  BY <1>1, Numbered
<1>5. PICK b \in Seq(Nat) : b = dev.buffer \o new
  BY <1>1, ConcatProperties
<1>6. dev.order \o b = Numbers(dev.chars + n)
  <2>1. dev.order \o b = (dev.order \o dev.buffer) \o new
    <3>1. PICK s \in Seq(Nat), t \in Seq(Nat) : s = dev.order /\ t = dev.buffer
      BY <1>1
    <3>2. (s \o t) \o new = s \o (t \o new)
      BY ONLY s \in Seq(Nat), t \in Seq(Nat), new \in Seq(Nat), ConcatAssociative, SMTT(30)
    <3> QED BY <1>5, <3>1, <3>2
  <2>2. Numbers(dev.chars) \o new = Numbers(dev.chars + n)
    BY <1>1, <1>4, Numbered
  <2> QED BY <1>1, <2>1, <2>2
<1>7. PICK d : d = [dev EXCEPT !.typed = @ + 1, !.chars = @ + n, !.buffer = b]
  OBVIOUS
<1>8. dev' = Io!Poll(d)
  BY <1>3, <1>4, <1>5, <1>7 DEF Io!Type
<1>9. /\ d \in IoType /\ d.order = dev.order /\ d.buffer = b /\ d.stub = dev.stub /\ d.asked = dev.asked
      /\ d.got = dev.got /\ d.chars = dev.chars + n /\ d.overrun = dev.overrun
  <2>1. dev.chars + n \in Nat /\ dev.typed + 1 \in Nat
    BY <1>1
  <2> QED BY <1>1, <1>7, <2>1 DEF IoType
<1>10. CASE d.stub # 0 /\ b # <<>>
  <2>1. PICK h : h = Head(b)
    OBVIOUS
  <2>2. /\ Append(d.order, h) \o Tail(b) = d.order \o b
        /\ Append(d.order, h) \in Seq(Nat) /\ Tail(b) \in Seq(Nat) /\ h \in Nat
    <3>1. d.order \in Seq(Nat) /\ b \in Seq(Nat) /\ b # <<>>
      BY <1>1, <1>9, <1>10
    <3> QED BY ONLY <2>1, <3>1, PassedOn, SMTT(30)
  <2>3. h # 0
    <3>1. dev.order \in Seq(Nat) /\ b \in Seq(Nat) /\ b # <<>> /\ dev.chars + n \in Nat
      BY <1>1, <1>10
    <3> QED BY ONLY <1>6, <2>1, <3>1, NoZero
  <2>4. dev' = [d EXCEPT !.buffer = Tail(b), !.got[d.stub] = h, !.order = Append(@, h), !.stub = 0]
    BY <1>8, <1>9, <1>10, <2>1 DEF Io!Poll
  <2>5. [d.got EXCEPT ![d.stub] = h] \in [Reads -> Nat]
    BY <1>1, <1>9, <2>2
  <2>6. /\ dev'.asked = d.asked /\ dev'.got = [d.got EXCEPT ![d.stub] = h] /\ dev'.order = Append(d.order, h)
        /\ dev'.buffer = Tail(b) /\ dev'.stub = 0 /\ dev'.chars = d.chars /\ dev'.overrun = d.overrun
    BY <1>9, <2>4 DEF IoType
  <2>7. dev' \in IoType
    BY <1>9, <2>2, <2>4, <2>5 DEF IoType
  <2>8. InOrder(dev')
    BY <1>6, <1>9, <2>2, <2>6 DEF InOrder
  <2>9. NoIdleRead(dev')
    <3>1. d.stub \in Reads /\ dev'.got[d.stub] = h /\ \A s \in Reads : s # d.stub => dev'.got[s] = d.got[s]
      BY <1>1, <1>9, <1>10, <2>6
    <3>2. \A s \in 1 .. d.asked : s \notin Reads => dev'.got[s] = d.got[s]
      BY <1>1, <1>9, <2>6, <3>1
    <3>3. \A s \in 1 .. d.asked : dev'.got[s] = 0 => s \in d.overrun
      BY <1>2, <1>9, <2>3, <3>1, <3>2
    <3> QED BY <2>6, <3>3 DEF NoIdleRead
  <2> QED BY <2>7, <2>8, <2>9 DEF IoInv
<1>11. CASE ~ (d.stub # 0 /\ b # <<>>)
  <2>1. dev' = d
    BY <1>8, <1>9, <1>11 DEF Io!Poll
  <2>2. InOrder(d)
    BY <1>6, <1>9 DEF InOrder
  <2>3. NoIdleRead(d)
    BY <1>2, <1>9, <1>11 DEF NoIdleRead
  <2> QED BY <1>9, <2>1, <2>2, <2>3 DEF IoInv
<1> QED BY <1>10, <1>11

(***************************************************************************)
(* No character is lost, doubled or overtaken on its way to the reads; no  *)
(* read waits while there is a character for it, and a read goes without   *)
(* an answer only if another has overrun it.                               *)
(***************************************************************************)
THEOREM InputOrdered == Spec => []InputInOrder
<1> DEFINE Inv == device = "io" => IoInv
<1>1. Init => Inv
  BY IoInit DEF Init
<1>2. Inv /\ [Next]_vars => Inv'
  <2> SUFFICES ASSUME Inv, [Next]_vars, device' = "io" PROVE IoInv'
    OBVIOUS
  <2>1. CASE Next
    BY <2>1, IoRead, IoTyped DEF Next, Io!Next
  <2>2. CASE UNCHANGED vars
    BY <2>2 DEF vars, IoInv
  <2> QED BY <2>1, <2>2
<1>3. Inv => InputInOrder
  BY DEF IoInv, InOrder, NoIdleRead, Numbers, InputInOrder, Io!InOrder, Io!NoIdleRead
<1> QED BY <1>1, <1>2, <1>3, PTL DEF Spec

-----------------------------------------------------------------------------
(***************************************************************************)
(* The core and a dynamic device: a request is in the queue of the core,   *)
(* its callback is deferred or in one of the arrays that are being run, or *)
(* the device works on it.                                                 *)
(***************************************************************************)
Thunk == {Tcp!Callback(r) : r \in Reqs} \cup {Tcp!ReleaseOf(l) : l \in Nat}
CoreType(kinds) ==
  [eager : BOOLEAN, wasm : BOOLEAN, disposed : BOOLEAN,
   asked : [Reqs -> [kind : kinds \cup {"none"}, on : Nat]],
   queue : Seq(Reqs), deferred : Seq(Thunk), stack : Seq(Seq(Thunk)),
   stub : [Reqs -> Int], answers : [Reqs -> Nat], ran : [Reqs -> Nat]]

(* What is deferred, and what is left of the arrays, has nothing twice.    *)
Awaits(k, x) ==
  x \in ToSet(k.deferred) \/ \E n \in DOMAIN k.stack : x \in ToSet(k.stack[n])
Single(k) ==
  /\ Distinct(k.queue) /\ Distinct(k.deferred)
  /\ \A n \in DOMAIN k.stack :
       /\ k.stack[n] # <<>> /\ Distinct(k.stack[n])
       /\ ToSet(k.stack[n]) \cap ToSet(k.deferred) = {}
       /\ \A m \in DOMAIN k.stack : m # n => ToSet(k.stack[m]) \cap ToSet(k.stack[n]) = {}

(* The life of request r, where pending are those the device works on, and *)
(* callable are the kinds of requests that are deferred.                   *)
Queued(k, r) == r \in ToSet(k.queue)
Stage(k, pending, callable, r) ==
  /\ k.asked[r] = Tcp!NoRequest => ~Queued(k, r) /\ k.stub[r] = 0 /\ k.answers[r] = 0
  /\ Queued(k, r) =>
       /\ ~Awaits(k, Tcp!Callback(r)) /\ r \notin pending
       /\ k.asked[r].kind # "none" /\ k.stub[r] = 0 /\ k.answers[r] = 0
  /\ Awaits(k, Tcp!Callback(r)) =>
       r \notin pending /\ k.stub[r] = 1 /\ k.answers[r] = 0 /\ k.asked[r].kind \in callable
  /\ r \in pending => k.stub[r] = 1 /\ k.answers[r] = 0 /\ k.asked[r].kind \in callable
  /\ k.stub[r] \in {0, 1} /\ k.answers[r] \in {0, 1} /\ (k.answers[r] = 1 => k.stub[r] = 0)

(* The request keeps its device's capability alive; see InUse.             *)
Keeps(k, r) == Queued(k, r) \/ k.stub[r] > 0

Life(k, pending, callable) ==
  /\ Single(k)
  /\ \A r \in Reqs : Stage(k, pending, callable, r)
  /\ k.disposed => ~k.wasm /\ k.stack = <<>>

-----------------------------------------------------------------------------
(* What the operations of the core do *)

(* The two devices call the same operations.                               *)
LEMMA SameCalls ==
  /\ Fs!NoRequest = Tcp!NoRequest
  /\ \A r : Fs!Callback(r) = Tcp!Callback(r)
  /\ \A k : /\ Fs!Rejected(k) = Tcp!Rejected(k) /\ Fs!Returned(k) = Tcp!Returned(k)
            /\ Fs!RunLoop(k) = Tcp!RunLoop(k) /\ Fs!CallbackTaken(k) = Tcp!CallbackTaken(k)
            /\ Fs!Next1(k) = Tcp!Next1(k) /\ Fs!NextCallback(k) = Tcp!NextCallback(k)
            /\ Fs!CanHandle(k) = Tcp!CanHandle(k) /\ Fs!CanCall(k) = Tcp!CanCall(k)
            /\ Fs!Outside(k) = Tcp!Outside(k)
  /\ \A k, r : /\ Fs!Release(k, r) = Tcp!Release(k, r) /\ Fs!Reply(k, r) = Tcp!Reply(k, r)
               /\ Fs!CanAsk(k, r) = Tcp!CanAsk(k, r)
  /\ \A k, r, q : Fs!Asked(k, r, q) = Tcp!Asked(k, r, q)
  /\ \A k, t : Fs!Accepted(k, t) = Tcp!Accepted(k, t)
  /\ \A eager : Fs!NewCore(eager) = Tcp!NewCore(eager)
<1>1. Fs!NoRequest = Tcp!NoRequest /\ \A r : Fs!Callback(r) = Tcp!Callback(r)
  BY DEF Fs!NoRequest, Tcp!NoRequest, Fs!Callback, Tcp!Callback
<1>2. ASSUME NEW k
      PROVE  /\ Fs!Rejected(k) = Tcp!Rejected(k) /\ Fs!Returned(k) = Tcp!Returned(k)
             /\ Fs!RunLoop(k) = Tcp!RunLoop(k)
             /\ Fs!Next1(k) = Tcp!Next1(k) /\ Fs!NextCallback(k) = Tcp!NextCallback(k)
             /\ Fs!CanHandle(k) = Tcp!CanHandle(k) /\ Fs!CanCall(k) = Tcp!CanCall(k)
             /\ Fs!Outside(k) = Tcp!Outside(k)
  BY DEF Fs!Rejected, Tcp!Rejected, Fs!Returned, Tcp!Returned, Fs!RunLoop, Tcp!RunLoop,
         Fs!Next1, Tcp!Next1, Fs!NextCallback, Tcp!NextCallback,
         Fs!CanHandle, Tcp!CanHandle, Fs!CanCall, Tcp!CanCall, Fs!Outside, Tcp!Outside
<1>3. ASSUME NEW k PROVE Fs!CallbackTaken(k) = Tcp!CallbackTaken(k)
  BY DEF Fs!CallbackTaken, Tcp!CallbackTaken, Fs!NextCallback, Tcp!NextCallback
<1>4. ASSUME NEW k, NEW r
      PROVE  /\ Fs!Release(k, r) = Tcp!Release(k, r) /\ Fs!Reply(k, r) = Tcp!Reply(k, r)
             /\ Fs!CanAsk(k, r) = Tcp!CanAsk(k, r)
  BY <1>1 DEF Fs!Release, Tcp!Release, Fs!Reply, Tcp!Reply, Fs!Wakeup, Tcp!Wakeup, Fs!CanAsk, Tcp!CanAsk
<1>5. ASSUME NEW k, NEW r, NEW q PROVE Fs!Asked(k, r, q) = Tcp!Asked(k, r, q)
  BY DEF Fs!Asked, Tcp!Asked
<1>6. ASSUME NEW k, NEW t PROVE Fs!Accepted(k, t) = Tcp!Accepted(k, t)
  BY DEF Fs!Accepted, Tcp!Accepted
<1>7. ASSUME NEW e PROVE Fs!NewCore(e) = Tcp!NewCore(e)
  BY <1>1 DEF Fs!NewCore, Tcp!NewCore
<1> QED BY <1>1, <1>2, <1>3, <1>4, <1>5, <1>6, <1>7

(* A callback is of one request, and no release.                           *)
LEMMA Thunks ==
  /\ \A r \in Reqs : Tcp!Callback(r) \in Thunk /\ Tcp!Callback(r).do = "request" /\ Tcp!Callback(r).id = r
  /\ \A l \in Nat : Tcp!ReleaseOf(l) \in Thunk /\ Tcp!ReleaseOf(l).do = "release" /\ Tcp!ReleaseOf(l).id = l
BY DEF Thunk, Tcp!Callback, Tcp!ReleaseOf

(* A queue of one element, and of none.                                    *)
LEMMA OneThunk ==
  ASSUME NEW S, NEW e \in S
  PROVE  /\ <<e>> \in Seq(S) /\ ToSet(<<e>>) = {e} /\ Distinct(<<e>>)
         /\ <<>> \in Seq(S) /\ ToSet(<<>>) = {} /\ Distinct(<<>>)
<1>1. PICK s : s = <<e>>
  OBVIOUS
<1>2. s \in Seq(S) /\ DOMAIN s = {1} /\ s[1] = e
  BY <1>1
<1>3. ToSet(s) = {e} /\ Distinct(s)
  BY <1>2 DEF ToSet, Distinct
<1>4. <<>> \in Seq(S) /\ ToSet(<<>>) = {} /\ Distinct(<<>>)
  BY DEF ToSet, Distinct
<1> QED BY <1>1, <1>2, <1>3, <1>4

(* The types of the parts of the core.                                     *)
LEMMA CoreParts ==
  ASSUME NEW kinds, NEW k \in CoreType(kinds)
  PROVE  /\ k.eager \in BOOLEAN /\ k.wasm \in BOOLEAN /\ k.disposed \in BOOLEAN
         /\ k.asked \in [Reqs -> [kind : kinds \cup {"none"}, on : Nat]]
         /\ k.queue \in Seq(Reqs) /\ k.deferred \in Seq(Thunk) /\ k.stack \in Seq(Seq(Thunk))
         /\ k.stub \in [Reqs -> Int] /\ k.answers \in [Reqs -> Nat] /\ k.ran \in [Reqs -> Nat]
BY DEF CoreType

(* No request has been made.                                               *)
LEMMA CoreNew ==
  ASSUME NEW kinds, NEW eager \in BOOLEAN, NEW k, k = Tcp!NewCore(eager), NEW callable
  PROVE  /\ k \in CoreType(kinds) /\ Life(k, {}, callable)
         /\ \A r \in Reqs : k.asked[r] = Tcp!NoRequest
         /\ \A x : ~Awaits(k, x)
<1>1. k = [eager |-> eager, wasm |-> FALSE, disposed |-> FALSE, asked |-> [r \in Reqs |-> Tcp!NoRequest],
           queue |-> <<>>, deferred |-> <<>>, stack |-> <<>>,
           stub |-> [r \in Reqs |-> 0], answers |-> [r \in Reqs |-> 0], ran |-> [r \in Reqs |-> 0]]
  BY DEF Tcp!NewCore
<1>2. [r \in Reqs |-> Tcp!NoRequest] \in [Reqs -> [kind : kinds \cup {"none"}, on : Nat]]
  BY DEF Tcp!NoRequest
<1>3. [r \in Reqs |-> 0] \in [Reqs -> Nat] /\ [r \in Reqs |-> 0] \in [Reqs -> Int]
  OBVIOUS
<1>4. k \in CoreType(kinds)
  BY <1>1, <1>2, <1>3, EmptySeq DEF CoreType
<1>5. /\ k.queue = <<>> /\ k.deferred = <<>> /\ k.stack = <<>> /\ k.disposed = FALSE
      /\ \A r \in Reqs : k.asked[r] = Tcp!NoRequest /\ k.stub[r] = 0 /\ k.answers[r] = 0
  BY <1>1
<1>6. ToSet(<<>>) = {} /\ Distinct(<<>>)
  BY DEF ToSet, Distinct
<1>7. Single(k)
  BY <1>5, <1>6 DEF Single
<1>8. /\ \A x : ~Awaits(k, x)
      /\ \A r \in Reqs : ~Queued(k, r)
  BY <1>5, <1>6 DEF Awaits, Queued
<1>9. \A r \in Reqs : Stage(k, {}, callable, r)
  BY <1>5, <1>8 DEF Stage
<1> QED BY <1>4, <1>5, <1>7, <1>8, <1>9 DEF Life

(***************************************************************************)
(* A step from core k to core j that makes no request: no capability is    *)
(* used that was not.                                                      *)
(***************************************************************************)
Later(k, j) ==
  /\ \A r \in Reqs : j.asked[r] = k.asked[r] /\ (Keeps(j, r) => Keeps(k, r))
  /\ k.disposed => j.disposed
Same(k, j, r) ==
  /\ j.asked[r] = k.asked[r] /\ j.stub[r] = k.stub[r] /\ j.answers[r] = k.answers[r]
  /\ Queued(j, r) = Queued(k, r)
  /\ Awaits(j, Tcp!Callback(r)) = Awaits(k, Tcp!Callback(r))

(* A request that a step leaves alone stays where it is.                   *)
LEMMA StageSame ==
  ASSUME NEW k, NEW j, NEW P, NEW Q, NEW callable, NEW r,
         Stage(k, P, callable, r), Same(k, j, r), r \in Q => r \in P
  PROVE  Stage(j, Q, callable, r)
BY DEF Stage, Same

(* What is deferred, and the arrays, are left alone.                       *)
LEMMA AwaitsSame ==
  ASSUME NEW k, NEW j, j.deferred = k.deferred, j.stack = k.stack
  PROVE  \A x : Awaits(j, x) = Awaits(k, x)
BY DEF Awaits

(* An actor makes a request.                                               *)
LEMMA LifeAsk ==
  ASSUME NEW kinds, NEW k \in CoreType(kinds), NEW P, NEW callable, Life(k, P, callable), NEW r \in Reqs,
         NEW q \in [kind : kinds \cup {"none"}, on : Nat], q.kind # "none", Tcp!CanAsk(k, r),
         NEW j, j = Tcp!Asked(k, r, q), \A s \in P : s \in Reqs
  PROVE  /\ j \in CoreType(kinds) /\ Life(j, P, callable) /\ j.disposed = k.disposed /\ r \notin P
         /\ j.asked[r] = q /\ ~Keeps(k, r)
         /\ \A s \in Reqs : s # r => j.asked[s] = k.asked[s] /\ Keeps(j, s) = Keeps(k, s)
         /\ \A x : Awaits(j, x) = Awaits(k, x)
<1>1. /\ k.wasm /\ k.asked[r] = Tcp!NoRequest
      /\ j = [k EXCEPT !.asked[r] = q, !.queue = Append(@, r)]
  BY DEF Tcp!CanAsk, Tcp!Asked
<1>2. /\ k.asked \in [Reqs -> [kind : kinds \cup {"none"}, on : Nat]] /\ k.queue \in Seq(Reqs)
      /\ Append(k.queue, r) \in Seq(Reqs) /\ ToSet(Append(k.queue, r)) = ToSet(k.queue) \cup {r}
  BY CoreParts, ElemsAppend
<1>3. [k.asked EXCEPT ![r] = q] \in [Reqs -> [kind : kinds \cup {"none"}, on : Nat]]
  BY <1>2
<1>4. j \in CoreType(kinds)
  BY <1>1, <1>2, <1>3 DEF CoreType
<1>5. /\ j.asked = [k.asked EXCEPT ![r] = q] /\ j.queue = Append(k.queue, r) /\ j.deferred = k.deferred
      /\ j.stack = k.stack /\ j.stub = k.stub /\ j.answers = k.answers /\ j.disposed = k.disposed
      /\ j.wasm = k.wasm
  BY <1>1 DEF CoreType
<1>6. Stage(k, P, callable, r) /\ Single(k) /\ (k.disposed => ~k.wasm /\ k.stack = <<>>)
  BY DEF Life
<1>7. ~Queued(k, r) /\ k.stub[r] = 0 /\ k.answers[r] = 0 /\ ~Awaits(k, Tcp!Callback(r)) /\ r \notin P
  BY <1>1, <1>6 DEF Stage
<1>8. Single(j)
  <2>1. Distinct(j.queue)
    BY <1>2, <1>5, <1>6, <1>7, DistinctAppend DEF Single, Queued
  <2> QED BY <1>5, <1>6, <2>1 DEF Single
<1>9. \A x : Awaits(j, x) = Awaits(k, x)
  BY <1>5, AwaitsSame
<1>10. j.asked[r] = q /\ \A s \in Reqs : s # r => j.asked[s] = k.asked[s]
  BY <1>2, <1>5
<1>11. Queued(j, r) /\ \A s \in Reqs : s # r => Queued(j, s) = Queued(k, s)
  BY <1>2, <1>5 DEF Queued
<1>12. q # Tcp!NoRequest
  BY DEF Tcp!NoRequest
<1>13. Stage(j, P, callable, r)
  BY <1>5, <1>7, <1>9, <1>10, <1>11, <1>12 DEF Stage
<1>14. ASSUME NEW s \in Reqs, s # r PROVE Stage(j, P, callable, s)
  <2>1. Same(k, j, s)
    BY <1>5, <1>9, <1>10, <1>11, <1>14 DEF Same
  <2>2. Stage(k, P, callable, s)
    BY DEF Life
  <2> QED BY <2>1, <2>2, StageSame
<1>15. Life(j, P, callable)
  BY <1>5, <1>6, <1>8, <1>13, <1>14 DEF Life
<1>16. \A s \in Reqs : s # r => Keeps(j, s) = Keeps(k, s)
  BY <1>5, <1>11 DEF Keeps
<1>17. ~Keeps(k, r)
  BY <1>7 DEF Keeps
<1> QED BY <1>4, <1>5, <1>7, <1>9, <1>10, <1>15, <1>16, <1>17

(* The first request of the queue leaves it.                               *)
LEMMA Dequeued ==
  ASSUME NEW kinds, NEW k \in CoreType(kinds), NEW P, NEW callable, Life(k, P, callable), k.queue # <<>>,
         NEW r, r = Tcp!Next1(k)
  PROVE  /\ r \in Reqs /\ r = Head(k.queue) /\ Tail(k.queue) \in Seq(Reqs) /\ Distinct(Tail(k.queue))
         /\ Queued(k, r) /\ r \notin ToSet(Tail(k.queue))
         /\ \A s \in Reqs : s # r => (s \in ToSet(Tail(k.queue))) = Queued(k, s)
<1>1. k.queue \in Seq(Reqs) /\ Distinct(k.queue) /\ r = Head(k.queue)
  BY CoreParts DEF Life, Single, Tcp!Next1
<1>2. /\ Distinct(Tail(k.queue)) /\ Head(k.queue) \notin ToSet(Tail(k.queue))
      /\ ToSet(k.queue) = {Head(k.queue)} \cup ToSet(Tail(k.queue)) /\ Tail(k.queue) \in Seq(Reqs)
      /\ Head(k.queue) \in Reqs
  BY <1>1, DistinctTail
<1> QED BY <1>1, <1>2 DEF Queued

(* A request is rejected.                                                  *)
LEMMA LifeReject ==
  ASSUME NEW kinds, NEW k \in CoreType(kinds), NEW P, NEW callable, Life(k, P, callable), k.queue # <<>>,
         NEW r, r = Tcp!Next1(k), NEW j, j = Tcp!Rejected(k)
  PROVE  /\ j \in CoreType(kinds) /\ Life(j, P, callable) /\ Later(k, j) /\ j.disposed = k.disposed
         /\ \A x : Awaits(j, x) = Awaits(k, x)
<1>1. /\ r \in Reqs /\ Tail(k.queue) \in Seq(Reqs) /\ Distinct(Tail(k.queue))
      /\ Queued(k, r) /\ r \notin ToSet(Tail(k.queue))
      /\ \A s \in Reqs : s # r => (s \in ToSet(Tail(k.queue))) = Queued(k, s)
  BY Dequeued
<1>2. j = [k EXCEPT !.queue = Tail(@)]
  BY DEF Tcp!Rejected
<1>3. j \in CoreType(kinds)
  BY <1>1, <1>2 DEF CoreType
<1>4. /\ j.asked = k.asked /\ j.queue = Tail(k.queue) /\ j.deferred = k.deferred
      /\ j.stack = k.stack /\ j.stub = k.stub /\ j.answers = k.answers /\ j.disposed = k.disposed
      /\ j.wasm = k.wasm
  BY <1>2 DEF CoreType
<1>5. \A x : Awaits(j, x) = Awaits(k, x)
  BY <1>4, AwaitsSame
<1>6. ~Queued(j, r) /\ \A s \in Reqs : s # r => Queued(j, s) = Queued(k, s)
  BY <1>1, <1>4 DEF Queued
<1>7. Stage(k, P, callable, r) /\ Single(k) /\ (k.disposed => ~k.wasm /\ k.stack = <<>>)
  BY <1>1 DEF Life
<1>8. Stage(j, P, callable, r)
  BY <1>1, <1>4, <1>5, <1>6, <1>7 DEF Stage
<1>9. ASSUME NEW s \in Reqs, s # r PROVE Stage(j, P, callable, s)
  <2>1. Same(k, j, s)
    BY <1>4, <1>5, <1>6, <1>9 DEF Same
  <2>2. Stage(k, P, callable, s)
    BY DEF Life
  <2> QED BY <2>1, <2>2, StageSame
<1>10. Single(j)
  BY <1>1, <1>4, <1>7 DEF Single
<1>11. Life(j, P, callable)
  BY <1>4, <1>7, <1>8, <1>9, <1>10 DEF Life
<1>12. Later(k, j)
  BY <1>4, <1>6 DEF Later, Keeps
<1> QED BY <1>3, <1>4, <1>5, <1>11, <1>12

(* A request is accepted: its stub is reserved, and nothing is deferred,   *)
(* or something that is not deferred yet.                                  *)
LEMMA LifeAccept ==
  ASSUME NEW kinds, NEW k \in CoreType(kinds), NEW P, NEW callable, Life(k, P, callable), k.queue # <<>>, k.wasm,
         NEW r, r = Tcp!Next1(k), NEW t \in Seq(Thunk), NEW j, j = Tcp!Accepted(k, t),
         Distinct(t), \A x \in ToSet(t) : ~Awaits(k, x),
         \A s \in Reqs : Tcp!Callback(s) \in ToSet(t) => s = r /\ k.asked[r].kind \in callable
  PROVE  /\ j \in CoreType(kinds) /\ Life(j, P, callable) /\ Later(k, j) /\ j.disposed = k.disposed
         /\ \A x : Awaits(j, x) = (Awaits(k, x) \/ x \in ToSet(t))
<1>1. /\ r \in Reqs /\ r = Head(k.queue) /\ Tail(k.queue) \in Seq(Reqs) /\ Distinct(Tail(k.queue))
      /\ Queued(k, r) /\ r \notin ToSet(Tail(k.queue))
      /\ \A s \in Reqs : s # r => (s \in ToSet(Tail(k.queue))) = Queued(k, s)
  BY Dequeued
<1>2. j = [k EXCEPT !.queue = Tail(@), !.stub[r] = @ + 1, !.deferred = @ \o t]
  BY <1>1 DEF Tcp!Accepted
<1>3. /\ k.stub \in [Reqs -> Int] /\ k.deferred \in Seq(Thunk)
  BY CoreParts
<1>4. k.deferred \o t \in Seq(Thunk) /\ ToSet(k.deferred \o t) = ToSet(k.deferred) \cup ToSet(t)
  BY <1>3, ElemsConcat
<1>5. [k.stub EXCEPT ![r] = @ + 1] \in [Reqs -> Int]
  BY <1>1, <1>3
<1>6. j \in CoreType(kinds)
  BY <1>1, <1>2, <1>4, <1>5 DEF CoreType
<1>7. /\ j.asked = k.asked /\ j.queue = Tail(k.queue) /\ j.deferred = k.deferred \o t
      /\ j.stack = k.stack /\ j.stub = [k.stub EXCEPT ![r] = @ + 1] /\ j.answers = k.answers
      /\ j.disposed = k.disposed /\ j.wasm = k.wasm
  BY <1>2 DEF CoreType
<1>8. \A x : Awaits(j, x) = (Awaits(k, x) \/ x \in ToSet(t))
  BY <1>4, <1>7 DEF Awaits
<1>9. ~Queued(j, r) /\ \A s \in Reqs : s # r => Queued(j, s) = Queued(k, s)
  BY <1>1, <1>7 DEF Queued
<1>10. Stage(k, P, callable, r) /\ Single(k) /\ ~k.disposed
  BY <1>1 DEF Life
<1>11. j.stub[r] = k.stub[r] + 1 /\ \A s \in Reqs : s # r => j.stub[s] = k.stub[s]
  BY <1>1, <1>3, <1>7
<1>12. Stage(j, P, callable, r)
  <2>1. /\ ~Awaits(k, Tcp!Callback(r)) /\ r \notin P /\ k.stub[r] = 0 /\ k.answers[r] = 0
        /\ k.asked[r] # Tcp!NoRequest
    BY <1>1, <1>10 DEF Stage
  <2>2. j.stub[r] = 1 /\ j.answers[r] = 0 /\ j.asked[r] = k.asked[r]
    BY <1>7, <1>11, <2>1
  <2>3. Awaits(j, Tcp!Callback(r)) => j.asked[r].kind \in callable
    BY <1>1, <1>8, <2>1, <2>2
  <2> QED BY <1>9, <2>1, <2>2, <2>3 DEF Stage
<1>13. ASSUME NEW s \in Reqs, s # r PROVE Stage(j, P, callable, s)
  <2>3. Tcp!Callback(s) \notin ToSet(t)
    BY <1>13
  <2>4. Awaits(j, Tcp!Callback(s)) = Awaits(k, Tcp!Callback(s))
    BY ONLY <1>8, <2>3 DEF Awaits
  <2>1. Same(k, j, s)
    BY <1>7, <1>9, <1>11, <1>13, <2>4 DEF Same
  <2>2. Stage(k, P, callable, s)
    BY DEF Life
  <2> QED BY <2>1, <2>2, StageSame
<1>14. Single(j)
  <2>1. Distinct(j.queue)
    BY <1>1, <1>7
  <2>2. ToSet(k.deferred) \cap ToSet(t) = {}
    BY DEF Awaits
  <2>3. Distinct(j.deferred)
    BY <1>3, <1>7, <1>10, <2>2, DistinctConcat DEF Single
  <2>4. ASSUME NEW n \in DOMAIN k.stack PROVE ToSet(k.stack[n]) \cap ToSet(j.deferred) = {}
    <3>1. ToSet(k.stack[n]) \cap ToSet(t) = {}
      BY DEF Awaits
    <3>2. ToSet(k.stack[n]) \cap ToSet(k.deferred) = {}
      BY <1>10 DEF Single
    <3> QED BY <1>4, <1>7, <3>1, <3>2
  <2> QED BY <1>7, <1>10, <2>1, <2>3, <2>4 DEF Single
<1>15. Life(j, P, callable)
  BY <1>7, <1>10, <1>12, <1>13, <1>14 DEF Life
<1>16. Later(k, j)
  <2>1. Keeps(k, r)
    BY <1>1 DEF Keeps
  <2>2. \A s \in Reqs : s # r => (Keeps(j, s) => Keeps(k, s))
    BY <1>9, <1>11 DEF Keeps
  <2> QED BY <1>7, <2>1, <2>2 DEF Later
<1> QED BY <1>6, <1>7, <1>8, <1>15, <1>16

(* The array of what was deferred goes on top.                             *)
LEMMA Pushed ==
  ASSUME NEW S, NEW st \in Seq(Seq(S)), NEW d \in Seq(S), NEW u, u = <<d>> \o st
  PROVE  /\ u \in Seq(Seq(S)) /\ Len(st) \in Nat /\ DOMAIN st = 1 .. Len(st)
         /\ DOMAIN u = 1 .. Len(st) + 1 /\ u[1] = d
         /\ \A n \in 1 .. Len(st) : u[n + 1] = st[n]
<1>1. PICK s : s = <<d>>
  OBVIOUS
<1>2. s \in Seq(Seq(S)) /\ Len(s) = 1 /\ s[1] = d
  BY <1>1
<1>3. PICK A : A = Seq(S)
  OBVIOUS
<1>4. s \in Seq(A) /\ st \in Seq(A) /\ u = s \o st
  BY <1>1, <1>2, <1>3
<1>5. /\ s \o st \in Seq(A) /\ Len(st) \in Nat /\ DOMAIN st = 1 .. Len(st)
      /\ DOMAIN (s \o st) = 1 .. Len(s) + Len(st)
      /\ \A n \in 1 .. Len(s) : (s \o st)[n] = s[n]
      /\ \A n \in 1 .. Len(st) : (s \o st)[Len(s) + n] = st[n]
  BY ONLY <1>4, Joined
<1>6. /\ u \in Seq(A) /\ DOMAIN u = 1 .. 1 + Len(st) /\ u[1] = d
      /\ \A n \in 1 .. Len(st) : u[1 + n] = st[n]
  BY ONLY <1>2, <1>4, <1>5
<1> QED BY ONLY <1>3, <1>5, <1>6

(* The first callback of the innermost array is taken.                     *)
Rest(st) == IF Tail(Head(st)) = <<>> THEN Tail(st) ELSE <<Tail(Head(st))>> \o Tail(st)
IsRest(st, u) ==
  \/ /\ Tail(st[1]) = <<>> /\ DOMAIN u = 1 .. Len(st) - 1
     /\ \A n \in 1 .. Len(st) - 1 : u[n] = st[n + 1]
  \/ /\ Tail(st[1]) # <<>> /\ DOMAIN u = 1 .. Len(st) /\ u[1] = Tail(st[1])
     /\ \A n \in 2 .. Len(st) : u[n] = st[n]

LEMMA Popped ==
  ASSUME NEW S, NEW st \in Seq(Seq(S)), st # <<>>, st[1] # <<>>, NEW u, u = Rest(st)
  PROVE  /\ u \in Seq(Seq(S)) /\ Head(st) = st[1] /\ st[1] \in Seq(S) /\ Len(st) \in Nat \ {0}
         /\ DOMAIN st = 1 .. Len(st) /\ IsRest(st, u)
<1>1. PICK A : A = Seq(S)
  OBVIOUS
<1>2. st \in Seq(A)
  BY <1>1
<1>3. PICK t : t = Tail(st)
  OBVIOUS
<1>4. /\ t \in Seq(A) /\ Head(st) \in A /\ Head(st) = st[1] /\ Len(st) \in Nat \ {0}
      /\ DOMAIN st = 1 .. Len(st) /\ DOMAIN t = 1 .. Len(st) - 1
      /\ \A n \in 1 .. Len(st) - 1 : t[n] = st[n + 1]
  BY ONLY <1>2, <1>3, st # <<>>, Shortened
<1>5. CASE Tail(st[1]) = <<>>
  BY <1>1, <1>3, <1>4, <1>5 DEF Rest, IsRest
<1>6. CASE Tail(st[1]) # <<>>
  <2>1. PICK rest : rest = Tail(st[1])
    OBVIOUS
  <2>2. st[1] \in Seq(S) /\ rest \in Seq(S) /\ t \in Seq(Seq(S)) /\ u = <<rest>> \o t
    BY <1>1, <1>3, <1>4, <1>6, <2>1 DEF Rest
  <2>3. /\ u \in Seq(Seq(S)) /\ Len(t) \in Nat /\ DOMAIN t = 1 .. Len(t)
        /\ DOMAIN u = 1 .. Len(t) + 1 /\ u[1] = rest
        /\ \A n \in 1 .. Len(t) : u[n + 1] = t[n]
    BY ONLY <2>2, Pushed
  <2>4. Len(t) = Len(st) - 1
    BY <1>3, <1>4, <2>3
  <2>5. ASSUME NEW n \in 2 .. Len(st) PROVE u[n] = st[n]
    <3>1. n - 1 \in 1 .. Len(st) - 1 /\ (n - 1) + 1 = n
      BY <1>4, <2>5
    <3> QED BY <1>4, <2>3, <2>4, <3>1
  <2>6. DOMAIN u = 1 .. Len(st)
    BY <1>4, <2>3, <2>4
  <2>7. st[1] \in Seq(S) /\ Tail(st[1]) # <<>> /\ u[1] = Tail(st[1]) /\ u \in Seq(Seq(S))
    BY ONLY <1>6, <2>1, <2>2, <2>3
  <2>8. IsRest(st, u)
    BY ONLY <2>5, <2>6, <2>7 DEF IsRest
  <2> QED BY ONLY <1>4, <2>7, <2>8
<1> QED BY <1>5, <1>6

(* A call into the core returns, and what was deferred is an array.        *)
LEMMA LifeReturn ==
  ASSUME NEW kinds, NEW k \in CoreType(kinds), NEW P, NEW callable, Life(k, P, callable), k.wasm,
         NEW j, j = Tcp!Returned(k)
  PROVE  /\ j \in CoreType(kinds) /\ Life(j, P, callable) /\ Later(k, j) /\ j.disposed = k.disposed
         /\ \A x : Awaits(j, x) <=> Awaits(k, x)
<1>1. k.deferred \in Seq(Thunk) /\ k.stack \in Seq(Seq(Thunk))
  BY CoreParts
<1>2. PICK u : u = IF k.deferred = <<>> THEN k.stack ELSE <<k.deferred>> \o k.stack
  OBVIOUS
<1>3. j = [k EXCEPT !.wasm = FALSE, !.deferred = <<>>, !.stack = u]
  BY <1>2 DEF Tcp!Returned
<1>4. /\ Single(k) /\ ~k.disposed /\ \A r \in Reqs : Stage(k, P, callable, r)
  BY DEF Life
<1>5. ToSet(<<>>) = {} /\ Distinct(<<>>)
  BY DEF ToSet, Distinct
<1>6. /\ u \in Seq(Seq(Thunk))
      /\ \A x : (\E n \in DOMAIN u : x \in ToSet(u[n])) <=> Awaits(k, x)
      /\ \A n \in DOMAIN u :
           /\ u[n] # <<>> /\ Distinct(u[n])
           /\ \A m \in DOMAIN u : m # n => ToSet(u[m]) \cap ToSet(u[n]) = {}
  <2>1. CASE k.deferred = <<>>
    BY <1>1, <1>2, <1>4, <1>5, <2>1 DEF Single, Awaits
  <2>2. CASE k.deferred # <<>>
    <3>1. /\ u \in Seq(Seq(Thunk)) /\ Len(k.stack) \in Nat /\ DOMAIN k.stack = 1 .. Len(k.stack)
          /\ DOMAIN u = 1 .. Len(k.stack) + 1 /\ u[1] = k.deferred
          /\ \A n \in 1 .. Len(k.stack) : u[n + 1] = k.stack[n]
      BY <1>1, <1>2, <2>2, Pushed
    <3>2. ASSUME NEW n \in DOMAIN u, n # 1
          PROVE  n - 1 \in DOMAIN k.stack /\ u[n] = k.stack[n - 1]
      <4>1. n - 1 \in 1 .. Len(k.stack) /\ (n - 1) + 1 = n
        BY <3>1, <3>2
      <4> QED BY <3>1, <4>1
    <3>3. 1 \in DOMAIN u /\ \A n \in DOMAIN k.stack : n + 1 \in DOMAIN u /\ u[n + 1] = k.stack[n]
      BY <3>1
    <3>4. ASSUME NEW x PROVE (\E n \in DOMAIN u : x \in ToSet(u[n])) <=> Awaits(k, x)
      BY <3>1, <3>2, <3>3 DEF Awaits
    <3>5. ASSUME NEW n \in DOMAIN u
          PROVE  /\ u[n] # <<>> /\ Distinct(u[n])
                 /\ \A m \in DOMAIN u : m # n => ToSet(u[m]) \cap ToSet(u[n]) = {}
      <4>1. u[n] # <<>> /\ Distinct(u[n])
        BY <1>4, <2>2, <3>1, <3>2 DEF Single
      <4>2. ASSUME NEW m \in DOMAIN u, m # n PROVE ToSet(u[m]) \cap ToSet(u[n]) = {}
        <5>1. CASE m = 1
          BY <1>4, <3>1, <3>2, <4>2, <5>1 DEF Single
        <5>2. CASE n = 1
          BY <1>4, <3>1, <3>2, <4>2, <5>2 DEF Single
        <5>3. CASE m # 1 /\ n # 1
          <6>1. n \in Int /\ m \in Int /\ n - 1 # m - 1
            BY <3>1, <4>2
          <6>2. /\ n - 1 \in DOMAIN k.stack /\ u[n] = k.stack[n - 1]
                /\ m - 1 \in DOMAIN k.stack /\ u[m] = k.stack[m - 1]
            BY <3>2, <5>3
          <6> QED BY <1>4, <6>1, <6>2 DEF Single
        <5> QED BY <5>1, <5>2, <5>3
      <4> QED BY <4>1, <4>2
    <3> QED BY <3>1, <3>4, <3>5
  <2> QED BY <2>1, <2>2
<1>7. j \in CoreType(kinds)
  <2>1. <<>> \in Seq(Thunk)
    BY EmptySeq
  <2> QED BY <1>3, <1>6, <2>1 DEF CoreType
<1>8. /\ j.asked = k.asked /\ j.queue = k.queue /\ j.deferred = <<>> /\ j.stack = u
      /\ j.stub = k.stub /\ j.answers = k.answers /\ j.disposed = k.disposed
  BY <1>3 DEF CoreType
<1>9. ASSUME NEW x PROVE Awaits(j, x) <=> Awaits(k, x)
  BY <1>5, <1>6, <1>8 DEF Awaits
<1>10. Single(j)
  BY <1>4, <1>5, <1>6, <1>8 DEF Single
<1>11. ASSUME NEW s \in Reqs PROVE Stage(j, P, callable, s)
  <2>1. Queued(j, s) <=> Queued(k, s)
    BY <1>8 DEF Queued
  <2>2. Stage(k, P, callable, s)
    BY <1>4
  <2> QED BY <1>8, <1>9, <2>1, <2>2 DEF Stage
<1>12. Life(j, P, callable)
  BY <1>4, <1>8, <1>10, <1>11 DEF Life
<1>13. Later(k, j)
  BY <1>8 DEF Later, Keeps, Queued
<1> QED BY <1>7, <1>8, <1>9, <1>12, <1>13

(* The next callback is taken from its array: it awaits no more.           *)
LEMMA Taken ==
  ASSUME NEW kinds, NEW k \in CoreType(kinds), NEW P, NEW callable, Life(k, P, callable), Tcp!CanCall(k),
         NEW x, x = Tcp!NextCallback(k), NEW j, j = Tcp!CallbackTaken(k)
  PROVE  /\ x \in Thunk /\ Awaits(k, x) /\ j \in CoreType(kinds) /\ Single(j)
         /\ j.asked = k.asked /\ j.queue = k.queue /\ j.stub = k.stub /\ j.answers = k.answers
         /\ ~k.disposed /\ ~j.disposed
         /\ \A y : Awaits(j, y) <=> (Awaits(k, y) /\ y # x)
<1>1. k.deferred \in Seq(Thunk) /\ k.stack \in Seq(Seq(Thunk)) /\ k.stack # <<>> /\ k.ran \in [Reqs -> Nat]
  BY CoreParts DEF Tcp!CanCall
<1>2. Single(k) /\ ~k.disposed
  BY <1>1 DEF Life
<1>3. PICK u : u = Rest(k.stack)
  OBVIOUS
<1>4. /\ Len(k.stack) \in Nat \ {0} /\ DOMAIN k.stack = 1 .. Len(k.stack) /\ 1 \in DOMAIN k.stack
  <2>1. PICK A, st : A = Seq(Thunk) /\ st = k.stack
    OBVIOUS
  <2>2. st \in Seq(A) /\ st # <<>>
    BY <1>1, <2>1
  <2>3. Len(st) \in Nat \ {0} /\ DOMAIN st = 1 .. Len(st) /\ 1 \in DOMAIN st
    BY ONLY <2>2, Shortened
  <2> QED BY ONLY <2>1, <2>3
<1>5. k.stack[1] # <<>> /\ Distinct(k.stack[1])
  BY <1>2, <1>4 DEF Single
<1>6. u \in Seq(Seq(Thunk)) /\ Head(k.stack) = k.stack[1] /\ k.stack[1] \in Seq(Thunk) /\ IsRest(k.stack, u)
  <2>1. PICK st : st = k.stack
    OBVIOUS
  <2>2. st \in Seq(Seq(Thunk)) /\ st # <<>> /\ st[1] # <<>> /\ u = Rest(st)
    BY <1>1, <1>3, <1>5, <2>1
  <2>3. u \in Seq(Seq(Thunk)) /\ Head(st) = st[1] /\ st[1] \in Seq(Thunk) /\ IsRest(st, u)
    BY ONLY <2>2, Popped
  <2> QED BY ONLY <2>1, <2>3
<1>7. /\ Distinct(Tail(k.stack[1])) /\ x \notin ToSet(Tail(k.stack[1])) /\ x \in Thunk
      /\ ToSet(k.stack[1]) = {x} \cup ToSet(Tail(k.stack[1]))
  BY <1>5, <1>6, DistinctTail DEF Tcp!NextCallback
<1>8. /\ \A n \in DOMAIN k.stack : n # 1 => x \notin ToSet(k.stack[n])
      /\ x \notin ToSet(k.deferred) /\ Awaits(k, x)
  BY <1>2, <1>4, <1>7 DEF Single, Awaits
<1>9. /\ \A y : (\E n \in DOMAIN u : y \in ToSet(u[n])) <=> (\E n \in DOMAIN k.stack : y \in ToSet(k.stack[n])) /\ y # x
      /\ \A n \in DOMAIN u :
           /\ u[n] # <<>> /\ Distinct(u[n]) /\ ToSet(u[n]) \cap ToSet(k.deferred) = {}
           /\ \A m \in DOMAIN u : m # n => ToSet(u[m]) \cap ToSet(u[n]) = {}
  <2>1. CASE /\ Tail(k.stack[1]) = <<>> /\ DOMAIN u = 1 .. Len(k.stack) - 1
             /\ \A n \in 1 .. Len(k.stack) - 1 : u[n] = k.stack[n + 1]
    <3>1. \A n \in DOMAIN u : n + 1 \in DOMAIN k.stack /\ n + 1 # 1 /\ u[n] = k.stack[n + 1]
      BY <1>4, <2>1
    <3>2. ASSUME NEW n \in DOMAIN k.stack, n # 1 PROVE n - 1 \in DOMAIN u /\ u[n - 1] = k.stack[n]
      <4>1. n - 1 \in 1 .. Len(k.stack) - 1 /\ (n - 1) + 1 = n
        BY <1>4, <3>2
      <4> QED BY <2>1, <4>1
    <3>3. ToSet(k.stack[1]) = {x}
      <4>1. ToSet(<<>>) = {}
        BY DEF ToSet
      <4> QED BY <1>7, <2>1, <4>1
    <3>4. ASSUME NEW y
          PROVE  (\E n \in DOMAIN u : y \in ToSet(u[n])) <=> (\E n \in DOMAIN k.stack : y \in ToSet(k.stack[n])) /\ y # x
      BY <1>4, <1>8, <3>1, <3>2, <3>3, ZenonT(60)
    <3>5. ASSUME NEW n \in DOMAIN u
          PROVE  u[n] # <<>> /\ Distinct(u[n]) /\ ToSet(u[n]) \cap ToSet(k.deferred) = {}
      BY <1>2, <3>1 DEF Single
    <3>6. ASSUME NEW n \in DOMAIN u, NEW m \in DOMAIN u, m # n
          PROVE  ToSet(u[m]) \cap ToSet(u[n]) = {}
      <4>1. n + 1 # m + 1
        BY <2>1, <3>6
      <4> QED BY <1>2, <3>1, <4>1 DEF Single
    <3> QED BY ONLY <3>4, <3>5, <3>6
  <2>2. CASE /\ Tail(k.stack[1]) # <<>> /\ DOMAIN u = 1 .. Len(k.stack) /\ u[1] = Tail(k.stack[1])
             /\ \A n \in 2 .. Len(k.stack) : u[n] = k.stack[n]
    <3>1. /\ DOMAIN u = DOMAIN k.stack
          /\ \A n \in DOMAIN u : n # 1 => u[n] = k.stack[n]
      BY <1>4, <2>2
    <3>2. ToSet(u[1]) = ToSet(k.stack[1]) \ {x} /\ u[1] # <<>> /\ Distinct(u[1])
      BY <1>7, <2>2
    <3>3. \A n \in DOMAIN u : ToSet(u[n]) = ToSet(k.stack[n]) \ {x} /\ u[n] # <<>> /\ Distinct(u[n])
      BY <1>2, <1>8, <3>1, <3>2 DEF Single
    <3>4. ASSUME NEW y
          PROVE  (\E n \in DOMAIN u : y \in ToSet(u[n])) <=> (\E n \in DOMAIN k.stack : y \in ToSet(k.stack[n])) /\ y # x
      BY <3>1, <3>3
    <3>5. ASSUME NEW n \in DOMAIN u
          PROVE  /\ ToSet(u[n]) \cap ToSet(k.deferred) = {}
                 /\ \A m \in DOMAIN u : m # n => ToSet(u[m]) \cap ToSet(u[n]) = {}
      BY <1>2, <3>1, <3>3 DEF Single
    <3> QED BY ONLY <3>3, <3>4, <3>5
  <2> QED BY <1>6, <2>1, <2>2 DEF IsRest
<1>10. PICK k1 : k1 = [k EXCEPT !.stack = u]
  OBVIOUS
<1>11. /\ k1 \in CoreType(kinds) /\ k1.stack = u /\ k1.deferred = k.deferred /\ k1.asked = k.asked
       /\ k1.queue = k.queue /\ k1.stub = k.stub /\ k1.answers = k.answers /\ k1.ran = k.ran
       /\ k1.disposed = k.disposed
  BY <1>6, <1>10 DEF CoreType
<1>12. j = IF x.do = "request" THEN [k1 EXCEPT !.ran[x.id] = @ + 1] ELSE k1
  BY <1>3, <1>10 DEF Rest, Tcp!CallbackTaken
<1>13. x.do = "request" => x.id \in Reqs
  BY <1>7 DEF Thunk, Tcp!Callback, Tcp!ReleaseOf
<1>14. /\ j \in CoreType(kinds) /\ j.stack = u /\ j.deferred = k.deferred /\ j.asked = k.asked
       /\ j.queue = k.queue /\ j.stub = k.stub /\ j.answers = k.answers /\ j.disposed = k.disposed
  <2>1. CASE x.do = "request"
    <3>1. [k1.ran EXCEPT ![x.id] = @ + 1] \in [Reqs -> Nat]
      BY <1>1, <1>11, <1>13, <2>1
    <3>2. j = [k1 EXCEPT !.ran[x.id] = @ + 1]
      BY <1>12, <2>1
    <3> QED BY <1>11, <3>1, <3>2 DEF CoreType
  <2>2. CASE x.do # "request"
    BY <1>11, <1>12, <2>2
  <2> QED BY <2>1, <2>2
<1>15. Single(j)
  BY <1>2, <1>9, <1>14 DEF Single
<1>16. ASSUME NEW y PROVE Awaits(j, y) <=> (Awaits(k, y) /\ y # x)
  BY <1>8, <1>9, <1>14 DEF Awaits
<1> QED BY <1>2, <1>7, <1>8, <1>14, <1>15, <1>16

(* The callback of a request is taken: the device works on the request.    *)
LEMMA LifeBegun ==
  ASSUME NEW kinds, NEW k \in CoreType(kinds), NEW P, NEW callable, Life(k, P, callable), Tcp!CanCall(k),
         NEW r \in Reqs, Tcp!NextCallback(k) = Tcp!Callback(r), NEW j, j = Tcp!CallbackTaken(k)
  PROVE  /\ j \in CoreType(kinds) /\ Life(j, P \cup {r}, callable) /\ Later(k, j)
         /\ ~k.disposed /\ ~j.disposed /\ r \notin P /\ k.stub[r] = 1 /\ k.asked[r].kind \in callable
         /\ \A y : Awaits(j, y) => Awaits(k, y)
<1>1. /\ Awaits(k, Tcp!Callback(r)) /\ j \in CoreType(kinds) /\ Single(j)
      /\ j.asked = k.asked /\ j.queue = k.queue /\ j.stub = k.stub /\ j.answers = k.answers
      /\ ~k.disposed /\ ~j.disposed
      /\ \A y : Awaits(j, y) <=> (Awaits(k, y) /\ y # Tcp!Callback(r))
  BY Taken
<1>2. \A s \in Reqs : Stage(k, P, callable, s)
  BY DEF Life
<1>3. /\ r \notin P /\ k.stub[r] = 1 /\ k.answers[r] = 0 /\ k.asked[r].kind \in callable /\ ~Queued(k, r)
      /\ k.asked[r] # Tcp!NoRequest
  BY <1>1, <1>2 DEF Stage
<1>4. \A s : Queued(j, s) <=> Queued(k, s)
  BY <1>1 DEF Queued
<1>5. ~Awaits(j, Tcp!Callback(r))
  BY <1>1
<1>6. Stage(j, P \cup {r}, callable, r)
  BY <1>1, <1>3, <1>4, <1>5 DEF Stage
<1>7. ASSUME NEW s \in Reqs, s # r PROVE Stage(j, P \cup {r}, callable, s)
  <2>1. Awaits(j, Tcp!Callback(s)) <=> Awaits(k, Tcp!Callback(s))
    <3>1. Tcp!Callback(s) # Tcp!Callback(r)
      BY <1>7, Thunks
    <3> QED BY <1>1, <3>1
  <2>2. Stage(k, P, callable, s)
    BY <1>2
  <2> QED BY <1>1, <1>4, <1>7, <2>1, <2>2 DEF Stage
<1>8. Life(j, P \cup {r}, callable)
  BY <1>1, <1>6, <1>7 DEF Life
<1>9. Later(k, j)
  BY <1>1, <1>4 DEF Later, Keeps
<1> QED BY <1>1, <1>3, <1>8, <1>9

(* The callback that releases a listener's stub is taken.                  *)
LEMMA LifeReleased ==
  ASSUME NEW kinds, NEW k \in CoreType(kinds), NEW P, NEW callable, Life(k, P, callable), Tcp!CanCall(k),
         NEW l \in Nat, Tcp!NextCallback(k) = Tcp!ReleaseOf(l), NEW j, j = Tcp!CallbackTaken(k)
  PROVE  /\ j \in CoreType(kinds) /\ Life(j, P, callable) /\ Later(k, j)
         /\ ~k.disposed /\ ~j.disposed /\ Awaits(k, Tcp!ReleaseOf(l))
         /\ \A y : Awaits(j, y) => Awaits(k, y)
<1>1. /\ Awaits(k, Tcp!ReleaseOf(l)) /\ j \in CoreType(kinds) /\ Single(j)
      /\ j.asked = k.asked /\ j.queue = k.queue /\ j.stub = k.stub /\ j.answers = k.answers
      /\ ~k.disposed /\ ~j.disposed
      /\ \A y : Awaits(j, y) <=> (Awaits(k, y) /\ y # Tcp!ReleaseOf(l))
  BY Taken
<1>2. \A s : Queued(j, s) <=> Queued(k, s)
  BY <1>1 DEF Queued
<1>3. ASSUME NEW s \in Reqs PROVE Stage(j, P, callable, s)
  <2>1. Awaits(j, Tcp!Callback(s)) <=> Awaits(k, Tcp!Callback(s))
    <3>1. Tcp!Callback(s) # Tcp!ReleaseOf(l)
      BY Thunks
    <3> QED BY <1>1, <3>1
  <2>2. Stage(k, P, callable, s)
    BY DEF Life
  <2> QED BY <1>1, <1>2, <2>1, <2>2 DEF Stage
<1>4. Life(j, P, callable)
  BY <1>1, <1>3 DEF Life
<1>5. Later(k, j)
  BY <1>1, <1>2 DEF Later, Keeps
<1> QED BY <1>1, <1>4, <1>5

(* The answer of a request: its stub is released and a message is sent,    *)
(* which may run the core at once, unless it is disposed of.               *)
LEMMA LifeAnswer ==
  ASSUME NEW kinds, NEW k \in CoreType(kinds), NEW P, NEW callable, Life(k, P, callable), NEW r \in Reqs, r \in P,
         NEW j, \/ ~k.disposed /\ j = Tcp!Reply(Tcp!Release(k, r), r)
                \/ k.disposed /\ j = [Tcp!Release(k, r) EXCEPT !.answers[r] = @ + 1]
  PROVE  /\ j \in CoreType(kinds) /\ Life(j, P \ {r}, callable) /\ Later(k, j) /\ j.disposed = k.disposed
         /\ ~Queued(k, r) /\ j.stub[r] = 0
         /\ \A y : Awaits(j, y) <=> Awaits(k, y)
<1>1. /\ k.stub \in [Reqs -> Int] /\ k.answers \in [Reqs -> Nat] /\ k.eager \in BOOLEAN
      /\ k.wasm \in BOOLEAN
  BY CoreParts
<1>2. PICK st, an : st = [k.stub EXCEPT ![r] = @ - 1] /\ an = [k.answers EXCEPT ![r] = @ + 1]
  OBVIOUS
<1>3. /\ Stage(k, P, callable, r) /\ Single(k) /\ (k.disposed => ~k.wasm /\ k.stack = <<>>)
  BY DEF Life
<1>4. /\ k.stub[r] = 1 /\ k.answers[r] = 0 /\ k.asked[r].kind \in callable /\ ~Queued(k, r)
      /\ ~Awaits(k, Tcp!Callback(r)) /\ k.asked[r] # Tcp!NoRequest
  BY <1>3 DEF Stage
<1>5. /\ st \in [Reqs -> Int] /\ st[r] = 0 /\ \A s \in Reqs : s # r => st[s] = k.stub[s]
      /\ an[r] = 1 /\ \A s \in Reqs : s # r => an[s] = k.answers[s]
  BY <1>1, <1>2, <1>4
<1>6. an \in [Reqs -> Nat]
  BY <1>1, <1>2
<1>7. /\ j \in CoreType(kinds) /\ j.stub = st /\ j.answers = an /\ (k.disposed => j.wasm = k.wasm)
      /\ j.asked = k.asked /\ j.queue = k.queue /\ j.deferred = k.deferred /\ j.stack = k.stack
      /\ j.disposed = k.disposed
  <2>1. PICK k1 : k1 = Tcp!Release(k, r)
    OBVIOUS
  <2>2. k1 = [k EXCEPT !.stub = st]
    BY <1>2, <2>1 DEF Tcp!Release, CoreType
  <2>3. /\ k1 \in CoreType(kinds) /\ k1.stub = st /\ k1.answers = k.answers /\ k1.wasm = k.wasm
        /\ k1.asked = k.asked /\ k1.queue = k.queue /\ k1.deferred = k.deferred /\ k1.stack = k.stack
        /\ k1.disposed = k.disposed /\ k1.eager = k.eager
    BY <1>5, <2>2 DEF CoreType
  <2>4. PICK k2 : k2 = [k1 EXCEPT !.answers[r] = @ + 1]
    OBVIOUS
  <2>5. k2 = [k1 EXCEPT !.answers = an]
    BY <1>2, <2>3, <2>4
  <2>6. /\ k2 \in CoreType(kinds) /\ k2.stub = st /\ k2.answers = an /\ k2.wasm = k.wasm
        /\ k2.asked = k.asked /\ k2.queue = k.queue /\ k2.deferred = k.deferred /\ k2.stack = k.stack
        /\ k2.disposed = k.disposed /\ k2.eager = k.eager
    BY <1>6, <2>3, <2>5 DEF CoreType
  <2>7. CASE ~k.disposed
    <3>1. j = [k2 EXCEPT !.wasm = k2.eager]
      BY <2>1, <2>4, <2>7 DEF Tcp!Reply, Tcp!Wakeup
    <3> QED BY <1>1, <2>6, <2>7, <3>1 DEF CoreType
  <2>8. CASE k.disposed
    <3>1. j = k2
      BY <2>1, <2>4, <2>8
    <3> QED BY <2>6, <3>1
  <2> QED BY <2>7, <2>8
<1>8. /\ \A y : Awaits(j, y) <=> Awaits(k, y)
      /\ \A s : Queued(j, s) <=> Queued(k, s)
  BY <1>7 DEF Awaits, Queued
<1>9. Stage(j, P \ {r}, callable, r)
  BY <1>4, <1>5, <1>7, <1>8 DEF Stage
<1>10. ASSUME NEW s \in Reqs, s # r PROVE Stage(j, P \ {r}, callable, s)
  <2>1. Stage(k, P, callable, s)
    BY DEF Life
  <2> QED BY <1>5, <1>7, <1>8, <1>10, <2>1 DEF Stage
<1>11. Life(j, P \ {r}, callable)
  <2>1. Single(j)
    BY <1>3, <1>7 DEF Single
  <2>2. j.disposed => ~j.wasm /\ j.stack = <<>>
    BY <1>3, <1>7
  <2> QED BY <1>9, <1>10, <2>1, <2>2 DEF Life
<1>12. Later(k, j)
  <2>1. ~Keeps(j, r)
    BY <1>4, <1>5, <1>7, <1>8 DEF Keeps
  <2>2. \A s \in Reqs : s # r => (Keeps(j, s) => Keeps(k, s))
    BY <1>5, <1>7, <1>8 DEF Keeps
  <2> QED BY <1>7, <2>1, <2>2 DEF Later
<1> QED BY <1>4, <1>5, <1>7, <1>8, <1>11, <1>12

(* The device works on a request no more, and does not answer it.          *)
LEMMA LifeGivenUp ==
  ASSUME NEW k, NEW P, NEW callable, Life(k, P, callable), NEW r
  PROVE  Life(k, P \ {r}, callable)
<1>1. ASSUME NEW s \in Reqs PROVE Stage(k, P \ {r}, callable, s)
  BY DEF Life, Stage
<1> QED BY <1>1 DEF Life

(* The core runs, is woken or is disposed of.                              *)
LEMMA LifeRun ==
  ASSUME NEW kinds, NEW k \in CoreType(kinds), NEW P, NEW callable, Life(k, P, callable), ~k.disposed,
         NEW j, \/ j = Tcp!RunLoop(k) \/ j = Tcp!Wakeup(k)
                \/ Tcp!Outside(k) /\ j = [k EXCEPT !.disposed = TRUE]
  PROVE  /\ j \in CoreType(kinds) /\ Life(j, P, callable) /\ Later(k, j)
         /\ j.disposed = k.disposed \/ (j.disposed /\ j = [k EXCEPT !.disposed = TRUE])
         /\ \A y : Awaits(j, y) <=> Awaits(k, y)
<1>1. k.eager \in BOOLEAN /\ k.wasm \in BOOLEAN
  BY CoreParts
<1>2. k.disposed = FALSE
  BY DEF CoreType
<1>3. /\ j \in CoreType(kinds) /\ j.stub = k.stub /\ j.answers = k.answers /\ j.asked = k.asked
      /\ j.queue = k.queue /\ j.deferred = k.deferred /\ j.stack = k.stack
      /\ (j.disposed => ~j.wasm /\ j.stack = <<>>)
      /\ j.disposed = k.disposed \/ (j.disposed /\ j = [k EXCEPT !.disposed = TRUE])
  <2>1. CASE j = Tcp!RunLoop(k)
    <3>1. j = [k EXCEPT !.wasm = TRUE]
      BY <2>1 DEF Tcp!RunLoop
    <3> QED BY <1>2, <3>1 DEF CoreType
  <2>2. CASE j = Tcp!Wakeup(k)
    <3>1. j = [k EXCEPT !.wasm = k.eager]
      BY <2>2 DEF Tcp!Wakeup
    <3> QED BY <1>1, <1>2, <3>1 DEF CoreType
  <2>3. CASE Tcp!Outside(k) /\ j = [k EXCEPT !.disposed = TRUE]
    BY <2>3 DEF Tcp!Outside, CoreType
  <2> QED BY <2>1, <2>2, <2>3
<1>4. /\ \A y : Awaits(j, y) <=> Awaits(k, y)
      /\ \A s : Queued(j, s) <=> Queued(k, s)
  BY <1>3 DEF Awaits, Queued
<1>5. ASSUME NEW s \in Reqs PROVE Stage(j, P, callable, s)
  <2>1. Stage(k, P, callable, s)
    BY DEF Life
  <2> QED BY <1>3, <1>4, <2>1 DEF Stage
<1>6. Life(j, P, callable)
  <2>1. Single(j)
    BY <1>3 DEF Single, Life
  <2> QED BY <1>3, <1>5, <2>1 DEF Life
<1>7. Later(k, j)
  BY <1>2, <1>3, <1>4 DEF Later, Keeps
<1> QED BY <1>3, <1>4, <1>6, <1>7

(* A callback that answers at once.                                        *)
LEMMA LifeFailed ==
  ASSUME NEW kinds, NEW k \in CoreType(kinds), NEW P, NEW callable, Life(k, P, callable), Tcp!CanCall(k),
         NEW r \in Reqs, Tcp!NextCallback(k) = Tcp!Callback(r),
         NEW j, j = Tcp!Reply(Tcp!Release(Tcp!CallbackTaken(k), r), r)
  PROVE  /\ j \in CoreType(kinds) /\ Life(j, P, callable) /\ Later(k, j) /\ ~k.disposed /\ ~j.disposed
         /\ \A y : Awaits(j, y) => Awaits(k, y)
<1>1. PICK i : i = Tcp!CallbackTaken(k)
  OBVIOUS
<1>2. /\ i \in CoreType(kinds) /\ Life(i, P \cup {r}, callable) /\ Later(k, i)
      /\ ~k.disposed /\ ~i.disposed /\ r \notin P /\ \A y : Awaits(i, y) => Awaits(k, y)
  BY <1>1, LifeBegun
<1>3. j = Tcp!Reply(Tcp!Release(i, r), r)
  BY <1>1
<1>4. PICK Q : Q = P \cup {r}
  OBVIOUS
<1>5. /\ j \in CoreType(kinds) /\ Life(j, Q \ {r}, callable) /\ Later(i, j) /\ j.disposed = i.disposed
      /\ \A y : Awaits(j, y) <=> Awaits(i, y)
  BY <1>2, <1>3, <1>4, LifeAnswer
<1>6. Q \ {r} = P
  BY <1>2, <1>4
<1>7. Later(k, j)
  BY <1>2, <1>5 DEF Later
<1> QED BY <1>2, <1>5, <1>6, <1>7

(* One element of a sequence is replaced.                                  *)
LEMMA Put ==
  ASSUME NEW S, NEW s \in Seq(S), NEW n \in DOMAIN s, NEW e \in S, NEW t, t = [s EXCEPT ![n] = e]
  PROVE  /\ t \in Seq(S) /\ DOMAIN t = DOMAIN s /\ t[n] = e
         /\ \A m \in DOMAIN s : m # n => t[m] = s[m]
<1>1. DOMAIN s = 1 .. Len(s)
  BY LenProperties
<1> QED BY <1>1, ExceptSeq

-----------------------------------------------------------------------------
(***************************************************************************)
(* The TCP device.  A connection in use by a request has its capability,   *)
(* so that it was not dropped, nor disposed of before the core was.        *)
(***************************************************************************)
ConnType ==
  [cap : BOOLEAN, pairFirst : BOOLEAN, told : BOOLEAN, referenced : BOOLEAN, writing : BOOLEAN,
   reading : {"undefined", "true", "false"}, disposals : Nat]
TcpType ==
  [conns : Seq(ConnType), listeners : Seq([active : BOOLEAN, stub : Int]), leaked : Nat,
   pending : SUBSET Reqs, opens : Nat]
TcpCallable == Tcp!ConnKinds \cup {"connect", "listen"}

(* A request on connection c, of the given kind.                           *)
On(k, r, kind, c) == k.asked[r].kind = kind /\ k.asked[r].on = c

ConnFine(k, pending, conn, c) ==
  /\ \A r \in Reqs, kind \in Tcp!ConnKinds : On(k, r, kind, c) /\ Keeps(k, r) => conn.cap
  /\ conn.told = ~conn.referenced
  /\ conn.cap => conn.referenced
  /\ ~k.disposed /\ conn.referenced => conn.disposals = 0
  /\ ~k.disposed /\ ~conn.referenced /\ conn.reading = "undefined" => conn.disposals = 1
  /\ ~k.disposed /\ conn.writing => \E r \in pending : On(k, r, "write", c)
  /\ \A r \in pending : On(k, r, "write", c) => conn.writing
  /\ \A r \in pending : On(k, r, "read", c) => conn.reading = "true"
ConnsFine(k, d) ==
  /\ \A c \in DOMAIN d.conns : ConnFine(k, d.pending, d.conns[c], c)
  /\ \A r, s \in d.pending :
       k.asked[r].kind \in Tcp!ConnKinds /\ k.asked[s] = k.asked[r] => r = s
  /\ \A r \in Reqs : k.asked[r].kind \in Tcp!ConnKinds => k.asked[r].on \in DOMAIN d.conns

ListenersFine(k, d) ==
  /\ \A r \in Reqs : k.asked[r].kind = "stop" => k.asked[r].on \in DOMAIN d.listeners
  /\ \A l \in Nat : Awaits(k, Tcp!ReleaseOf(l)) => l \in DOMAIN d.listeners /\ ~d.listeners[l].active

TcpInv ==
  /\ core \in CoreType(Tcp!Kinds) /\ dev \in TcpType
  /\ Life(core, dev.pending, TcpCallable)
  /\ ConnsFine(core, dev) /\ ListenersFine(core, dev)

(* The parts of the device.                                                *)
LEMMA TcpParts ==
  ASSUME NEW d \in TcpType
  PROVE  /\ d.conns \in Seq(ConnType) /\ d.listeners \in Seq([active : BOOLEAN, stub : Int])
         /\ d.leaked \in Nat /\ d.opens \in Nat /\ d.pending \subseteq Reqs
         /\ \A c \in DOMAIN d.conns : c \in Nat /\ d.conns[c] \in ConnType
         /\ \A l \in DOMAIN d.listeners : l \in Nat /\ d.listeners[l] \in [active : BOOLEAN, stub : Int]
<1>1. /\ d.conns \in Seq(ConnType) /\ d.listeners \in Seq([active : BOOLEAN, stub : Int])
      /\ d.leaked \in Nat /\ d.opens \in Nat /\ d.pending \subseteq Reqs
  BY DEF TcpType
<1>2. PICK C, L, s, t : C = ConnType /\ L = [active : BOOLEAN, stub : Int] /\ s = d.conns /\ t = d.listeners
  OBVIOUS
<1>3. s \in Seq(C) /\ t \in Seq(L)
  BY <1>1, <1>2
<1>4. /\ \A c \in DOMAIN s : c \in Nat /\ s[c] \in C
      /\ \A l \in DOMAIN t : l \in Nat /\ t[l] \in L
  BY ONLY <1>3, LenProperties, ElementOfSeq
<1> QED BY <1>1, <1>2, <1>4

(* A connection whose requests a step leaves alone.                        *)
LEMMA ConnElse ==
  ASSUME NEW k, NEW j, NEW P, NEW Q, NEW conn, NEW c, Later(k, j), ConnFine(k, P, conn, c),
         P \subseteq Reqs, Q \subseteq Reqs,
         \A r \in Reqs : k.asked[r].kind \in Tcp!ConnKinds /\ k.asked[r].on = c =>
           (r \in Q => r \in P) /\ (r \in P /\ ~j.disposed => r \in Q)
  PROVE  ConnFine(j, Q, conn, c)
<1>1. /\ \A r \in Reqs : j.asked[r] = k.asked[r] /\ (Keeps(j, r) => Keeps(k, r))
      /\ k.disposed => j.disposed
  BY DEF Later
<1>2. \A r \in Reqs : \A kind : On(j, r, kind, c) <=> On(k, r, kind, c)
  BY <1>1 DEF On
<1>3. \A r \in Reqs, kind \in Tcp!ConnKinds :
        On(k, r, kind, c) => (r \in Q => r \in P) /\ (r \in P /\ ~j.disposed => r \in Q)
  BY DEF On
<1>4. "read" \in Tcp!ConnKinds /\ "write" \in Tcp!ConnKinds
  BY DEF Tcp!ConnKinds
<1>5. ~j.disposed /\ conn.writing => \E r \in Q : On(j, r, "write", c)
  BY <1>1, <1>2, <1>3, <1>4 DEF ConnFine
<1>6. /\ \A r \in Q : On(j, r, "write", c) => conn.writing
      /\ \A r \in Q : On(j, r, "read", c) => conn.reading = "true"
  BY <1>2, <1>3, <1>4 DEF ConnFine
<1>7. \A r \in Reqs, kind \in Tcp!ConnKinds : On(j, r, kind, c) /\ Keeps(j, r) => conn.cap
  BY <1>1, <1>2 DEF ConnFine
<1> QED BY <1>1, <1>5, <1>6, <1>7 DEF ConnFine

(* The connections, when requests of none of them come or go.              *)
LEMMA ConnsElse ==
  ASSUME NEW k, NEW j, NEW d, NEW e, Later(k, j), ConnsFine(k, d), e.conns = d.conns,
         d.pending \subseteq Reqs, e.pending \subseteq Reqs,
         \A r \in Reqs : k.asked[r].kind \in Tcp!ConnKinds =>
           (r \in e.pending => r \in d.pending) /\ (r \in d.pending /\ ~j.disposed => r \in e.pending)
  PROVE  ConnsFine(j, e)
<1>1. \A r \in Reqs : j.asked[r] = k.asked[r]
  BY DEF Later
<1>2. ASSUME NEW c \in DOMAIN e.conns PROVE ConnFine(j, e.pending, e.conns[c], c)
  <2>1. ConnFine(k, d.pending, d.conns[c], c)
    BY DEF ConnsFine
  <2>2. \A r \in Reqs : k.asked[r].kind \in Tcp!ConnKinds /\ k.asked[r].on = c =>
           (r \in e.pending => r \in d.pending) /\ (r \in d.pending /\ ~j.disposed => r \in e.pending)
    OBVIOUS
  <2> QED BY <2>1, <2>2, ConnElse
<1>3. \A r, s \in e.pending : j.asked[r].kind \in Tcp!ConnKinds /\ j.asked[s] = j.asked[r] => r = s
  BY <1>1 DEF ConnsFine
<1>4. \A r \in Reqs : j.asked[r].kind \in Tcp!ConnKinds => j.asked[r].on \in DOMAIN e.conns
  BY <1>1 DEF ConnsFine
<1> QED BY <1>2, <1>3, <1>4 DEF ConnsFine

(* The listeners, when no more of them is to be released.                  *)
LEMMA ListenersElse ==
  ASSUME NEW k, NEW j, NEW d, NEW e, Later(k, j), ListenersFine(k, d),
         DOMAIN d.listeners \subseteq DOMAIN e.listeners,
         \A l \in DOMAIN d.listeners : ~d.listeners[l].active => ~e.listeners[l].active,
         \A y : Awaits(j, y) => Awaits(k, y)
  PROVE  ListenersFine(j, e)
<1>1. \A r \in Reqs : j.asked[r] = k.asked[r]
  BY DEF Later
<1> QED BY <1>1 DEF ListenersFine

(* A request the device works on keeps its connection.                     *)
LEMMA TcpWorks ==
  ASSUME NEW k, NEW P, NEW callable, Life(k, P, callable), NEW r \in Reqs, r \in P
  PROVE  Keeps(k, r) /\ k.stub[r] = 1
<1>1. k.stub[r] = 1
  BY DEF Life, Stage
<1> QED BY <1>1 DEF Keeps

(* A connection is accepted or made.                                       *)
LEMMA TcpRegister ==
  ASSUME NEW k, NEW j, NEW d \in TcpType, NEW first \in BOOLEAN, Later(k, j), ConnsFine(k, d),
         NEW e, e = Tcp!Register(d, first)
  PROVE  /\ e \in TcpType /\ ConnsFine(j, e) /\ e.listeners = d.listeners /\ e.pending = d.pending
<1>1. PICK conn : conn = Tcp!NewConn(first)
  OBVIOUS
<1>2. /\ conn \in ConnType /\ conn.cap /\ conn.referenced /\ conn.told = FALSE /\ conn.writing = FALSE
      /\ conn.disposals = 0 /\ conn.reading = "undefined"
  BY <1>1 DEF Tcp!NewConn, ConnType
<1>3. PICK cs, C : cs = d.conns /\ C = ConnType
  OBVIOUS
<1>4. cs \in Seq(C) /\ conn \in C
  BY <1>2, <1>3, TcpParts
<1>5. /\ Append(cs, conn) \in Seq(C) /\ Len(cs) \in Nat
      /\ DOMAIN cs = 1 .. Len(cs) /\ DOMAIN Append(cs, conn) = 1 .. Len(cs) + 1
      /\ \A n \in 1 .. Len(cs) : Append(cs, conn)[n] = cs[n]
      /\ Append(cs, conn)[Len(cs) + 1] = conn
  BY ONLY <1>4, Added
<1>6. PICK new : new = Append(cs, conn)
  OBVIOUS
<1>7. e = [d EXCEPT !.conns = new]
  BY <1>1, <1>3, <1>6 DEF Tcp!Register
<1>8. /\ e \in TcpType /\ e.conns = new /\ e.pending = d.pending /\ e.listeners = d.listeners
  BY <1>3, <1>5, <1>6, <1>7 DEF TcpType
<1>9. \A r \in Reqs : j.asked[r] = k.asked[r]
  BY DEF Later
<1>10. d.pending \subseteq Reqs
  BY TcpParts
<1>11. ASSUME NEW c \in DOMAIN e.conns PROVE ConnFine(j, e.pending, e.conns[c], c)
  <2>1. CASE c \in DOMAIN d.conns
    <3>1. e.conns[c] = d.conns[c]
      BY <1>3, <1>5, <1>6, <1>8, <2>1
    <3>2. ConnFine(k, d.pending, d.conns[c], c)
      BY <2>1 DEF ConnsFine
    <3> QED BY <1>8, <1>10, <3>1, <3>2, ConnElse
  <2>2. CASE c \notin DOMAIN d.conns
    <3>1. e.conns[c] = conn
      BY <1>3, <1>5, <1>6, <1>8, <2>2
    <3>2. \A r \in Reqs, kind \in Tcp!ConnKinds : ~On(j, r, kind, c)
      BY <1>9, <2>2 DEF ConnsFine, On
    <3>3. "read" \in Tcp!ConnKinds /\ "write" \in Tcp!ConnKinds
      BY DEF Tcp!ConnKinds
    <3> QED BY <1>2, <1>8, <1>10, <3>1, <3>2, <3>3 DEF ConnFine
  <2> QED BY <2>1, <2>2
<1>12. \A r, s \in e.pending : j.asked[r].kind \in Tcp!ConnKinds /\ j.asked[s] = j.asked[r] => r = s
  BY <1>8, <1>9, <1>10 DEF ConnsFine
<1>13. \A r \in Reqs : j.asked[r].kind \in Tcp!ConnKinds => j.asked[r].on \in DOMAIN e.conns
  BY <1>3, <1>5, <1>6, <1>8, <1>9 DEF ConnsFine
<1> QED BY <1>8, <1>11, <1>12, <1>13 DEF ConnsFine

LEMMA TcpInit == Tcp!Init => TcpInv
<1> SUFFICES ASSUME Tcp!Init PROVE TcpInv
  OBVIOUS
<1>1. PICK eager \in BOOLEAN : core = Tcp!NewCore(eager)
  BY DEF Tcp!Init
<1>2. /\ core \in CoreType(Tcp!Kinds) /\ Life(core, {}, TcpCallable)
      /\ \A r \in Reqs : core.asked[r] = Tcp!NoRequest
      /\ \A x : ~Awaits(core, x)
  BY <1>1, CoreNew
<1>3. dev = [conns |-> <<>>, listeners |-> <<>>, leaked |-> 0, pending |-> {}, opens |-> 0]
  BY DEF Tcp!Init
<1>4. dev \in TcpType /\ dev.conns = <<>> /\ dev.pending = {}
  BY <1>3 DEF TcpType
<1>5. \A r \in Reqs : core.asked[r].kind = "none"
  BY <1>2 DEF Tcp!NoRequest
<1>6. ConnsFine(core, dev) /\ ListenersFine(core, dev)
  BY <1>2, <1>4, <1>5 DEF ConnsFine, ListenersFine, Tcp!ConnKinds
<1> QED BY <1>2, <1>4, <1>6 DEF TcpInv

(* An actor makes a request, of a connection whose capability it holds.    *)
LEMMA TcpAsk ==
  ASSUME TcpInv, NEW r \in Reqs, Tcp!Ask(r)
  PROVE  TcpInv'
<1>1. PICK q \in      [kind : {"connect", "listen", "bad"}, on : {0}]
                 \cup [kind : Tcp!ConnKinds, on : {c \in DOMAIN dev.conns : dev.conns[c].cap}]
                 \cup [kind : {"stop"}, on : DOMAIN dev.listeners] :
        core' = Tcp!Asked(core, r, q)
  BY DEF Tcp!Ask
<1>2. dev' = dev /\ Tcp!CanAsk(core, r)
  BY DEF Tcp!Ask
<1>3. /\ core \in CoreType(Tcp!Kinds) /\ dev \in TcpType /\ Life(core, dev.pending, TcpCallable)
      /\ ConnsFine(core, dev) /\ ListenersFine(core, dev)
  BY DEF TcpInv
<1>4. dev.pending \subseteq Reqs
  BY <1>3, TcpParts
<1>5. /\ q \in [kind : Tcp!Kinds \cup {"none"}, on : Nat] /\ q.kind # "none"
      /\ q.kind \in Tcp!ConnKinds => q.on \in DOMAIN dev.conns /\ dev.conns[q.on].cap
      /\ q.kind = "stop" => q.on \in DOMAIN dev.listeners
  BY <1>3, TcpParts DEF Tcp!Kinds, Tcp!ConnKinds
<1>6. /\ core' \in CoreType(Tcp!Kinds) /\ Life(core', dev.pending, TcpCallable)
      /\ core'.disposed = core.disposed /\ r \notin dev.pending /\ core'.asked[r] = q /\ ~Keeps(core, r)
      /\ \A s \in Reqs : s # r => core'.asked[s] = core.asked[s] /\ Keeps(core', s) = Keeps(core, s)
      /\ \A x : Awaits(core', x) = Awaits(core, x)
  BY <1>1, <1>2, <1>3, <1>4, <1>5, LifeAsk
<1>7. \A s \in Reqs : \A kind, c : s # r => (On(core', s, kind, c) <=> On(core, s, kind, c))
  BY <1>6 DEF On
<1>8. ASSUME NEW c \in DOMAIN dev.conns PROVE ConnFine(core', dev.pending, dev.conns[c], c)
  <2>1. ConnFine(core, dev.pending, dev.conns[c], c)
    BY <1>3 DEF ConnsFine
  <2>2. ASSUME NEW s \in Reqs, NEW kind \in Tcp!ConnKinds, On(core', s, kind, c), Keeps(core', s)
        PROVE  dev.conns[c].cap
    <3>1. CASE s = r
      BY <1>5, <1>6, <2>2, <3>1 DEF On
    <3>2. CASE s # r
      BY <1>6, <1>7, <2>1, <2>2, <3>2 DEF ConnFine
    <3> QED BY <3>1, <3>2
  <2>3. \A s \in dev.pending : \A kind : On(core', s, kind, c) <=> On(core, s, kind, c)
    BY <1>4, <1>6, <1>7
  <2> QED BY <1>6, <2>1, <2>2, <2>3 DEF ConnFine
<1>9. \A s, t \in dev.pending : core'.asked[s].kind \in Tcp!ConnKinds /\ core'.asked[t] = core'.asked[s] => s = t
  BY <1>3, <1>4, <1>6 DEF ConnsFine
<1>10. \A s \in Reqs : core'.asked[s].kind \in Tcp!ConnKinds => core'.asked[s].on \in DOMAIN dev.conns
  BY <1>3, <1>5, <1>6 DEF ConnsFine
<1>11. ConnsFine(core', dev')
  BY <1>2, <1>8, <1>9, <1>10 DEF ConnsFine
<1>12. ListenersFine(core', dev')
  BY <1>2, <1>3, <1>5, <1>6 DEF ListenersFine
<1> QED BY <1>2, <1>3, <1>6, <1>11, <1>12 DEF TcpInv

(* The device takes an event.                                              *)
LEMMA TcpHandle ==
  ASSUME TcpInv, Tcp!Handle
  PROVE  TcpInv'
<1>1. PICK r, q : r = Tcp!Next1(core) /\ q = core.asked[r]
  OBVIOUS
<1>2. core.wasm /\ core.queue # <<>>
  BY DEF Tcp!Handle, Tcp!CanHandle
<1>3. /\ core \in CoreType(Tcp!Kinds) /\ dev \in TcpType /\ Life(core, dev.pending, TcpCallable)
      /\ ConnsFine(core, dev) /\ ListenersFine(core, dev)
  BY DEF TcpInv
<1>4. dev.pending \subseteq Reqs
  BY <1>3, TcpParts
<1>5. r \in Reqs /\ Queued(core, r)
  BY <1>1, <1>2, <1>3, Dequeued
<1>6. q.kind \in Tcp!Kinds /\ ~Awaits(core, Tcp!Callback(r))
  <2>1. Stage(core, dev.pending, TcpCallable, r)
    BY <1>3, <1>5 DEF Life
  <2>2. q \in [kind : Tcp!Kinds \cup {"none"}, on : Nat]
    BY <1>1, <1>3, <1>5, CoreParts
  <2> QED BY <1>1, <1>5, <2>1, <2>2 DEF Stage
<1>7. ASSUME dev' = dev, core' \in CoreType(Tcp!Kinds), Life(core', dev.pending, TcpCallable), Later(core, core'),
             \A l \in Nat : Awaits(core', Tcp!ReleaseOf(l)) <=> Awaits(core, Tcp!ReleaseOf(l))
      PROVE  TcpInv'
  <2>1. ConnsFine(core', dev')
    BY <1>3, <1>4, <1>7, ConnsElse
  <2>2. ListenersFine(core', dev')
    BY <1>3, <1>7 DEF ListenersFine, Later
  <2> QED BY <1>3, <1>7, <2>1, <2>2 DEF TcpInv
<1>8. CASE q.kind = "bad"
  <2>1. core' = Tcp!Rejected(core) /\ dev' = dev
    BY <1>1, <1>8 DEF Tcp!Handle
  <2>2. /\ core' \in CoreType(Tcp!Kinds) /\ Life(core', dev.pending, TcpCallable) /\ Later(core, core')
        /\ \A x : Awaits(core', x) = Awaits(core, x)
    BY <1>1, <1>2, <1>3, <2>1, LifeReject
  <2> QED BY <1>7, <2>1, <2>2
<1>9. CASE q.kind = "stop" /\ ~dev.listeners[q.on].active
  <2>1. PICK t : t = <<>>
    OBVIOUS
  <2>2. core' = Tcp!Accepted(core, t) /\ dev' = dev
    BY <1>1, <1>9, <2>1 DEF Tcp!Handle
  <2>3. t \in Seq(Thunk) /\ ToSet(t) = {} /\ Distinct(t)
    BY <1>5, <2>1, Thunks, OneThunk
  <2>4. /\ core' \in CoreType(Tcp!Kinds) /\ Life(core', dev.pending, TcpCallable) /\ Later(core, core')
        /\ \A x : Awaits(core', x) = (Awaits(core, x) \/ x \in ToSet(t))
    BY <1>1, <1>2, <1>3, <2>2, <2>3, LifeAccept
  <2>5. \A x : Awaits(core', x) <=> Awaits(core, x)
    BY <2>3, <2>4 DEF Awaits
  <2> QED BY <1>7, <2>2, <2>4, <2>5
<1>10. CASE q.kind = "stop" /\ dev.listeners[q.on].active
  <2>1. PICK x, t : x = Tcp!ReleaseOf(q.on) /\ t = <<x>>
    OBVIOUS
  <2>2. core' = Tcp!Accepted(core, t) /\ dev' = [dev EXCEPT !.listeners[q.on].active = FALSE]
    BY <1>1, <1>10, <2>1 DEF Tcp!Handle
  <2>3. q.on \in DOMAIN dev.listeners /\ q.on \in Nat
    BY <1>1, <1>3, <1>5, <1>10, TcpParts DEF ListenersFine
  <2>4. x \in Thunk /\ x.do = "release" /\ x.id = q.on
    BY <2>1, <2>3, Thunks
  <2>5. t \in Seq(Thunk) /\ ToSet(t) = {x} /\ Distinct(t)
    BY <2>1, <2>4, OneThunk
  <2>6. \A s \in Reqs : Tcp!Callback(s) \notin ToSet(t)
    BY <2>4, <2>5, Thunks
  <2>7. ~Awaits(core, x)
    BY <1>3, <1>10, <2>1, <2>3 DEF ListenersFine
  <2>8. /\ core' \in CoreType(Tcp!Kinds) /\ Life(core', dev.pending, TcpCallable) /\ Later(core, core')
        /\ \A y : Awaits(core', y) = (Awaits(core, y) \/ y \in ToSet(t))
    BY <1>1, <1>2, <1>3, <2>2, <2>5, <2>6, <2>7, LifeAccept
  <2>9. PICK new : new = [dev.listeners EXCEPT ![q.on].active = FALSE]
    OBVIOUS
  <2>10. /\ new \in Seq([active : BOOLEAN, stub : Int]) /\ DOMAIN new = DOMAIN dev.listeners
         /\ new[q.on].active = FALSE /\ \A l \in DOMAIN new : l # q.on => new[l] = dev.listeners[l]
    <3>1. PICK L, s : L = [active : BOOLEAN, stub : Int] /\ s = dev.listeners
      OBVIOUS
    <3>2. PICK e : e = [dev.listeners[q.on] EXCEPT !.active = FALSE]
      OBVIOUS
    <3>3. e \in L /\ e.active = FALSE
      BY <1>3, <2>3, <3>1, <3>2, TcpParts
    <3>4. s \in Seq(L) /\ q.on \in DOMAIN s /\ new = [s EXCEPT ![q.on] = e]
      BY <1>3, <2>3, <2>9, <3>1, <3>2, TcpParts
    <3>5. new \in Seq(L) /\ DOMAIN new = DOMAIN s /\ new[q.on] = e /\ \A l \in DOMAIN s : l # q.on => new[l] = s[l]
      <4>1. DOMAIN s = 1 .. Len(s)
        BY <3>4, LenProperties
      <4> QED BY <3>3, <3>4, <4>1, ExceptSeq
    <3> QED BY <3>1, <3>3, <3>5
  <2>11. dev' = [dev EXCEPT !.listeners = new]
    BY <1>3, <2>2, <2>9 DEF TcpType
  <2>12. dev' \in TcpType /\ dev'.conns = dev.conns /\ dev'.pending = dev.pending /\ dev'.listeners = new
    BY <1>3, <2>10, <2>11 DEF TcpType
  <2>13. ConnsFine(core', dev')
    BY <1>3, <1>4, <2>8, <2>12, ConnsElse
  <2>14. ASSUME NEW l \in Nat, Awaits(core', Tcp!ReleaseOf(l))
         PROVE  l \in DOMAIN new /\ ~new[l].active
    <3>1. CASE l = q.on
      BY <2>3, <2>10, <3>1
    <3>2. CASE l # q.on
      <4>1. Tcp!ReleaseOf(l) # x
        BY <2>4, <3>2, Thunks
      <4>2. Awaits(core, Tcp!ReleaseOf(l))
        BY <2>5, <2>8, <2>14, <4>1
      <4> QED BY <1>3, <2>10, <3>2, <4>2 DEF ListenersFine
    <3> QED BY <3>1, <3>2
  <2>15. ListenersFine(core', dev')
    <3>1. \A s \in Reqs : core'.asked[s] = core.asked[s]
      BY <2>8 DEF Later
    <3> QED BY <1>3, <2>10, <2>12, <2>14, <3>1 DEF ListenersFine
  <2> QED BY <2>8, <2>12, <2>13, <2>15 DEF TcpInv
<1>11. CASE q.kind \notin {"bad", "stop"}
  <2>1. PICK x, t : x = Tcp!Callback(r) /\ t = <<x>>
    OBVIOUS
  <2>2. core' = Tcp!Accepted(core, t) /\ dev' = dev
    BY <1>1, <1>11, <2>1 DEF Tcp!Handle
  <2>3. x \in Thunk /\ x.do = "request" /\ x.id = r
    BY <1>5, <2>1, Thunks
  <2>4. t \in Seq(Thunk) /\ ToSet(t) = {x} /\ Distinct(t)
    BY <2>1, <2>3, OneThunk
  <2>5. q.kind \in TcpCallable
    BY <1>6, <1>11 DEF TcpCallable, Tcp!Kinds
  <2>6. \A s \in Reqs : Tcp!Callback(s) \in ToSet(t) => s = r /\ core.asked[r].kind \in TcpCallable
    BY <1>1, <2>3, <2>4, <2>5, Thunks
  <2>9. \A y \in ToSet(t) : ~Awaits(core, y)
    BY <1>6, <2>1, <2>4
  <2>7. /\ core' \in CoreType(Tcp!Kinds) /\ Life(core', dev.pending, TcpCallable) /\ Later(core, core')
        /\ \A y : Awaits(core', y) = (Awaits(core, y) \/ y \in ToSet(t))
    BY <1>1, <1>2, <1>3, <2>2, <2>4, <2>6, <2>9, LifeAccept
  <2>8. ASSUME NEW l \in Nat PROVE Awaits(core', Tcp!ReleaseOf(l)) <=> Awaits(core, Tcp!ReleaseOf(l))
    <3>1. Tcp!ReleaseOf(l) # x
      BY <2>3, Thunks
    <3> QED BY <2>4, <2>7, <3>1 DEF Awaits
  <2> QED BY <1>7, <2>2, <2>7, <2>8
<1> QED BY <1>6, <1>8, <1>9, <1>10, <1>11

(* One connection changes, and the requests of it that are worked on.      *)
LEMMA ConnsPut ==
  ASSUME NEW k, NEW j, NEW d, NEW e, Later(k, j), ConnsFine(k, d), NEW c \in DOMAIN d.conns,
         DOMAIN e.conns = DOMAIN d.conns, \A b \in DOMAIN d.conns : b # c => e.conns[b] = d.conns[b],
         ConnFine(j, e.pending, e.conns[c], c), d.pending \subseteq Reqs, e.pending \subseteq Reqs,
         \A r \in Reqs : k.asked[r].kind \in Tcp!ConnKinds /\ k.asked[r].on # c =>
           (r \in e.pending => r \in d.pending) /\ (r \in d.pending /\ ~j.disposed => r \in e.pending),
         \A r, s \in e.pending : k.asked[r].kind \in Tcp!ConnKinds /\ k.asked[s] = k.asked[r] => r = s
  PROVE  ConnsFine(j, e)
<1>1. \A r \in Reqs : j.asked[r] = k.asked[r]
  BY DEF Later
<1>2. ASSUME NEW b \in DOMAIN e.conns PROVE ConnFine(j, e.pending, e.conns[b], b)
  <2>1. CASE b = c
    BY <2>1
  <2>2. CASE b # c
    <3>1. ConnFine(k, d.pending, d.conns[b], b) /\ e.conns[b] = d.conns[b]
      BY <2>2 DEF ConnsFine
    <3>2. \A r \in Reqs : k.asked[r].kind \in Tcp!ConnKinds /\ k.asked[r].on = b =>
             (r \in e.pending => r \in d.pending) /\ (r \in d.pending /\ ~j.disposed => r \in e.pending)
      BY <2>2
    <3> QED BY <3>1, <3>2, ConnElse
  <2> QED BY <2>1, <2>2
<1>3. \A r, s \in e.pending : j.asked[r].kind \in Tcp!ConnKinds /\ j.asked[s] = j.asked[r] => r = s
  BY <1>1
<1>4. \A r \in Reqs : j.asked[r].kind \in Tcp!ConnKinds => j.asked[r].on \in DOMAIN e.conns
  BY <1>1 DEF ConnsFine
<1> QED BY <1>2, <1>3, <1>4 DEF ConnsFine

(* The transport begins to read or to write a connection nobody else reads *)
(* or writes: the request keeps the capability, so that the connection is  *)
(* not disposed of.                                                        *)
LEMMA TcpStart ==
  ASSUME TcpInv, Tcp!CanCall(core), NEW r \in Reqs, Tcp!NextCallback(core) = Tcp!Callback(r),
         NEW q, q = core.asked[r], q.kind \in Tcp!ConnKinds, ~Tcp!Busy(q),
         core' = Tcp!CallbackTaken(core), dev' = Tcp!StartOn(q, r)
  PROVE  TcpInv'
<1>1. /\ core \in CoreType(Tcp!Kinds) /\ dev \in TcpType /\ Life(core, dev.pending, TcpCallable)
      /\ ConnsFine(core, dev) /\ ListenersFine(core, dev)
  BY DEF TcpInv
<1>2. /\ core' \in CoreType(Tcp!Kinds) /\ Life(core', dev.pending \cup {r}, TcpCallable) /\ Later(core, core')
      /\ ~core.disposed /\ ~core'.disposed /\ r \notin dev.pending /\ core.stub[r] = 1
      /\ \A y : Awaits(core', y) => Awaits(core, y)
  <2>1. PICK K : K = Tcp!Kinds
    OBVIOUS
  <2>2. core \in CoreType(K) /\ Life(core, dev.pending, TcpCallable)
    BY <1>1, <2>1
  <2>3. /\ core' \in CoreType(K) /\ Life(core', dev.pending \cup {r}, TcpCallable) /\ Later(core, core')
        /\ ~core.disposed /\ ~core'.disposed /\ r \notin dev.pending /\ core.stub[r] = 1
        /\ \A y : Awaits(core', y) => Awaits(core, y)
    BY <2>2, LifeBegun
  <2> QED BY <2>1, <2>3
<1>3. PICK c, conn : c = q.on /\ conn = dev.conns[c]
  OBVIOUS
<1>4. c \in DOMAIN dev.conns /\ conn \in ConnType /\ dev.pending \subseteq Reqs
  BY <1>1, <1>3, TcpParts DEF ConnsFine
<1>5. ConnFine(core, dev.pending, conn, c) /\ On(core, r, q.kind, c) /\ Keeps(core, r)
  BY <1>1, <1>2, <1>3, <1>4 DEF ConnsFine, On, Keeps
<1>6. conn.cap /\ conn.referenced /\ conn.disposals = 0 /\ conn.told = FALSE
  BY <1>2, <1>4, <1>5 DEF ConnFine, ConnType
<1>7. PICK new : new = IF q.kind = "read" THEN [conn EXCEPT !.reading = "true"] ELSE [conn EXCEPT !.writing = TRUE]
  OBVIOUS
<1>8. /\ new \in ConnType /\ new.cap = conn.cap /\ new.referenced = conn.referenced /\ new.told = conn.told
      /\ new.disposals = conn.disposals
      /\ new.reading = (IF q.kind = "read" THEN "true" ELSE conn.reading)
      /\ new.writing = (IF q.kind = "read" THEN conn.writing ELSE TRUE)
  BY <1>4, <1>7 DEF ConnType
<1>9. PICK cs, P : cs = [dev.conns EXCEPT ![c] = new] /\ P = dev.pending \cup {r}
  OBVIOUS
<1>10. /\ cs \in Seq(ConnType) /\ DOMAIN cs = DOMAIN dev.conns /\ cs[c] = new
       /\ \A b \in DOMAIN dev.conns : b # c => cs[b] = dev.conns[b]
  <2>1. PICK C, s : C = ConnType /\ s = dev.conns
    OBVIOUS
  <2>2. s \in Seq(C) /\ c \in DOMAIN s /\ new \in C /\ cs = [s EXCEPT ![c] = new]
    BY <1>1, <1>4, <1>8, <1>9, <2>1, TcpParts
  <2>3. cs \in Seq(C) /\ DOMAIN cs = DOMAIN s /\ cs[c] = new /\ \A b \in DOMAIN s : b # c => cs[b] = s[b]
    BY ONLY <2>2, Put
  <2> QED BY <2>1, <2>3
<1>11. dev' = [dev EXCEPT !.conns = cs, !.pending = P]
  BY <1>1, <1>3, <1>7, <1>9 DEF Tcp!StartOn, TcpType
<1>12. P \subseteq Reqs
  BY <1>4, <1>9
<1>13. dev' \in TcpType /\ dev'.conns = cs /\ dev'.pending = P /\ dev'.listeners = dev.listeners
  BY <1>1, <1>10, <1>11, <1>12 DEF TcpType
<1>14. \A s \in dev.pending : ~On(core, s, q.kind, c)
  <2>1. q.kind = "read" \/ q.kind = "write"
    BY DEF Tcp!ConnKinds
  <2> QED BY <1>3, <1>5, <2>1 DEF Tcp!Busy, ConnFine
<1>15. ConnFine(core', P, new, c)
  <2>1. \A s \in Reqs : \A kind : On(core', s, kind, c) <=> On(core, s, kind, c)
    BY <1>2 DEF On, Later
  <2>2. \A s \in P : \A kind : On(core', s, kind, c) <=> On(core, s, kind, c)
    BY <1>12, <2>1
  <2>3. new.writing => \E s \in P : On(core', s, "write", c)
    <3>1. CASE q.kind = "read"
      BY <1>2, <1>5, <1>8, <1>9, <2>2, <3>1 DEF ConnFine
    <3>2. CASE q.kind # "read"
      BY <1>5, <1>9, <2>2, <3>2 DEF Tcp!ConnKinds
    <3> QED BY <3>1, <3>2
  <2>4. ASSUME NEW s \in P, On(core', s, "write", c) PROVE new.writing
    <3>1. On(core, s, "write", c)
      BY <2>2, <2>4
    <3>2. CASE q.kind = "read"
      <4>1. s # r
        BY <3>1, <3>2 DEF On
      <4> QED BY <1>5, <1>8, <1>9, <3>1, <3>2, <4>1 DEF ConnFine
    <3>3. CASE q.kind # "read"
      BY <1>8, <3>3
    <3> QED BY <3>2, <3>3
  <2>5. ASSUME NEW s \in P, On(core', s, "read", c) PROVE new.reading = "true"
    <3>1. On(core, s, "read", c)
      BY <2>2, <2>5
    <3>2. CASE q.kind = "read"
      BY <1>8, <3>2
    <3>3. CASE q.kind # "read"
      <4>1. s # r
        BY <3>1, <3>3 DEF On
      <4> QED BY <1>5, <1>8, <1>9, <3>1, <3>3, <4>1 DEF ConnFine
    <3> QED BY <3>2, <3>3
  <2> QED BY <1>6, <1>8, <2>3, <2>4, <2>5 DEF ConnFine
<1>16. ConnsFine(core', dev')
  <2>1. \A s \in Reqs : core.asked[s].kind \in Tcp!ConnKinds /\ core.asked[s].on # c =>
          (s \in P => s \in dev.pending) /\ (s \in dev.pending => s \in P)
    BY <1>3, <1>9
  <2>2. \A s, t \in P : core.asked[s].kind \in Tcp!ConnKinds /\ core.asked[t] = core.asked[s] => s = t
    <3>1. \A s \in dev.pending : core.asked[s] # core.asked[r]
      BY <1>3, <1>14 DEF On
    <3> QED BY <1>1, <1>9, <3>1 DEF ConnsFine
  <2> QED BY <1>1, <1>2, <1>4, <1>10, <1>12, <1>13, <1>15, <2>1, <2>2, ConnsPut
<1>17. ListenersFine(core', dev')
  BY <1>1, <1>2, <1>13, ListenersElse
<1> QED BY <1>2, <1>9, <1>13, <1>16, <1>17 DEF TcpInv

(* A listener begins.                                                      *)
LEMMA TcpListen ==
  ASSUME TcpInv, NEW k, k \in CoreType(Tcp!Kinds), Life(k, dev.pending, TcpCallable), Later(core, k),
         \A y : Awaits(k, y) => Awaits(core, y), core' = k,
         \/ dev' = [dev EXCEPT !.listeners = Append(@, [active |-> TRUE, stub |-> 1])]
         \/ dev' = [dev EXCEPT !.leaked = @ + 1]
         \/ dev' = dev
  PROVE  TcpInv'
<1>1. dev \in TcpType /\ ConnsFine(core, dev) /\ ListenersFine(core, dev)
  BY DEF TcpInv
<1>2. dev.listeners \in Seq([active : BOOLEAN, stub : Int]) /\ dev.leaked \in Nat /\ dev.pending \subseteq Reqs
  BY <1>1, TcpParts
<1>3. PICK L, s, e, t : /\ L = [active : BOOLEAN, stub : Int] /\ s = dev.listeners
                        /\ e = [active |-> TRUE, stub |-> 1] /\ t = Append(s, e)
  OBVIOUS
<1>4. s \in Seq(L) /\ e \in L
  BY <1>2, <1>3
<1>5. t \in Seq(L) /\ DOMAIN s \subseteq DOMAIN t /\ \A l \in DOMAIN s : t[l] = s[l]
  <2>1. /\ Append(s, e) \in Seq(L) /\ Len(s) \in Nat
        /\ DOMAIN s = 1 .. Len(s) /\ DOMAIN Append(s, e) = 1 .. Len(s) + 1
        /\ \A n \in 1 .. Len(s) : Append(s, e)[n] = s[n]
    BY ONLY <1>4, Added
  <2> QED BY <1>3, <2>1
<1>6. /\ dev' \in TcpType /\ dev'.conns = dev.conns /\ dev'.pending = dev.pending
      /\ dev'.listeners = s \/ dev'.listeners = t
  <2>1. CASE dev' = [dev EXCEPT !.listeners = Append(@, [active |-> TRUE, stub |-> 1])]
    <3>1. dev' = [dev EXCEPT !.listeners = t]
      BY <1>3, <2>1
    <3> QED BY <1>1, <1>3, <1>5, <3>1 DEF TcpType
  <2>2. CASE dev' = [dev EXCEPT !.leaked = @ + 1]
    <3>3. PICK n : n = dev.leaked + 1
      OBVIOUS
    <3>4. n \in Nat
      BY ONLY <1>2, <3>3
    <3>1. n \in Nat /\ dev' = [dev EXCEPT !.leaked = n]
      BY ONLY <2>2, <3>3, <3>4, Zenon
    <3>2. dev' \in TcpType /\ dev'.conns = dev.conns /\ dev'.pending = dev.pending /\ dev'.listeners = dev.listeners
      BY <1>1, <3>1 DEF TcpType
    <3> QED BY <1>3, <3>2
  <2>3. CASE dev' = dev
    BY <1>1, <1>3, <2>3
  <2> QED BY <2>1, <2>2, <2>3
<1>7. ConnsFine(core', dev')
  BY <1>1, <1>2, <1>6, ConnsElse
<1>8. ListenersFine(core', dev')
  <2>1. /\ DOMAIN dev.listeners \subseteq DOMAIN dev'.listeners
        /\ \A l \in DOMAIN dev.listeners : ~dev.listeners[l].active => ~dev'.listeners[l].active
    BY <1>3, <1>5, <1>6
  <2>2. Later(core, core') /\ \A y : Awaits(core', y) => Awaits(core, y)
    OBVIOUS
  <2> QED BY <1>1, <2>1, <2>2, ListenersElse
<1> QED BY <1>6, <1>7, <1>8 DEF TcpInv

(* A listener's stub is released.                                          *)
LEMMA TcpRelease ==
  ASSUME TcpInv, Tcp!CanCall(core), NEW l \in Nat, Tcp!NextCallback(core) = Tcp!ReleaseOf(l),
         core' = Tcp!CallbackTaken(core), dev' = [dev EXCEPT !.listeners[l].stub = @ - 1]
  PROVE  TcpInv'
<1>1. /\ core \in CoreType(Tcp!Kinds) /\ dev \in TcpType /\ Life(core, dev.pending, TcpCallable)
      /\ ConnsFine(core, dev) /\ ListenersFine(core, dev)
  BY DEF TcpInv
<1>2. PICK K, P : K = Tcp!Kinds /\ P = dev.pending
  OBVIOUS
<1>3. core \in CoreType(K) /\ Life(core, P, TcpCallable)
  BY <1>1, <1>2
<1>4. /\ core' \in CoreType(K) /\ Life(core', P, TcpCallable) /\ Later(core, core')
      /\ Awaits(core, Tcp!ReleaseOf(l)) /\ \A y : Awaits(core', y) => Awaits(core, y)
  BY <1>3, LifeReleased
<1>5. l \in DOMAIN dev.listeners
  BY <1>1, <1>4 DEF ListenersFine
<1>6. PICK L, s, e, t : /\ L = [active : BOOLEAN, stub : Int] /\ s = dev.listeners
                        /\ e = [s[l] EXCEPT !.stub = @ - 1] /\ t = [s EXCEPT ![l] = e]
  OBVIOUS
<1>7. s \in Seq(L) /\ l \in DOMAIN s /\ s[l] \in L
  BY <1>1, <1>5, <1>6, TcpParts
<1>8. e \in L /\ e.active = s[l].active
  <2>1. PICK a, n : a = s[l] /\ n = a.stub - 1
    OBVIOUS
  <2>2. a \in L /\ n \in Int
    BY ONLY <1>6, <1>7, <2>1
  <2>3. e = [a EXCEPT !.stub = n]
    BY ONLY <1>6, <2>1, Zenon
  <2> QED BY ONLY <1>6, <2>1, <2>2, <2>3
<1>9. t \in Seq(L) /\ DOMAIN t = DOMAIN s /\ t[l] = e /\ \A n \in DOMAIN s : n # l => t[n] = s[n]
  BY <1>6, <1>7, <1>8, Put
<1>10. dev' = [dev EXCEPT !.listeners = t]
  BY <1>1, <1>6 DEF TcpType
<1>11. dev' \in TcpType /\ dev'.conns = dev.conns /\ dev'.pending = dev.pending /\ dev'.listeners = t
  BY <1>1, <1>6, <1>9, <1>10 DEF TcpType
<1>12. ConnsFine(core', dev')
  <2>1. dev.pending \subseteq Reqs
    BY <1>1, TcpParts
  <2> QED BY <1>1, <1>4, <1>11, <2>1, ConnsElse
<1>13. ListenersFine(core', dev')
  <2>1. \A n \in DOMAIN dev.listeners : ~dev.listeners[n].active => ~dev'.listeners[n].active
    BY <1>6, <1>8, <1>9, <1>11
  <2>2. DOMAIN dev.listeners \subseteq DOMAIN dev'.listeners
    BY <1>6, <1>9, <1>11
  <2> QED BY <1>1, <1>4, <2>1, <2>2, ListenersElse
<1> QED BY <1>2, <1>4, <1>11, <1>12, <1>13 DEF TcpInv

(* A callback runs.                                                        *)
LEMMA TcpCall ==
  ASSUME TcpInv, Tcp!Call
  PROVE  TcpInv'
<1>1. /\ core \in CoreType(Tcp!Kinds) /\ dev \in TcpType /\ Life(core, dev.pending, TcpCallable)
      /\ ConnsFine(core, dev) /\ ListenersFine(core, dev) /\ Tcp!CanCall(core)
  BY DEF TcpInv, Tcp!Call
<1>2. PICK K, P, x, i : K = Tcp!Kinds /\ P = dev.pending /\ x = Tcp!NextCallback(core) /\ i = Tcp!CallbackTaken(core)
  OBVIOUS
<1>3. core \in CoreType(K) /\ Life(core, P, TcpCallable)
  BY <1>1, <1>2
<1>4. x \in Thunk
  BY <1>1, <1>2, <1>3, Taken
<1>5. CASE \E r \in Reqs : x = Tcp!Callback(r)
  <2>1. PICK r \in Reqs : x = Tcp!Callback(r)
    BY <1>5
  <2>2. x.do = "request" /\ x.id = r
    BY <2>1, Thunks
  <2>3. Tcp!CallRequest(r)
    BY <1>2, <2>2 DEF Tcp!Call
  <2>4. PICK q : q = core.asked[r]
    OBVIOUS
  <2>5. /\ i \in CoreType(K) /\ Life(i, P \cup {r}, TcpCallable) /\ Later(core, i)
        /\ ~core.disposed /\ ~i.disposed /\ r \notin P /\ core.stub[r] = 1 /\ core.asked[r].kind \in TcpCallable
        /\ \A y : Awaits(i, y) => Awaits(core, y)
    <3>1. /\ core \in CoreType(K) /\ Life(core, P, TcpCallable) /\ Tcp!CanCall(core)
          /\ Tcp!NextCallback(core) = Tcp!Callback(r) /\ i = Tcp!CallbackTaken(core) /\ r \in Reqs
      BY <1>1, <1>2, <1>3, <2>1
    <3> QED BY ONLY <3>1, LifeBegun
  <2>6. ASSUME core' = Tcp!Fails(i, r)
        PROVE  /\ core' \in CoreType(K) /\ Life(core', P, TcpCallable) /\ Later(core, core')
               /\ \A y : Awaits(core', y) => Awaits(core, y)
    <3>1. PICK j : j = core'
      OBVIOUS
    <3>2. j = Tcp!Reply(Tcp!Release(Tcp!CallbackTaken(core), r), r)
      BY <1>2, <2>6, <3>1 DEF Tcp!Fails
    <3> QED BY <1>1, <1>2, <1>3, <2>1, <3>1, <3>2, LifeFailed
  <2>7. CASE q.kind \in Tcp!ConnKinds
    <3>1. CASE Tcp!Busy(q)
      <4>1. core' = Tcp!Fails(i, r) /\ dev' = dev
        BY <1>2, <2>3, <2>4, <2>7, <3>1 DEF Tcp!CallRequest, Tcp!ConnKinds
      <4> QED BY <1>2, <2>6, <4>1, TcpListen
    <3>2. CASE ~Tcp!Busy(q)
      <4>1. core' = Tcp!CallbackTaken(core) /\ dev' = Tcp!StartOn(q, r)
        BY <1>2, <2>3, <2>4, <2>7, <3>2 DEF Tcp!CallRequest, Tcp!ConnKinds
      <4> QED BY <1>1, <1>2, <2>1, <2>4, <2>7, <3>2, <4>1, TcpStart
    <3> QED BY <3>1, <3>2
  <2>8. CASE q.kind = "connect"
    <3>1. core' = i /\ dev' = [dev EXCEPT !.pending = @ \cup {r}]
      BY <1>2, <2>3, <2>4, <2>8 DEF Tcp!CallRequest, Tcp!ConnKinds
    <3>2. P \subseteq Reqs /\ P \cup {r} \subseteq Reqs
      BY <1>1, <1>2, TcpParts
    <3>3. /\ dev' \in TcpType /\ dev'.conns = dev.conns /\ dev'.pending = P \cup {r}
          /\ dev'.listeners = dev.listeners
      BY <1>1, <1>2, <3>1, <3>2 DEF TcpType
    <3>4. core.asked[r].kind \notin Tcp!ConnKinds
      BY <2>4, <2>8 DEF Tcp!ConnKinds
    <3>5. \A s \in Reqs : core.asked[s].kind \in Tcp!ConnKinds =>
            (s \in dev'.pending => s \in dev.pending) /\ (s \in dev.pending => s \in dev'.pending)
      BY <1>2, <3>3, <3>4
    <3>6. dev.pending \subseteq Reqs /\ dev'.pending \subseteq Reqs /\ Later(core, core')
      BY <1>2, <2>5, <3>1, <3>2, <3>3
    <3>7. ConnsFine(core', dev')
      BY <1>1, <3>3, <3>5, <3>6, ConnsElse
    <3>8. \A y : Awaits(core', y) => Awaits(core, y)
      BY <2>5, <3>1
    <3>9. ListenersFine(core', dev')
      BY <1>1, <3>3, <3>6, <3>8, ListenersElse
    <3> QED BY <1>2, <2>5, <3>1, <3>3, <3>7, <3>9 DEF TcpInv
  <2>9. CASE q.kind = "listen"
    <3>1. /\ core' = Tcp!Fails(i, r)
          /\ \/ dev' = [dev EXCEPT !.listeners = Append(@, [active |-> TRUE, stub |-> 1])]
             \/ dev' = [dev EXCEPT !.leaked = @ + 1]
      BY <1>2, <2>3, <2>4, <2>9 DEF Tcp!CallRequest, Tcp!ConnKinds
    <3> QED BY <1>2, <2>6, <3>1, TcpListen
  <2> QED BY <2>4, <2>5, <2>7, <2>8, <2>9 DEF TcpCallable
<1>6. CASE \E l \in Nat : x = Tcp!ReleaseOf(l)
  <2>1. PICK l \in Nat : x = Tcp!ReleaseOf(l)
    BY <1>6
  <2>2. x.do = "release" /\ x.id = l
    BY <2>1, Thunks
  <2>3. core' = Tcp!CallbackTaken(core) /\ dev' = [dev EXCEPT !.listeners[l].stub = @ - 1]
    BY <1>2, <2>2 DEF Tcp!Call
  <2> QED BY <1>1, <1>2, <2>1, <2>3, TcpRelease
<1> QED BY <1>4, <1>5, <1>6 DEF Thunk

(* A read or a write ends; the connection was not forgotten, since the     *)
(* request kept its capability.                                            *)
LEMMA TcpEnd ==
  ASSUME TcpInv, NEW r \in Reqs, r \in dev.pending, ~core.disposed,
         NEW q, q = core.asked[r], q.kind \in Tcp!ConnKinds,
         core' = Tcp!Fails(core, r), dev' = Tcp!Completed(dev, q, r)
  PROVE  TcpInv'
<1>1. /\ core \in CoreType(Tcp!Kinds) /\ dev \in TcpType /\ Life(core, dev.pending, TcpCallable)
      /\ ConnsFine(core, dev) /\ ListenersFine(core, dev)
  BY DEF TcpInv
<1>2. PICK K, P, c, conn : K = Tcp!Kinds /\ P = dev.pending /\ c = q.on /\ conn = dev.conns[c]
  OBVIOUS
<1>3. core \in CoreType(K) /\ Life(core, P, TcpCallable) /\ r \in P
  BY <1>1, <1>2
<1>4. /\ core' \in CoreType(K) /\ Life(core', P \ {r}, TcpCallable) /\ Later(core, core')
      /\ core'.disposed = core.disposed /\ \A y : Awaits(core', y) <=> Awaits(core, y)
  <2>1. PICK j : j = core'
    OBVIOUS
  <2>2. j = Tcp!Reply(Tcp!Release(core, r), r)
    BY <2>1 DEF Tcp!Fails
  <2> QED BY <1>3, <2>1, <2>2, LifeAnswer
<1>5. c \in DOMAIN dev.conns /\ conn \in ConnType /\ P \subseteq Reqs
  BY <1>1, <1>2, TcpParts DEF ConnsFine
<1>6. ConnFine(core, P, conn, c) /\ On(core, r, q.kind, c) /\ Keeps(core, r)
  BY <1>1, <1>2, <1>3, <1>5, TcpWorks DEF ConnsFine, On
<1>7. conn.cap /\ conn.referenced /\ conn.disposals = 0 /\ conn.told = FALSE
  BY <1>5, <1>6 DEF ConnFine, ConnType
<1>8. PICK new : new = IF q.kind = "read" THEN [conn EXCEPT !.reading = "false"] ELSE [conn EXCEPT !.writing = FALSE]
  OBVIOUS
<1>9. /\ new \in ConnType /\ new.cap = conn.cap /\ new.referenced = conn.referenced /\ new.told = conn.told
      /\ new.disposals = conn.disposals
      /\ new.reading = (IF q.kind = "read" THEN "false" ELSE conn.reading)
      /\ new.writing = (IF q.kind = "read" THEN conn.writing ELSE FALSE)
  BY <1>5, <1>8 DEF ConnType
<1>10. PICK cs, Q : cs = [dev.conns EXCEPT ![c] = new] /\ Q = P \ {r}
  OBVIOUS
<1>11. /\ cs \in Seq(ConnType) /\ DOMAIN cs = DOMAIN dev.conns /\ cs[c] = new
       /\ \A b \in DOMAIN dev.conns : b # c => cs[b] = dev.conns[b]
  <2>1. PICK C, s : C = ConnType /\ s = dev.conns
    OBVIOUS
  <2>2. s \in Seq(C) /\ c \in DOMAIN s /\ new \in C /\ cs = [s EXCEPT ![c] = new]
    BY <1>1, <1>5, <1>9, <1>10, <2>1, TcpParts
  <2>3. cs \in Seq(C) /\ DOMAIN cs = DOMAIN s /\ cs[c] = new /\ \A b \in DOMAIN s : b # c => cs[b] = s[b]
    BY ONLY <2>2, Put
  <2> QED BY <2>1, <2>3
<1>12. Q \subseteq Reqs
  BY <1>5, <1>10
<1>13. PICK e : e = [dev EXCEPT !.conns = cs, !.pending = Q]
  OBVIOUS
<1>14. e \in TcpType /\ e.conns = cs /\ e.pending = Q /\ e.listeners = dev.listeners
  BY <1>1, <1>11, <1>12, <1>13 DEF TcpType
<1>15. dev' = e
  <2>1. dev' = Tcp!CheckForgotten(e, c)
    <3>1. PICK d1 : d1 = [dev EXCEPT !.pending = @ \ {r}]
      OBVIOUS
    <3>2. d1.conns = dev.conns /\ d1 \in TcpType
      BY <1>1, <3>1 DEF TcpType
    <3>3. CASE q.kind = "read"
      <4>1. [d1 EXCEPT !.conns[c].reading = "false"] = e
        BY <1>1, <1>2, <1>8, <1>10, <1>13, <3>1, <3>2, <3>3 DEF TcpType
      <4> QED BY <1>2, <3>1, <3>3, <4>1 DEF Tcp!Completed
    <3>4. CASE q.kind # "read"
      <4>1. [d1 EXCEPT !.conns[c].writing = FALSE] = e
        BY <1>1, <1>2, <1>8, <1>10, <1>13, <3>1, <3>2, <3>4 DEF TcpType
      <4> QED BY <1>2, <3>1, <3>4, <4>1 DEF Tcp!Completed
    <3> QED BY <3>3, <3>4
  <2>2. e.conns[c].referenced
    BY <1>7, <1>9, <1>11, <1>14
  <2> QED BY <2>1, <2>2 DEF Tcp!CheckForgotten
<1>16. \A s \in Q : ~On(core, s, q.kind, c)
  <2>1. ASSUME NEW s \in Q, On(core, s, q.kind, c) PROVE FALSE
    <3>1. s \in P /\ s # r
      BY <1>10, <2>1
    <3>2. core.asked[s] = core.asked[r]
      <4>1. s \in Reqs
        BY <1>12, <2>1
      <4>2. /\ core.asked[s] \in [kind : K \cup {"none"}, on : Nat]
            /\ core.asked[r] \in [kind : K \cup {"none"}, on : Nat]
        BY <1>3, <4>1, CoreParts
      <4>3. core.asked[s].kind = core.asked[r].kind /\ core.asked[s].on = core.asked[r].on
        BY <1>2, <2>1 DEF On
      <4> QED BY <4>2, <4>3
    <3> QED BY <1>1, <1>2, <1>3, <3>1, <3>2 DEF ConnsFine
  <2> QED BY <2>1
<1>17. ConnFine(core', Q, new, c)
  <2>1. \A s \in Reqs : \A kind : On(core', s, kind, c) <=> On(core, s, kind, c)
    BY <1>4 DEF On, Later
  <2>2. \A s \in Q : \A kind : On(core', s, kind, c) <=> On(core, s, kind, c)
    BY <1>12, <2>1
  <2>3. new.writing => \E s \in Q : On(core', s, "write", c)
    <3>1. ASSUME new.writing PROVE \E s \in Q : On(core', s, "write", c)
      <4>1. q.kind = "read" /\ conn.writing
        BY <1>9, <3>1
      <4>2. PICK s \in P : On(core, s, "write", c)
        BY <1>6, <4>1 DEF ConnFine
      <4>3. s # r
        BY <4>1, <4>2 DEF On
      <4> QED BY <1>10, <2>2, <4>2, <4>3
    <3> QED BY <3>1
  <2>4. ASSUME NEW s \in Q, On(core', s, "write", c) PROVE new.writing
    <3>1. s \in P /\ On(core, s, "write", c)
      BY <1>10, <2>2, <2>4
    <3>2. q.kind # "write"
      BY <1>16, <3>1
    <3> QED BY <1>6, <1>9, <3>1, <3>2 DEF ConnFine, Tcp!ConnKinds
  <2>5. ASSUME NEW s \in Q, On(core', s, "read", c) PROVE new.reading = "true"
    <3>1. s \in P /\ On(core, s, "read", c)
      BY <1>10, <2>2, <2>5
    <3>2. q.kind # "read"
      BY <1>16, <3>1
    <3> QED BY <1>6, <1>9, <3>1, <3>2 DEF ConnFine
  <2> QED BY <1>4, <1>7, <1>9, <2>3, <2>4, <2>5 DEF ConnFine
<1>18. ConnsFine(core', dev')
  <2>1. \A s \in Reqs : core.asked[s].kind \in Tcp!ConnKinds /\ core.asked[s].on # c =>
          (s \in Q => s \in dev.pending) /\ (s \in dev.pending => s \in Q)
    BY <1>2, <1>10
  <2>2. \A s, t \in Q : core.asked[s].kind \in Tcp!ConnKinds /\ core.asked[t] = core.asked[s] => s = t
    BY <1>1, <1>2, <1>10 DEF ConnsFine
  <2> QED BY <1>1, <1>2, <1>4, <1>5, <1>11, <1>12, <1>14, <1>15, <1>17, <2>1, <2>2, ConnsPut
<1>19. ListenersFine(core', dev')
  BY <1>1, <1>4, <1>14, <1>15, ListenersElse
<1> QED BY <1>2, <1>4, <1>10, <1>14, <1>15, <1>18, <1>19 DEF TcpInv

(* The transport calls back.                                               *)
LEMMA TcpComplete ==
  ASSUME TcpInv, NEW r \in Reqs, Tcp!Complete(r)
  PROVE  TcpInv'
<1>1. /\ core \in CoreType(Tcp!Kinds) /\ dev \in TcpType /\ Life(core, dev.pending, TcpCallable)
      /\ ConnsFine(core, dev) /\ ListenersFine(core, dev) /\ r \in dev.pending
  BY DEF TcpInv, Tcp!Complete
<1>2. PICK K, P, Q, q, e : /\ K = Tcp!Kinds /\ P = dev.pending /\ Q = P \ {r} /\ q = core.asked[r]
                           /\ e = [dev EXCEPT !.pending = Q]
  OBVIOUS
<1>3. core \in CoreType(K) /\ Life(core, P, TcpCallable) /\ r \in P /\ P \subseteq Reqs /\ Q \subseteq Reqs
  BY <1>1, <1>2, TcpParts
<1>4. /\ e \in TcpType /\ e.conns = dev.conns /\ e.pending = Q /\ e.listeners = dev.listeners
  BY <1>1, <1>2, <1>3 DEF TcpType
<1>5. CASE core.disposed
  <2>1. core' = core /\ dev' = e
    BY <1>1, <1>2, <1>5 DEF Tcp!Complete
  <2>2. Life(core', Q, TcpCallable)
    BY <1>2, <1>3, <2>1, LifeGivenUp
  <2>3. Later(core, core')
    BY <2>1 DEF Later
  <2>4. \A s \in Reqs : core.asked[s].kind \in Tcp!ConnKinds =>
          (s \in e.pending => s \in dev.pending) /\ (s \in dev.pending /\ ~core'.disposed => s \in e.pending)
    BY <1>2, <1>4, <1>5, <2>1
  <2>5. ConnsFine(core', e)
    BY <1>1, <1>2, <1>3, <1>4, <2>3, <2>4, ConnsElse
  <2>6. ListenersFine(core', e)
    BY <1>1, <1>4, <2>1, <2>3, ListenersElse
  <2> QED BY <1>1, <1>4, <2>1, <2>2, <2>5, <2>6 DEF TcpInv
<1>6. CASE ~core.disposed /\ q.kind \in Tcp!ConnKinds
  <2>1. core' = Tcp!Fails(core, r) /\ dev' = Tcp!Completed(dev, q, r)
    BY <1>2, <1>6 DEF Tcp!Complete
  <2> QED BY <1>1, <1>2, <1>6, <2>1, TcpEnd
<1>7. CASE ~core.disposed /\ q.kind \notin Tcp!ConnKinds
  <2>1. /\ core' = Tcp!Fails(core, r)
        /\ dev' = e \/ \E first \in BOOLEAN : dev' = Tcp!Register(e, first)
    BY <1>1, <1>2, <1>7 DEF Tcp!Complete
  <2>2. /\ core' \in CoreType(K) /\ Life(core', Q, TcpCallable) /\ Later(core, core')
        /\ \A y : Awaits(core', y) <=> Awaits(core, y)
    <3>1. PICK j : j = core'
      OBVIOUS
    <3>2. j = Tcp!Reply(Tcp!Release(core, r), r)
      BY <2>1, <3>1 DEF Tcp!Fails
    <3> QED BY <1>2, <1>3, <1>7, <3>1, <3>2, LifeAnswer
  <2>3. \A s \in Reqs : core.asked[s].kind \in Tcp!ConnKinds =>
          (s \in e.pending => s \in dev.pending) /\ (s \in dev.pending => s \in e.pending)
    BY <1>2, <1>4, <1>7
  <2>4. ConnsFine(core', e)
    BY <1>1, <1>2, <1>3, <1>4, <2>2, <2>3, ConnsElse
  <2>5. dev' \in TcpType /\ ConnsFine(core', dev') /\ dev'.listeners = dev.listeners /\ dev'.pending = Q
    <3>1. CASE dev' = e
      BY <1>4, <2>4, <3>1
    <3>2. CASE \E first \in BOOLEAN : dev' = Tcp!Register(e, first)
      <4>1. Later(core', core')
        BY DEF Later
      <4> QED BY <1>4, <2>4, <3>2, <4>1, TcpRegister
    <3> QED BY <2>1, <3>1, <3>2
  <2>6. ListenersFine(core', dev')
    BY <1>1, <2>2, <2>5, ListenersElse
  <2> QED BY <1>2, <2>2, <2>5, <2>6 DEF TcpInv
<1> QED BY <1>5, <1>6, <1>7

(* A listener's event: the core is woken, and has one more connection.     *)
LEMMA TcpOpen ==
  ASSUME TcpInv, NEW l, Tcp!OnOpen(l)
  PROVE  TcpInv'
<1>1. /\ core \in CoreType(Tcp!Kinds) /\ dev \in TcpType /\ Life(core, dev.pending, TcpCallable)
      /\ ConnsFine(core, dev) /\ ListenersFine(core, dev)
  BY DEF TcpInv
<1>2. PICK K, P : K = Tcp!Kinds /\ P = dev.pending
  OBVIOUS
<1>3. core \in CoreType(K) /\ Life(core, P, TcpCallable) /\ ~core.disposed /\ core' = Tcp!Wakeup(core)
  BY <1>1, <1>2 DEF Tcp!OnOpen
<1>4. /\ core' \in CoreType(K) /\ Life(core', P, TcpCallable) /\ Later(core, core')
      /\ \A y : Awaits(core', y) <=> Awaits(core, y)
  <2>1. PICK j : j = core'
    OBVIOUS
  <2> QED BY <1>3, <2>1, LifeRun
<1>5. PICK first \in BOOLEAN : dev' = [Tcp!Register(dev, first) EXCEPT !.opens = @ + 1]
  BY DEF Tcp!OnOpen
<1>6. PICK e : e = Tcp!Register(dev, first)
  OBVIOUS
<1>7. e \in TcpType /\ ConnsFine(core', e) /\ e.listeners = dev.listeners /\ e.pending = P
  BY <1>1, <1>2, <1>4, <1>6, TcpRegister
<1>8. dev' \in TcpType /\ dev'.conns = e.conns /\ dev'.listeners = e.listeners /\ dev'.pending = e.pending
  <2>1. PICK n : n = e.opens + 1
    OBVIOUS
  <2>2. e.opens \in Nat
    BY <1>7, TcpParts
  <2>3. n \in Nat
    BY ONLY <2>1, <2>2
  <2>4. dev' = [e EXCEPT !.opens = n]
    BY ONLY <1>5, <1>6, <2>1, Zenon
  <2> QED BY <1>7, <2>3, <2>4 DEF TcpType
<1>9. ConnsFine(core', dev')
  BY <1>7, <1>8 DEF ConnsFine
<1>10. ListenersFine(core', dev')
  BY <1>1, <1>4, <1>7, <1>8, ListenersElse
<1> QED BY <1>2, <1>4, <1>7, <1>8, <1>9, <1>10 DEF TcpInv

(* A connection's capability is dropped: no request is under way that      *)
(* keeps it, so that nobody writes the connection.                         *)
LEMMA TcpDrop ==
  ASSUME TcpInv, NEW c \in DOMAIN dev.conns, Tcp!Drop(c)
  PROVE  TcpInv'
<1>1. /\ core \in CoreType(Tcp!Kinds) /\ dev \in TcpType /\ Life(core, dev.pending, TcpCallable)
      /\ ConnsFine(core, dev) /\ ListenersFine(core, dev)
  BY DEF TcpInv
<1>2. PICK P, conn : P = dev.pending /\ conn = dev.conns[c]
  OBVIOUS
<1>3. conn \in ConnType /\ conn.cap /\ P \subseteq Reqs /\ ConnFine(core, P, conn, c) /\ ~core.disposed
  BY <1>1, <1>2, TcpParts DEF ConnsFine, Tcp!Drop, Life
<1>4. core' = core /\ Later(core, core') /\ \A r \in Reqs, kind \in Tcp!ConnKinds : On(core, r, kind, c) => ~Keeps(core, r)
  <2>1. core' = core /\ ~Tcp!InUse(core, Tcp!ConnKinds, c)
    BY DEF Tcp!Drop
  <2>2. ASSUME NEW r \in Reqs, NEW kind \in Tcp!ConnKinds, On(core, r, kind, c) PROVE ~Keeps(core, r)
    <3>1. ~(Tcp!Contains(core.queue, r) \/ core.stub[r] > 0)
      BY <2>1, <2>2 DEF Tcp!InUse, On
    <3>2. core.queue \in Seq(Reqs)
      BY <1>1, CoreParts
    <3>3. ~Queued(core, r)
      <4>1. PICK s : s = core.queue
        OBVIOUS
      <4>2. s \in Seq(Reqs) /\ ~Tcp!Contains(s, r)
        BY <3>1, <3>2, <4>1
      <4>3. DOMAIN s = 1 .. Len(s)
        BY <4>2, LenProperties
      <4>4. r \notin ToSet(s)
        BY <4>2, <4>3 DEF Tcp!Contains, ToSet
      <4> QED BY <4>1, <4>4 DEF Queued
    <3> QED BY <3>1, <3>3 DEF Keeps
  <2>3. Later(core, core')
    BY <2>1 DEF Later
  <2> QED BY <2>1, <2>2, <2>3
<1>5. \A r \in P, kind \in Tcp!ConnKinds : ~On(core, r, kind, c)
  BY <1>1, <1>2, <1>3, <1>4, TcpWorks
<1>6. conn.writing = FALSE /\ conn.referenced = TRUE /\ conn.told = FALSE /\ conn.disposals = 0
  <2>1. "write" \in Tcp!ConnKinds
    BY DEF Tcp!ConnKinds
  <2> QED BY <1>3, <1>5, <2>1 DEF ConnFine, ConnType
<1>7. PICK new \in ConnType :
        /\ dev'.conns = [dev.conns EXCEPT ![c] = new]
        /\ dev' = [dev EXCEPT !.conns = [dev.conns EXCEPT ![c] = new]]
        /\ new.cap = FALSE /\ new.writing = FALSE /\ new.told = ~new.referenced /\ new.reading = conn.reading
        /\ new.disposals = (IF ~new.referenced /\ new.reading = "undefined" THEN 1 ELSE 0)
  <2>1. CASE conn.pairFirst
    <3>1. PICK new : new = [conn EXCEPT !.cap = FALSE]
      OBVIOUS
    <3>2. /\ new \in ConnType /\ new.cap = FALSE /\ new.writing = conn.writing /\ new.told = conn.told
          /\ new.referenced = conn.referenced /\ new.reading = conn.reading /\ new.disposals = conn.disposals
      BY <1>3, <3>1 DEF ConnType
    <3>3. dev' = [dev EXCEPT !.conns = [dev.conns EXCEPT ![c] = new]]
      BY <1>1, <1>2, <2>1, <3>1 DEF Tcp!Drop, TcpType
    <3>4. dev'.conns = [dev.conns EXCEPT ![c] = new]
      BY <1>1, <3>3 DEF TcpType
    <3> QED BY <1>6, <3>2, <3>3, <3>4
  <2>2. CASE ~conn.pairFirst
    <3>1. PICK lost : lost = [conn EXCEPT !.cap = FALSE, !.told = TRUE, !.referenced = FALSE]
      OBVIOUS
    <3>2. /\ lost \in ConnType /\ lost.cap = FALSE /\ lost.writing = conn.writing /\ lost.told = TRUE
          /\ lost.referenced = FALSE /\ lost.reading = conn.reading /\ lost.disposals = conn.disposals
      BY <1>3, <3>1 DEF ConnType
    <3>3. PICK cs, d : cs = [dev.conns EXCEPT ![c] = lost] /\ d = [dev EXCEPT !.conns = cs]
      OBVIOUS
    <3>4. dev' = Tcp!CheckForgotten(d, c)
      <4>1. [dev EXCEPT !.conns[c].cap = FALSE, !.conns[c].told = TRUE, !.conns[c].referenced = FALSE] = d
        <5>1. PICK D, C : D = dev.conns /\ C = ConnType
          OBVIOUS
        <5>2. D \in Seq(C)
          BY <1>1, <5>1, TcpParts
        <5>3. DOMAIN D = 1 .. Len(D)
          BY <5>2, LenProperties
        <5> QED BY <1>1, <1>2, <3>1, <3>3, <5>1, <5>3 DEF TcpType
      <4> QED BY <1>2, <2>2, <4>1 DEF Tcp!Drop
    <3>5. d.conns = cs /\ cs[c] = lost
      <4>1. cs[c] = lost
        BY ONLY <3>3, c \in DOMAIN dev.conns
      <4> QED BY <1>1, <3>3, <4>1 DEF TcpType
    <3>6. CASE conn.reading = "undefined"
      <4>1. PICK new : new = [lost EXCEPT !.disposals = @ + 1]
        OBVIOUS
      <4>2. /\ new \in ConnType /\ new.cap = FALSE /\ new.writing = FALSE /\ new.told = TRUE
            /\ new.referenced = FALSE /\ new.reading = "undefined" /\ new.disposals = 1
        BY <1>6, <3>2, <3>6, <4>1 DEF ConnType
      <4>3. PICK X : X = [cs EXCEPT ![c] = new]
        OBVIOUS
      <4>4. X = [dev.conns EXCEPT ![c] = new]
        BY ONLY <3>3, <4>3
      <4>5. dev' = [d EXCEPT !.conns = X]
        <5>1. dev' = [d EXCEPT !.conns[c].disposals = @ + 1]
          BY <1>6, <3>2, <3>4, <3>5, <3>6 DEF Tcp!CheckForgotten
        <5>2. [d EXCEPT !.conns[c].disposals = @ + 1]
                = [d EXCEPT !.conns = [d.conns EXCEPT ![c] = [d.conns[c] EXCEPT !.disposals = @ + 1]]]
          OBVIOUS
        <5> QED BY ONLY <3>5, <4>1, <4>3, <5>1, <5>2
      <4>6. dev' = [dev EXCEPT !.conns = X] /\ dev'.conns = X
        BY <1>1, <3>3, <4>5 DEF TcpType
      <4> QED BY <3>6, <4>2, <4>4, <4>6
    <3>7. CASE conn.reading # "undefined"
      <4>1. dev' = d
        BY <3>2, <3>4, <3>5, <3>7 DEF Tcp!CheckForgotten
      <4>2. /\ dev' = [dev EXCEPT !.conns = [dev.conns EXCEPT ![c] = lost]]
            /\ dev'.conns = [dev.conns EXCEPT ![c] = lost]
        BY ONLY <3>3, <3>5, <4>1
      <4> QED BY <1>6, <3>2, <3>7, <4>2
    <3> QED BY <3>6, <3>7
  <2> QED BY <2>1, <2>2
<1>8. PICK cs : cs = [dev.conns EXCEPT ![c] = new]
  OBVIOUS
<1>9. /\ cs \in Seq(ConnType) /\ DOMAIN cs = DOMAIN dev.conns /\ cs[c] = new
      /\ \A b \in DOMAIN dev.conns : b # c => cs[b] = dev.conns[b]
  <2>1. PICK C, s : C = ConnType /\ s = dev.conns
    OBVIOUS
  <2>2. s \in Seq(C) /\ c \in DOMAIN s /\ new \in C /\ cs = [s EXCEPT ![c] = new]
    BY <1>1, <1>7, <1>8, <2>1, TcpParts
  <2>3. cs \in Seq(C) /\ DOMAIN cs = DOMAIN s /\ cs[c] = new /\ \A b \in DOMAIN s : b # c => cs[b] = s[b]
    BY ONLY <2>2, Put
  <2> QED BY <2>1, <2>3
<1>10. dev' \in TcpType /\ dev'.conns = cs /\ dev'.pending = P /\ dev'.listeners = dev.listeners
  <2>1. dev' = [dev EXCEPT !.conns = cs]
    BY <1>7, <1>8
  <2> QED BY <1>1, <1>2, <1>9, <2>1 DEF TcpType
<1>11. ConnFine(core', P, new, c)
  <2>1. "read" \in Tcp!ConnKinds /\ "write" \in Tcp!ConnKinds
    BY DEF Tcp!ConnKinds
  <2> QED BY <1>4, <1>5, <1>7, <2>1 DEF ConnFine
<1>12. ConnsFine(core', dev')
  <2>1. \A s, t \in P : core.asked[s].kind \in Tcp!ConnKinds /\ core.asked[t] = core.asked[s] => s = t
    BY <1>1, <1>2 DEF ConnsFine
  <2> QED BY <1>1, <1>2, <1>3, <1>4, <1>9, <1>10, <1>11, <2>1, ConnsPut
<1>13. ListenersFine(core', dev')
  BY <1>1, <1>4, <1>10, ListenersElse
<1> QED BY <1>1, <1>2, <1>4, <1>10, <1>12, <1>13 DEF TcpInv

(* The host runs the core, and calls into it return.                       *)
LEMMA TcpRun ==
  ASSUME TcpInv, Tcp!Enter \/ Tcp!Return
  PROVE  TcpInv'
<1>1. /\ core \in CoreType(Tcp!Kinds) /\ dev \in TcpType /\ Life(core, dev.pending, TcpCallable)
      /\ ConnsFine(core, dev) /\ ListenersFine(core, dev)
  BY DEF TcpInv
<1>2. PICK K, P, j : K = Tcp!Kinds /\ P = dev.pending /\ j = core'
  OBVIOUS
<1>3. core \in CoreType(K) /\ Life(core, P, TcpCallable) /\ P \subseteq Reqs
  BY <1>1, <1>2, TcpParts
<1>4. /\ j \in CoreType(K) /\ Life(j, P, TcpCallable) /\ Later(core, j)
      /\ \A y : Awaits(j, y) <=> Awaits(core, y)
  <2>1. CASE Tcp!Enter
    <3>1. j = Tcp!RunLoop(core) /\ ~core.disposed
      BY <1>2, <2>1 DEF Tcp!Enter
    <3> QED BY <1>3, <3>1, LifeRun
  <2>2. CASE Tcp!Return
    <3>1. j = Tcp!Returned(core) /\ core.wasm
      BY <1>2, <2>2 DEF Tcp!Return
    <3> QED BY <1>3, <3>1, LifeReturn
  <2> QED BY <2>1, <2>2
<1>5. dev' = dev
  BY DEF Tcp!Enter, Tcp!Return
<1>6. ConnsFine(j, dev)
  BY <1>1, <1>2, <1>3, <1>4, ConnsElse
<1>7. ListenersFine(j, dev)
  BY <1>1, <1>4, ListenersElse
<1> QED BY <1>1, <1>2, <1>4, <1>5, <1>6, <1>7 DEF TcpInv

(* The core is disposed of, and with it the connections and listeners.     *)
LEMMA TcpDispose ==
  ASSUME TcpInv, Tcp!Dispose
  PROVE  TcpInv'
<1>1. /\ core \in CoreType(Tcp!Kinds) /\ dev \in TcpType /\ Life(core, dev.pending, TcpCallable)
      /\ ConnsFine(core, dev) /\ ListenersFine(core, dev)
  BY DEF TcpInv
<1>2. PICK K, P, j : K = Tcp!Kinds /\ P = dev.pending /\ j = core'
  OBVIOUS
<1>3. core \in CoreType(K) /\ Life(core, P, TcpCallable) /\ P \subseteq Reqs
  BY <1>1, <1>2, TcpParts
<1>4. /\ j \in CoreType(K) /\ Life(j, P, TcpCallable) /\ Later(core, j) /\ j.disposed
      /\ \A y : Awaits(j, y) <=> Awaits(core, y)
  <2>1. Tcp!Outside(core) /\ j = [core EXCEPT !.disposed = TRUE] /\ ~core.disposed
    BY <1>2 DEF Tcp!Dispose
  <2>2. j.disposed
    BY <1>1, <2>1 DEF CoreType
  <2> QED BY <1>3, <2>1, <2>2, LifeRun
<1>5. PICK C, L, cs, ls : C = dev.conns /\ L = dev.listeners
        /\ cs = [c \in DOMAIN C |-> [C[c] EXCEPT !.disposals = @ + 1]]
        /\ ls = [l \in DOMAIN L |-> [L[l] EXCEPT !.active = FALSE]]
  OBVIOUS
<1>6. dev' = [dev EXCEPT !.conns = cs, !.listeners = ls]
  BY <1>5 DEF Tcp!Dispose
<1>7. /\ C \in Seq(ConnType) /\ L \in Seq([active : BOOLEAN, stub : Int])
      /\ \A c \in DOMAIN C : c \in Nat /\ C[c] \in ConnType
      /\ \A l \in DOMAIN L : l \in Nat /\ L[l] \in [active : BOOLEAN, stub : Int]
  BY <1>1, <1>5, TcpParts
<1>8. ASSUME NEW c \in DOMAIN C
      PROVE  /\ cs[c] \in ConnType /\ cs[c].cap = C[c].cap /\ cs[c].told = C[c].told
             /\ cs[c].referenced = C[c].referenced /\ cs[c].writing = C[c].writing /\ cs[c].reading = C[c].reading
  <2>1. PICK conn, n : conn = C[c] /\ n = conn.disposals + 1
    OBVIOUS
  <2>2. conn \in ConnType
    BY <1>7, <2>1
  <2>3. n \in Nat
    BY <2>1, <2>2 DEF ConnType
  <2>4. cs[c] = [conn EXCEPT !.disposals = n]
    BY <1>5, <2>1
  <2> QED BY <2>1, <2>2, <2>3, <2>4 DEF ConnType
<1>9. cs \in Seq(ConnType) /\ DOMAIN cs = DOMAIN C
  <2>1. Len(C) \in Nat /\ DOMAIN C = 1 .. Len(C)
    <3>1. PICK T : T = ConnType
      OBVIOUS
    <3> QED BY <1>7, <3>1, LenProperties
  <2>2. DOMAIN cs = 1 .. Len(C)
    BY <1>5, <2>1
  <2>3. cs = [c \in 1 .. Len(C) |-> cs[c]]
    BY <1>5, <2>1
  <2>4. cs \in [1 .. Len(C) -> ConnType]
    BY <1>8, <2>1, <2>3
  <2>5. cs \in Seq(ConnType)
    BY ONLY <2>1, <2>4, SeqDef
  <2> QED BY <2>1, <2>2, <2>5
<1>10. /\ ls \in Seq([active : BOOLEAN, stub : Int]) /\ DOMAIN ls = DOMAIN L
       /\ \A l \in DOMAIN L : ls[l].active = FALSE
  <2>1. PICK T : T = [active : BOOLEAN, stub : Int]
    OBVIOUS
  <2>2. Len(L) \in Nat /\ DOMAIN L = 1 .. Len(L)
    BY <1>7, <2>1, LenProperties
  <2>3. \A l \in DOMAIN L : ls[l] \in T /\ ls[l].active = FALSE
    BY <1>5, <1>7, <2>1
  <2>4. DOMAIN ls = 1 .. Len(L)
    BY <1>5, <2>2
  <2>5. ls = [l \in 1 .. Len(L) |-> ls[l]]
    BY <1>5, <2>2
  <2>6. ls \in [1 .. Len(L) -> T]
    BY <2>2, <2>3, <2>5
  <2>7. ls \in Seq(T)
    BY ONLY <2>2, <2>6, SeqDef
  <2> QED BY <2>1, <2>2, <2>3, <2>4, <2>7
<1>11. /\ dev' \in TcpType /\ dev'.conns = cs /\ dev'.listeners = ls /\ dev'.pending = P
  BY <1>1, <1>2, <1>6, <1>9, <1>10 DEF TcpType
<1>12. ASSUME NEW c \in DOMAIN C PROVE ConnFine(j, P, cs[c], c)
  <2>1. ConnFine(core, P, C[c], c)
    BY <1>1, <1>2, <1>5 DEF ConnsFine
  <2>2. ConnFine(j, P, C[c], c)
    BY <1>3, <1>4, <2>1, ConnElse
  <2> QED BY <1>4, <1>8, <2>2 DEF ConnFine
<1>13. ConnsFine(j, dev')
  <2>1. \A r \in Reqs : j.asked[r] = core.asked[r]
    BY <1>4 DEF Later
  <2>2. \A r, s \in P : j.asked[r].kind \in Tcp!ConnKinds /\ j.asked[s] = j.asked[r] => r = s
    BY <1>1, <1>2, <1>3, <2>1 DEF ConnsFine
  <2>3. \A r \in Reqs : j.asked[r].kind \in Tcp!ConnKinds => j.asked[r].on \in DOMAIN cs
    BY <1>1, <1>5, <1>9, <2>1 DEF ConnsFine
  <2> QED BY <1>9, <1>11, <1>12, <2>2, <2>3 DEF ConnsFine
<1>14. ListenersFine(j, dev')
  <2>1. /\ DOMAIN dev.listeners \subseteq DOMAIN dev'.listeners
        /\ \A l \in DOMAIN dev.listeners : ~dev'.listeners[l].active
    BY <1>5, <1>10, <1>11
  <2> QED BY <1>1, <1>4, <2>1, ListenersElse
<1> QED BY <1>2, <1>4, <1>11, <1>13, <1>14 DEF TcpInv

(* Every step of the device keeps the invariant.                           *)
LEMMA TcpNext ==
  ASSUME TcpInv, Tcp!Next
  PROVE  TcpInv'
BY TcpAsk, TcpHandle, TcpCall, TcpComplete, TcpOpen, TcpDrop, TcpRun, TcpDispose DEF Tcp!Next

(* A set whose elements are equal has one at most.                         *)
LEMMA AtMostOne ==
  ASSUME NEW S, \A x, y \in S : x = y
  PROVE  Cardinality(S) <= 1
<1>1. CASE S = {}
  BY <1>1, FS_EmptySet
<1>2. CASE S # {}
  <2>1. PICK x : S = {x}
    BY <1>2
  <2> QED BY <2>1, FS_Singleton
<1> QED BY <1>1, <1>2

(* What the invariant is for.                                              *)
LEMMA TcpSafe ==
  ASSUME TcpInv
  PROVE  Tcp!OneOperation /\ Tcp!NeverReadDisposed /\ Tcp!AnsweredReleased
<1>1. /\ core \in CoreType(Tcp!Kinds) /\ dev \in TcpType /\ Life(core, dev.pending, TcpCallable)
      /\ ConnsFine(core, dev) /\ dev.pending \subseteq Reqs
  BY TcpParts DEF TcpInv
<1>2. ASSUME NEW c \in DOMAIN dev.conns, NEW kind \in Tcp!ConnKinds
      PROVE  /\ Tcp!Cardinality(Tcp!PendingOn(kind, c)) <= 1
             /\ Tcp!PendingOn(kind, c) # {} /\ ~core.disposed => dev.conns[c].disposals = 0
  <2>1. PICK S : S = Tcp!PendingOn(kind, c)
    OBVIOUS
  <2>2. \A r \in S : r \in dev.pending /\ On(core, r, kind, c)
    BY <2>1 DEF Tcp!PendingOn, On
  <2>3. ASSUME NEW r \in S, NEW s \in S PROVE r = s
    <3>1. r \in dev.pending /\ s \in dev.pending /\ r \in Reqs /\ s \in Reqs
      BY <1>1, <2>2
    <3>2. /\ core.asked[s] \in [kind : Tcp!Kinds \cup {"none"}, on : Nat]
          /\ core.asked[r] \in [kind : Tcp!Kinds \cup {"none"}, on : Nat]
      BY <1>1, <3>1, CoreParts
    <3>3. core.asked[s].kind = core.asked[r].kind /\ core.asked[s].on = core.asked[r].on /\ core.asked[r].kind = kind
      BY <2>2 DEF On
    <3>4. core.asked[s] = core.asked[r]
      BY <3>2, <3>3
    <3> QED BY <1>1, <3>1, <3>3, <3>4 DEF ConnsFine
  <2>4. Cardinality(S) <= 1
    BY <2>3, AtMostOne
  <2>5. ASSUME S # {}, ~core.disposed PROVE dev.conns[c].disposals = 0
    <3>1. PICK r \in dev.pending : On(core, r, kind, c)
      BY <2>2, <2>5
    <3>2. r \in Reqs /\ Keeps(core, r)
      BY <1>1, <3>1, TcpWorks
    <3> QED BY <1>1, <2>5, <3>1, <3>2 DEF ConnsFine, ConnFine
  <2> QED BY <2>1, <2>4, <2>5, Counts
<1>3. Tcp!NeverReadDisposed
  <2>1. ASSUME NEW c \in DOMAIN dev.conns PROVE ConnFine(core, dev.pending, dev.conns[c], c) /\ dev.conns[c] \in ConnType
    BY <1>1, TcpParts DEF ConnsFine
  <2> QED BY <2>1 DEF ConnFine, ConnType, Tcp!NeverReadDisposed
<1>4. Tcp!AnsweredReleased
  BY <1>1 DEF Life, Stage, Tcp!AnsweredReleased
<1> QED BY <1>2, <1>3, <1>4 DEF Tcp!OneOperation

-----------------------------------------------------------------------------
(***************************************************************************)
(* The filesystem device.  A file in use by a request has its capability,  *)
(* so that it is not closed before the core is disposed of; one whose loss *)
(* the device was told of has not.                                         *)
(***************************************************************************)
FileType == [cap : BOOLEAN, pairFirst : BOOLEAN, told : BOOLEAN, open : BOOLEAN, locked : BOOLEAN,
             dropped : BOOLEAN, closes : Nat]
FsType == [memory : BOOLEAN, files : Seq(FileType), pending : SUBSET Reqs, orphans : Nat]
FsCallable == Fs!FileKinds \cup {"open", "stat"}

FileFine(k, pending, file, f) ==
  /\ \A r \in Reqs, kind \in Fs!FileKinds : On(k, r, kind, f) /\ Keeps(k, r) => file.cap
  /\ ~file.dropped /\ (file.told => ~file.cap)
  /\ ~k.disposed =>
       /\ file.open = ~file.told /\ file.closes = IF file.told THEN 1 ELSE 0
       /\ file.locked => \E r \in pending, kind \in Fs!FileKinds : On(k, r, kind, f)
  /\ \A r \in pending, kind \in Fs!FileKinds : On(k, r, kind, f) => file.locked
FilesFine(k, d) ==
  /\ \A f \in DOMAIN d.files : FileFine(k, d.pending, d.files[f], f)
  /\ \A r, s \in d.pending :
       k.asked[r].kind \in Fs!FileKinds /\ k.asked[s].kind \in Fs!FileKinds
         /\ k.asked[r].on = k.asked[s].on => r = s
  /\ \A r \in Reqs : k.asked[r].kind \in Fs!FileKinds => k.asked[r].on \in DOMAIN d.files

(* Only the callbacks of requests are deferred.                            *)
NoRelease(k) == \A l \in Nat : ~Awaits(k, Tcp!ReleaseOf(l))

FsInv ==
  /\ core \in CoreType(Fs!Kinds) /\ dev \in FsType
  /\ Life(core, dev.pending, FsCallable) /\ NoRelease(core)
  /\ FilesFine(core, dev)

(* The parts of the device.                                                *)
LEMMA FsParts ==
  ASSUME NEW d \in FsType
  PROVE  /\ d.files \in Seq(FileType) /\ d.memory \in BOOLEAN /\ d.orphans \in Nat /\ d.pending \subseteq Reqs
         /\ \A f \in DOMAIN d.files : f \in Nat /\ d.files[f] \in FileType
<1>1. d.files \in Seq(FileType) /\ d.memory \in BOOLEAN /\ d.orphans \in Nat /\ d.pending \subseteq Reqs
  BY DEF FsType
<1>2. PICK T, s : T = FileType /\ s = d.files
  OBVIOUS
<1>3. s \in Seq(T)
  BY <1>1, <1>2
<1>4. \A f \in DOMAIN s : f \in Nat /\ s[f] \in T
  BY ONLY <1>3, LenProperties, ElementOfSeq
<1> QED BY <1>1, <1>2, <1>4

(* A file whose requests a step leaves alone.                              *)
LEMMA FileElse ==
  ASSUME NEW k, NEW j, NEW P, NEW Q, NEW file, NEW f, Later(k, j), FileFine(k, P, file, f),
         P \subseteq Reqs, Q \subseteq Reqs,
         \A r \in Reqs : k.asked[r].kind \in Fs!FileKinds /\ k.asked[r].on = f =>
           (r \in Q => r \in P) /\ (r \in P /\ ~j.disposed => r \in Q)
  PROVE  FileFine(j, Q, file, f)
<1>1. /\ \A r \in Reqs : j.asked[r] = k.asked[r] /\ (Keeps(j, r) => Keeps(k, r))
      /\ k.disposed => j.disposed
  BY DEF Later
<1>2. \A r \in Reqs : \A kind : On(j, r, kind, f) <=> On(k, r, kind, f)
  BY <1>1 DEF On
<1>3. \A r \in Reqs, kind \in Fs!FileKinds :
        On(k, r, kind, f) => (r \in Q => r \in P) /\ (r \in P /\ ~j.disposed => r \in Q)
  BY DEF On
<1>4. ~j.disposed /\ file.locked => \E r \in Q, kind \in Fs!FileKinds : On(j, r, kind, f)
  BY <1>1, <1>2, <1>3 DEF FileFine
<1>5. \A r \in Q, kind \in Fs!FileKinds : On(j, r, kind, f) => file.locked
  BY <1>2, <1>3 DEF FileFine
<1>6. \A r \in Reqs, kind \in Fs!FileKinds : On(j, r, kind, f) /\ Keeps(j, r) => file.cap
  BY <1>1, <1>2 DEF FileFine
<1> QED BY <1>1, <1>4, <1>5, <1>6 DEF FileFine

(* The files, when requests of none of them come or go.                    *)
LEMMA FilesElse ==
  ASSUME NEW k, NEW j, NEW d, NEW e, Later(k, j), FilesFine(k, d), e.files = d.files,
         d.pending \subseteq Reqs, e.pending \subseteq Reqs,
         \A r \in Reqs : k.asked[r].kind \in Fs!FileKinds =>
           (r \in e.pending => r \in d.pending) /\ (r \in d.pending /\ ~j.disposed => r \in e.pending)
  PROVE  FilesFine(j, e)
<1>1. \A r \in Reqs : j.asked[r] = k.asked[r]
  BY DEF Later
<1>2. ASSUME NEW f \in DOMAIN e.files PROVE FileFine(j, e.pending, e.files[f], f)
  <2>1. FileFine(k, d.pending, d.files[f], f)
    BY DEF FilesFine
  <2>2. \A r \in Reqs : k.asked[r].kind \in Fs!FileKinds /\ k.asked[r].on = f =>
           (r \in e.pending => r \in d.pending) /\ (r \in d.pending /\ ~j.disposed => r \in e.pending)
    OBVIOUS
  <2> QED BY <2>1, <2>2, FileElse
<1>3. \A r, s \in e.pending :
        j.asked[r].kind \in Fs!FileKinds /\ j.asked[s].kind \in Fs!FileKinds /\ j.asked[r].on = j.asked[s].on => r = s
  BY <1>1 DEF FilesFine
<1>4. \A r \in Reqs : j.asked[r].kind \in Fs!FileKinds => j.asked[r].on \in DOMAIN e.files
  BY <1>1 DEF FilesFine
<1> QED BY <1>2, <1>3, <1>4 DEF FilesFine

(* One file changes, and the requests of it that are worked on.            *)
LEMMA FilesPut ==
  ASSUME NEW k, NEW j, NEW d, NEW e, Later(k, j), FilesFine(k, d), NEW f \in DOMAIN d.files,
         DOMAIN e.files = DOMAIN d.files, \A b \in DOMAIN d.files : b # f => e.files[b] = d.files[b],
         FileFine(j, e.pending, e.files[f], f), d.pending \subseteq Reqs, e.pending \subseteq Reqs,
         \A r \in Reqs : k.asked[r].kind \in Fs!FileKinds /\ k.asked[r].on # f =>
           (r \in e.pending => r \in d.pending) /\ (r \in d.pending /\ ~j.disposed => r \in e.pending),
         \A r, s \in e.pending :
           k.asked[r].kind \in Fs!FileKinds /\ k.asked[s].kind \in Fs!FileKinds /\ k.asked[r].on = k.asked[s].on => r = s
  PROVE  FilesFine(j, e)
<1>1. \A r \in Reqs : j.asked[r] = k.asked[r]
  BY DEF Later
<1>2. ASSUME NEW b \in DOMAIN e.files PROVE FileFine(j, e.pending, e.files[b], b)
  <2>1. CASE b = f
    BY <2>1
  <2>2. CASE b # f
    <3>1. FileFine(k, d.pending, d.files[b], b) /\ e.files[b] = d.files[b]
      BY <2>2 DEF FilesFine
    <3>2. \A r \in Reqs : k.asked[r].kind \in Fs!FileKinds /\ k.asked[r].on = b =>
             (r \in e.pending => r \in d.pending) /\ (r \in d.pending /\ ~j.disposed => r \in e.pending)
      BY <2>2
    <3> QED BY <3>1, <3>2, FileElse
  <2> QED BY <2>1, <2>2
<1>3. \A r, s \in e.pending :
        j.asked[r].kind \in Fs!FileKinds /\ j.asked[s].kind \in Fs!FileKinds /\ j.asked[r].on = j.asked[s].on => r = s
  BY <1>1
<1>4. \A r \in Reqs : j.asked[r].kind \in Fs!FileKinds => j.asked[r].on \in DOMAIN e.files
  BY <1>1 DEF FilesFine
<1> QED BY <1>2, <1>3, <1>4 DEF FilesFine

(* One file is replaced, and the device stays one.                         *)
Filed(d, f, new, Q) == [d EXCEPT !.files = [d.files EXCEPT ![f] = new], !.pending = Q]

LEMMA FsPut ==
  ASSUME NEW d \in FsType, NEW f \in DOMAIN d.files, NEW new \in FileType, NEW Q, Q \subseteq Reqs,
         NEW e, e = Filed(d, f, new, Q)
  PROVE  /\ e \in FsType /\ DOMAIN e.files = DOMAIN d.files /\ e.files[f] = new /\ e.pending = Q
         /\ e.files = [d.files EXCEPT ![f] = new]
         /\ \A b \in DOMAIN d.files : b # f => e.files[b] = d.files[b]
<1>1. PICK T, s, t : T = FileType /\ s = d.files /\ t = [s EXCEPT ![f] = new]
  OBVIOUS
<1>2. s \in Seq(T) /\ f \in DOMAIN s /\ new \in T
  BY <1>1, FsParts
<1>3. t \in Seq(T) /\ DOMAIN t = DOMAIN s /\ t[f] = new /\ \A b \in DOMAIN s : b # f => t[b] = s[b]
  BY ONLY <1>1, <1>2, Put
<1>4. e = [d EXCEPT !.files = t, !.pending = Q]
  BY <1>1 DEF Filed
<1>5. e \in FsType /\ e.files = t /\ e.pending = Q
  BY <1>1, <1>3, <1>4 DEF FsType
<1> QED BY <1>1, <1>3, <1>5

(* A file is opened.                                                       *)
LEMMA FsOpened ==
  ASSUME NEW k, NEW j, NEW d \in FsType, Later(k, j), FilesFine(k, d),
         NEW first \in BOOLEAN, NEW e, e = [d EXCEPT !.files = Append(@, Fs!NewFile(first))]
  PROVE  e \in FsType /\ FilesFine(j, e) /\ e.pending = d.pending
<1>1. PICK file : file = Fs!NewFile(first)
  OBVIOUS
<1>2. /\ file \in FileType /\ file.cap = TRUE /\ file.open = TRUE /\ file.locked = FALSE /\ file.dropped = FALSE
      /\ file.closes = 0 /\ file.told = FALSE
  BY <1>1 DEF Fs!NewFile, FileType
<1>3. PICK fs, T, new : fs = d.files /\ T = FileType /\ new = Append(fs, file)
  OBVIOUS
<1>4. fs \in Seq(T) /\ file \in T
  BY <1>2, <1>3, FsParts
<1>5. /\ new \in Seq(T) /\ DOMAIN fs \subseteq DOMAIN new
      /\ \A n \in DOMAIN new : n \in DOMAIN fs => new[n] = fs[n]
      /\ \A n \in DOMAIN new : n \notin DOMAIN fs => new[n] = file
  <2>1. /\ Append(fs, file) \in Seq(T) /\ Len(fs) \in Nat
        /\ DOMAIN fs = 1 .. Len(fs) /\ DOMAIN Append(fs, file) = 1 .. Len(fs) + 1
        /\ \A n \in 1 .. Len(fs) : Append(fs, file)[n] = fs[n]
        /\ Append(fs, file)[Len(fs) + 1] = file
    BY ONLY <1>4, Added
  <2> QED BY <1>3, <2>1
<1>6. e = [d EXCEPT !.files = new]
  BY <1>1, <1>3
<1>7. e \in FsType /\ e.files = new /\ e.pending = d.pending
  BY <1>3, <1>5, <1>6 DEF FsType
<1>8. \A r \in Reqs : j.asked[r] = k.asked[r]
  BY DEF Later
<1>9. d.pending \subseteq Reqs
  BY FsParts
<1>10. ASSUME NEW f \in DOMAIN e.files PROVE FileFine(j, e.pending, e.files[f], f)
  <2>1. CASE f \in DOMAIN d.files
    <3>1. e.files[f] = d.files[f]
      BY <1>3, <1>5, <1>7, <2>1
    <3>2. FileFine(k, d.pending, d.files[f], f)
      BY <2>1 DEF FilesFine
    <3> QED BY <1>7, <1>9, <3>1, <3>2, FileElse
  <2>2. CASE f \notin DOMAIN d.files
    <3>1. e.files[f] = file
      BY <1>3, <1>5, <1>7, <2>2
    <3>2. \A r \in Reqs, kind \in Fs!FileKinds : ~On(j, r, kind, f)
      BY <1>8, <2>2 DEF FilesFine, On
    <3>3. file.open = ~file.told /\ file.closes = IF file.told THEN 1 ELSE 0
      BY ONLY <1>2
    <3>4. ~file.locked /\ ~file.dropped /\ file.cap /\ ~file.told
      BY ONLY <1>2
    <3>5. FileFine(j, d.pending, file, f)
      BY ONLY <1>9, <3>2, <3>3, <3>4 DEF FileFine
    <3> QED BY ONLY <1>7, <3>1, <3>5
  <2> QED BY <2>1, <2>2
<1>11. \A r, s \in e.pending :
        j.asked[r].kind \in Fs!FileKinds /\ j.asked[s].kind \in Fs!FileKinds /\ j.asked[r].on = j.asked[s].on => r = s
  BY <1>7, <1>8, <1>9 DEF FilesFine
<1>12. \A r \in Reqs : j.asked[r].kind \in Fs!FileKinds => j.asked[r].on \in DOMAIN e.files
  BY <1>3, <1>5, <1>7, <1>8 DEF FilesFine
<1> QED BY <1>7, <1>10, <1>11, <1>12 DEF FilesFine

LEMMA FsInit == Fs!Init => FsInv
<1> SUFFICES ASSUME Fs!Init PROVE FsInv
  OBVIOUS
<1>1. PICK eager \in BOOLEAN : core = Tcp!NewCore(eager)
  BY SameCalls DEF Fs!Init
<1>2. /\ core \in CoreType(Fs!Kinds) /\ Life(core, {}, FsCallable)
      /\ \A r \in Reqs : core.asked[r] = Tcp!NoRequest
      /\ \A x : ~Awaits(core, x)
  BY <1>1, CoreNew
<1>3. PICK memory \in BOOLEAN : dev = [memory |-> memory, files |-> <<>>, pending |-> {}, orphans |-> 0]
  BY DEF Fs!Init
<1>4. dev \in FsType /\ dev.files = <<>> /\ dev.pending = {}
  BY <1>3 DEF FsType
<1>5. \A r \in Reqs : core.asked[r].kind = "none"
  BY <1>2 DEF Tcp!NoRequest
<1>6. FilesFine(core, dev) /\ NoRelease(core)
  BY <1>2, <1>4, <1>5 DEF FilesFine, NoRelease, Fs!FileKinds
<1> QED BY <1>2, <1>4, <1>6 DEF FsInv

(* An actor makes a request, of a file whose capability it holds.          *)
LEMMA FsAsk ==
  ASSUME FsInv, NEW r \in Reqs, Fs!Ask(r)
  PROVE  FsInv'
<1>1. PICK q \in      [kind : {"open", "stat", "bad"}, on : {0}]
                 \cup [kind : Fs!FileKinds, on : {f \in DOMAIN dev.files : dev.files[f].cap}] :
        core' = Tcp!Asked(core, r, q)
  BY SameCalls DEF Fs!Ask
<1>2. dev' = dev /\ Tcp!CanAsk(core, r)
  BY SameCalls DEF Fs!Ask
<1>3. /\ core \in CoreType(Fs!Kinds) /\ dev \in FsType /\ Life(core, dev.pending, FsCallable)
      /\ FilesFine(core, dev) /\ NoRelease(core)
  BY DEF FsInv
<1>4. dev.pending \subseteq Reqs
  BY <1>3, FsParts
<1>5. /\ q \in [kind : Fs!Kinds \cup {"none"}, on : Nat] /\ q.kind # "none"
      /\ q.kind \in Fs!FileKinds => q.on \in DOMAIN dev.files /\ dev.files[q.on].cap
  BY <1>3, FsParts DEF Fs!Kinds, Fs!FileKinds
<1>6. /\ core' \in CoreType(Fs!Kinds) /\ Life(core', dev.pending, FsCallable)
      /\ core'.disposed = core.disposed /\ r \notin dev.pending /\ core'.asked[r] = q /\ ~Keeps(core, r)
      /\ \A s \in Reqs : s # r => core'.asked[s] = core.asked[s] /\ Keeps(core', s) = Keeps(core, s)
      /\ \A x : Awaits(core', x) = Awaits(core, x)
  BY <1>1, <1>2, <1>3, <1>4, <1>5, LifeAsk
<1>7. \A s \in Reqs : \A kind, f : s # r => (On(core', s, kind, f) <=> On(core, s, kind, f))
  BY <1>6 DEF On
<1>8. ASSUME NEW f \in DOMAIN dev.files PROVE FileFine(core', dev.pending, dev.files[f], f)
  <2>1. FileFine(core, dev.pending, dev.files[f], f)
    BY <1>3 DEF FilesFine
  <2>2. ASSUME NEW s \in Reqs, NEW kind \in Fs!FileKinds, On(core', s, kind, f), Keeps(core', s)
        PROVE  dev.files[f].cap
    <3>1. CASE s = r
      BY <1>5, <1>6, <2>2, <3>1 DEF On
    <3>2. CASE s # r
      BY <1>6, <1>7, <2>1, <2>2, <3>2 DEF FileFine
    <3> QED BY <3>1, <3>2
  <2>3. \A s \in dev.pending : \A kind : On(core', s, kind, f) <=> On(core, s, kind, f)
    BY <1>4, <1>6, <1>7
  <2> QED BY <1>6, <2>1, <2>2, <2>3 DEF FileFine
<1>9. \A s, t \in dev.pending :
        core'.asked[s].kind \in Fs!FileKinds /\ core'.asked[t].kind \in Fs!FileKinds
          /\ core'.asked[s].on = core'.asked[t].on => s = t
  BY <1>3, <1>4, <1>6 DEF FilesFine
<1>10. \A s \in Reqs : core'.asked[s].kind \in Fs!FileKinds => core'.asked[s].on \in DOMAIN dev.files
  BY <1>3, <1>5, <1>6 DEF FilesFine
<1>11. FilesFine(core', dev')
  BY <1>2, <1>8, <1>9, <1>10 DEF FilesFine
<1>12. NoRelease(core')
  BY <1>3, <1>6 DEF NoRelease
<1> QED BY <1>2, <1>3, <1>6, <1>11, <1>12 DEF FsInv

(* The device takes an event.                                              *)
LEMMA FsHandle ==
  ASSUME FsInv, Fs!Handle
  PROVE  FsInv'
<1>1. PICK r, q : r = Tcp!Next1(core) /\ q = core.asked[r]
  OBVIOUS
<1>2. core.wasm /\ core.queue # <<>> /\ dev' = dev
  BY DEF Fs!Handle, Fs!CanHandle
<1>3. /\ core \in CoreType(Fs!Kinds) /\ dev \in FsType /\ Life(core, dev.pending, FsCallable)
      /\ FilesFine(core, dev) /\ NoRelease(core)
  BY DEF FsInv
<1>4. dev.pending \subseteq Reqs
  BY <1>3, FsParts
<1>5. r \in Reqs /\ Queued(core, r)
  BY <1>1, <1>2, <1>3, Dequeued
<1>6. q.kind \in Fs!Kinds /\ ~Awaits(core, Tcp!Callback(r))
  <2>1. Stage(core, dev.pending, FsCallable, r)
    BY <1>3, <1>5 DEF Life
  <2>2. q \in [kind : Fs!Kinds \cup {"none"}, on : Nat]
    BY <1>1, <1>3, <1>5, CoreParts
  <2> QED BY <1>1, <1>5, <2>1, <2>2 DEF Stage
<1>7. ASSUME core' \in CoreType(Fs!Kinds), Life(core', dev.pending, FsCallable), Later(core, core'), NoRelease(core')
      PROVE  FsInv'
  <2>1. FilesFine(core', dev')
    BY <1>2, <1>3, <1>4, <1>7, FilesElse
  <2> QED BY <1>2, <1>3, <1>7, <2>1 DEF FsInv
<1>8. CASE q.kind = "bad"
  <2>1. core' = Tcp!Rejected(core)
    BY <1>1, <1>8, SameCalls DEF Fs!Handle
  <2>2. /\ core' \in CoreType(Fs!Kinds) /\ Life(core', dev.pending, FsCallable) /\ Later(core, core')
        /\ \A x : Awaits(core', x) = Awaits(core, x)
    BY <1>1, <1>2, <1>3, <2>1, LifeReject
  <2>3. NoRelease(core')
    BY <1>3, <2>2 DEF NoRelease
  <2> QED BY <1>7, <2>2, <2>3
<1>9. CASE q.kind # "bad"
  <2>1. PICK x, t : x = Tcp!Callback(r) /\ t = <<x>>
    OBVIOUS
  <2>2. core' = Tcp!Accepted(core, t)
    BY <1>1, <1>9, <2>1, SameCalls DEF Fs!Handle
  <2>3. x \in Thunk /\ x.do = "request" /\ x.id = r
    BY <1>5, <2>1, Thunks
  <2>4. t \in Seq(Thunk) /\ ToSet(t) = {x} /\ Distinct(t)
    BY <2>1, <2>3, OneThunk
  <2>5. q.kind \in FsCallable
    BY <1>6, <1>9 DEF FsCallable, Fs!Kinds
  <2>6. \A s \in Reqs : Tcp!Callback(s) \in ToSet(t) => s = r /\ core.asked[r].kind \in FsCallable
    BY <1>1, <2>3, <2>4, <2>5, Thunks
  <2>7. \A y \in ToSet(t) : ~Awaits(core, y)
    BY <1>6, <2>1, <2>4
  <2>8. /\ core' \in CoreType(Fs!Kinds) /\ Life(core', dev.pending, FsCallable) /\ Later(core, core')
        /\ \A y : Awaits(core', y) = (Awaits(core, y) \/ y \in ToSet(t))
    BY <1>1, <1>2, <1>3, <2>2, <2>4, <2>6, <2>7, LifeAccept
  <2>9. ASSUME NEW l \in Nat PROVE ~Awaits(core', Tcp!ReleaseOf(l))
    <3>1. Tcp!ReleaseOf(l) # x
      BY <2>3, Thunks
    <3>2. ~Awaits(core, Tcp!ReleaseOf(l)) /\ Tcp!ReleaseOf(l) \notin ToSet(t)
      BY <1>3, <2>4, <3>1 DEF NoRelease
    <3> QED BY <2>8, <3>2
  <2> QED BY <1>7, <2>8, <2>9 DEF NoRelease
<1> QED BY <1>8, <1>9

(* The callback of a request of a file that is not available, or of no     *)
(* file, is answered at once, having opened a file or not.                 *)
LEMMA FsFailed ==
  ASSUME FsInv, Fs!CanCall(core), NEW r \in Reqs, Tcp!NextCallback(core) = Tcp!Callback(r),
         core' = Fs!Answer(Fs!CallbackTaken(core), r),
         dev' = dev \/ \E first \in BOOLEAN : dev' = [dev EXCEPT !.files = Append(@, Fs!NewFile(first))]
  PROVE  FsInv'
<1>1. /\ core \in CoreType(Fs!Kinds) /\ dev \in FsType /\ Life(core, dev.pending, FsCallable)
      /\ FilesFine(core, dev) /\ NoRelease(core) /\ dev.pending \subseteq Reqs
  BY FsParts DEF FsInv
<1>2. PICK K, P, j : K = Fs!Kinds /\ P = dev.pending /\ j = core'
  OBVIOUS
<1>3. core \in CoreType(K) /\ Life(core, P, FsCallable) /\ Tcp!CanCall(core)
  BY <1>1, <1>2, SameCalls
<1>4. j = Tcp!Reply(Tcp!Release(Tcp!CallbackTaken(core), r), r)
  BY <1>2, SameCalls DEF Fs!Answer
<1>5. /\ j \in CoreType(K) /\ Life(j, P, FsCallable) /\ Later(core, j)
      /\ \A y : Awaits(j, y) => Awaits(core, y)
  BY <1>3, <1>4, LifeFailed
<1>6. dev' \in FsType /\ FilesFine(j, dev') /\ dev'.pending = P
  <2>1. CASE dev' = dev
    <3>1. FilesFine(j, dev)
      BY <1>1, <1>5, FilesElse
    <3> QED BY <1>1, <1>2, <2>1, <3>1
  <2>2. ASSUME NEW first \in BOOLEAN, dev' = [dev EXCEPT !.files = Append(@, Fs!NewFile(first))]
        PROVE  dev' \in FsType /\ FilesFine(j, dev') /\ dev'.pending = P
    BY <1>1, <1>2, <1>5, <2>2, FsOpened
  <2> QED BY <2>1, <2>2
<1>7. NoRelease(j)
  BY <1>1, <1>5 DEF NoRelease
<1> QED BY <1>2, <1>5, <1>6, <1>7 DEF FsInv

(* The filesystem begins, and ends later.                                  *)
LEMMA FsBegin ==
  ASSUME FsInv, Fs!CanCall(core), NEW r \in Reqs, Tcp!NextCallback(core) = Tcp!Callback(r),
         NEW q, q = core.asked[r], q.kind \in Fs!FileKinds => ~Fs!Unavailable(q.on),
         core' = Fs!CallbackTaken(core), dev' = Fs!Begun(q, r)
  PROVE  FsInv'
<1>1. /\ core \in CoreType(Fs!Kinds) /\ dev \in FsType /\ Life(core, dev.pending, FsCallable)
      /\ FilesFine(core, dev) /\ NoRelease(core) /\ dev.pending \subseteq Reqs
  BY FsParts DEF FsInv
<1>2. PICK K, P, Q, j : K = Fs!Kinds /\ P = dev.pending /\ Q = P \cup {r} /\ j = core'
  OBVIOUS
<1>3. core \in CoreType(K) /\ Life(core, P, FsCallable) /\ Tcp!CanCall(core) /\ j = Tcp!CallbackTaken(core)
  BY <1>1, <1>2, SameCalls
<1>4. /\ j \in CoreType(K) /\ Life(j, P \cup {r}, FsCallable) /\ Later(core, j)
      /\ ~core.disposed /\ ~j.disposed /\ r \notin P /\ core.stub[r] = 1
      /\ \A y : Awaits(j, y) => Awaits(core, y)
  BY <1>3, LifeBegun
<1>5. Q \subseteq Reqs /\ P \subseteq Reqs
  BY <1>1, <1>2
<1>6. NoRelease(j)
  BY <1>1, <1>4 DEF NoRelease
<1>7. CASE q.kind \notin Fs!FileKinds
  <2>1. dev' = [dev EXCEPT !.pending = Q]
    BY <1>2, <1>7 DEF Fs!Begun
  <2>2. dev' \in FsType /\ dev'.files = dev.files /\ dev'.pending = Q
    BY <1>1, <1>5, <2>1 DEF FsType
  <2>3. \A s \in Reqs : core.asked[s].kind \in Fs!FileKinds =>
          (s \in dev'.pending => s \in dev.pending) /\ (s \in dev.pending => s \in dev'.pending)
    BY <1>2, <1>7, <2>2
  <2>4. FilesFine(j, dev')
    BY <1>1, <1>2, <1>4, <1>5, <2>2, <2>3, FilesElse
  <2> QED BY <1>2, <1>4, <1>6, <2>2, <2>4 DEF FsInv
<1>8. CASE q.kind \in Fs!FileKinds
  <2>1. PICK f, file, new : f = q.on /\ file = dev.files[f] /\ new = [file EXCEPT !.locked = TRUE]
    OBVIOUS
  <2>2. f \in DOMAIN dev.files /\ file \in FileType
    BY <1>1, <1>8, <2>1, FsParts DEF FilesFine
  <2>3. FileFine(core, P, file, f) /\ On(core, r, q.kind, f) /\ Keeps(core, r)
    BY <1>1, <1>2, <1>4, <2>1, <2>2 DEF FilesFine, On, Keeps
  <2>4. /\ file.cap /\ ~file.told /\ file.open = ~file.told /\ file.closes = 0 /\ ~file.locked
    BY <1>4, <1>8, <2>1, <2>3 DEF FileFine, Fs!Unavailable
  <2>5. /\ new \in FileType /\ new.cap = file.cap /\ new.open = file.open /\ new.closes = file.closes
        /\ new.locked = TRUE /\ new.dropped = file.dropped /\ new.told = file.told
    BY <2>1, <2>2 DEF FileType
  <2>6. dev' = Filed(dev, f, new, Q)
    BY <1>1, <1>2, <1>8, <2>1 DEF Filed, Fs!Begun, FsType
  <2>7. /\ dev' \in FsType /\ DOMAIN dev'.files = DOMAIN dev.files /\ dev'.files[f] = new /\ dev'.pending = Q
        /\ \A b \in DOMAIN dev.files : b # f => dev'.files[b] = dev.files[b]
    <3>1. PICK d, e : d = dev /\ e = dev'
      OBVIOUS
    <3>2. d \in FsType /\ f \in DOMAIN d.files /\ new \in FileType /\ Q \subseteq Reqs /\ e = Filed(d, f, new, Q)
      BY <1>1, <1>5, <2>2, <2>5, <2>6, <3>1
    <3>3. /\ e \in FsType /\ DOMAIN e.files = DOMAIN d.files /\ e.files[f] = new /\ e.pending = Q
          /\ e.files = [d.files EXCEPT ![f] = new]
          /\ \A b \in DOMAIN d.files : b # f => e.files[b] = d.files[b]
      BY ONLY <3>2, FsPut
    <3> QED BY ONLY <3>1, <3>3
  <2>8. \A s \in Reqs : \A kind : On(j, s, kind, f) <=> On(core, s, kind, f)
    BY <1>4 DEF On, Later
  <2>9. r \in Q /\ On(j, r, q.kind, f)
    BY <1>2, <2>3, <2>8
  <2>10. FileFine(j, Q, new, f)
    <3>1. \A s \in Reqs, kind \in Fs!FileKinds : On(j, s, kind, f) /\ Keeps(j, s) => new.cap
      BY <2>4, <2>5
    <3>2. new.open = ~new.told /\ new.closes = (IF new.told THEN 1 ELSE 0) /\ ~new.told
      BY <2>4, <2>5
    <3>3. \E s \in Q, kind \in Fs!FileKinds : On(j, s, kind, f)
      BY <1>8, <2>9
    <3>4. ~new.dropped /\ new.locked
      BY <2>3, <2>5 DEF FileFine
    <3> QED BY <3>1, <3>2, <3>3, <3>4 DEF FileFine
  <2>11. \A s \in P : ~(core.asked[s].kind \in Fs!FileKinds /\ core.asked[s].on = f)
    BY <2>3, <2>4 DEF FileFine, On
  <2>12. \A s, t \in Q :
           core.asked[s].kind \in Fs!FileKinds /\ core.asked[t].kind \in Fs!FileKinds
             /\ core.asked[s].on = core.asked[t].on => s = t
    <3>1. core.asked[r].on = f
      BY <2>1
    <3> QED BY <1>1, <1>2, <2>11, <3>1 DEF FilesFine
  <2>13. \A s \in Reqs : core.asked[s].kind \in Fs!FileKinds /\ core.asked[s].on # f =>
           (s \in Q => s \in dev.pending) /\ (s \in dev.pending => s \in Q)
    BY <1>2, <2>1
  <2>14. FilesFine(j, dev')
    BY <1>1, <1>4, <1>5, <2>2, <2>7, <2>10, <2>12, <2>13, FilesPut
  <2> QED BY <1>2, <1>4, <1>6, <2>7, <2>14 DEF FsInv
<1> QED BY <1>7, <1>8

(* A callback runs.                                                        *)
LEMMA FsCall ==
  ASSUME FsInv, Fs!Call
  PROVE  FsInv'
<1>1. /\ core \in CoreType(Fs!Kinds) /\ dev \in FsType /\ Life(core, dev.pending, FsCallable)
      /\ FilesFine(core, dev) /\ NoRelease(core) /\ Fs!CanCall(core) /\ dev.pending \subseteq Reqs
  BY FsParts DEF FsInv, Fs!Call
<1>2. PICK K, P, x : K = Fs!Kinds /\ P = dev.pending /\ x = Tcp!NextCallback(core)
  OBVIOUS
<1>3. core \in CoreType(K) /\ Life(core, P, FsCallable) /\ Tcp!CanCall(core)
  BY <1>1, <1>2, SameCalls
<1>4. x \in Thunk /\ Awaits(core, x)
  BY <1>2, <1>3, Taken
<1>5. PICK r \in Reqs : x = Tcp!Callback(r)
  BY <1>1, <1>4 DEF Thunk, NoRelease
<1>6. x.id = r /\ Fs!NextCallback(core) = x
  BY <1>2, <1>5, Thunks, SameCalls
<1>7. PICK q, i : q = core.asked[r] /\ i = Fs!CallbackTaken(core)
  OBVIOUS
<1>8. r \notin P /\ q.kind \in FsCallable
  <2>1. Tcp!NextCallback(core) = Tcp!Callback(r)
    BY <1>2, <1>5
  <2>2. PICK m : m = Tcp!CallbackTaken(core)
    OBVIOUS
  <2>3. /\ m \in CoreType(K) /\ Life(m, P \cup {r}, FsCallable)
        /\ r \notin P /\ core.asked[r].kind \in FsCallable
    BY ONLY <1>3, <2>1, <2>2, r \in Reqs, LifeBegun
  <2> QED BY <1>7, <2>3
<1>9. CASE q.kind \in Fs!FileKinds /\ Fs!Unavailable(q.on)
  <2>1. core' = Fs!Answer(i, r) /\ dev' = dev
    BY <1>6, <1>7, <1>9 DEF Fs!Call
  <2> QED BY <1>1, <1>2, <1>5, <1>7, <2>1, FsFailed
<1>10. CASE ~(q.kind \in Fs!FileKinds /\ Fs!Unavailable(q.on)) /\ ~dev.memory
  <2>1. core' = i /\ dev' = Fs!Begun(q, r)
    BY <1>6, <1>7, <1>10 DEF Fs!Call
  <2> QED BY <1>1, <1>2, <1>5, <1>7, <1>10, <2>1, FsBegin
<1>11. CASE ~(q.kind \in Fs!FileKinds /\ Fs!Unavailable(q.on)) /\ dev.memory
  <2>1. core' = Fs!Answer(i, r) /\ dev' \in Fs!Ended(Fs!Begun(q, r), q, r)
    BY <1>6, <1>7, <1>11 DEF Fs!Call
  <2>2. (P \cup {r}) \ {r} = P
    BY <1>8
  <2>3. CASE q.kind \notin Fs!FileKinds
    <3>1. PICK b : b = Fs!Begun(q, r)
      OBVIOUS
    <3>2. b = [dev EXCEPT !.pending = P \cup {r}]
      BY <1>2, <2>3, <3>1 DEF Fs!Begun
    <3>3. [b EXCEPT !.pending = @ \ {r}] = dev
      BY <1>1, <1>2, <2>2, <3>2 DEF FsType
    <3>4. dev' = dev \/ \E first \in BOOLEAN : dev' = [dev EXCEPT !.files = Append(@, Fs!NewFile(first))]
      BY <2>1, <2>3, <3>1, <3>3 DEF Fs!Ended
    <3> QED BY <1>1, <1>2, <1>5, <1>7, <2>1, <3>4, FsFailed
  <2>4. CASE q.kind \in Fs!FileKinds
    <3>1. PICK f, file, s : f = q.on /\ file = dev.files[f] /\ s = dev.files
      OBVIOUS
    <3>2. f \in DOMAIN s /\ file \in FileType /\ FileFine(core, P, file, f)
      BY <1>1, <1>2, <1>7, <2>4, <3>1, FsParts DEF FilesFine
    <3>3. file.locked = FALSE /\ file.dropped = FALSE
      BY <1>11, <2>4, <3>1, <3>2 DEF FileFine, FileType, Fs!Unavailable
    <3>4. PICK file1 : file1 = [file EXCEPT !.locked = TRUE]
      OBVIOUS
    <3>5. file1.dropped = FALSE /\ [file1 EXCEPT !.locked = FALSE] = file
      BY <3>2, <3>3, <3>4 DEF FileType
    <3>6. PICK s1 : s1 = [s EXCEPT ![f] = file1]
      OBVIOUS
    <3>7. s1[f] = file1 /\ [s1 EXCEPT ![f].locked = FALSE] = s
      <4>1. PICK T : T = FileType
        OBVIOUS
      <4>2. s \in Seq(T)
        BY <1>1, <3>1, <4>1, FsParts
      <4>3. s \in [DOMAIN s -> T]
        BY ONLY <4>2, LenProperties
      <4> QED BY <3>1, <3>2, <3>5, <3>6, <4>3
    <3>8. PICK b : b = Fs!Begun(q, r)
      OBVIOUS
    <3>9. b = [dev EXCEPT !.pending = P \cup {r}, !.files = s1]
      BY <1>1, <1>2, <2>4, <3>1, <3>4, <3>6, <3>8 DEF Fs!Begun, FsType
    <3>10. PICK d1 : d1 = [b EXCEPT !.pending = @ \ {r}]
      OBVIOUS
    <3>11. d1 = [dev EXCEPT !.files = s1] /\ d1.files = s1
      BY <1>1, <1>2, <2>2, <3>9, <3>10 DEF FsType
    <3>12. PICK d2 : d2 = [d1 EXCEPT !.files[f].locked = FALSE]
      OBVIOUS
    <3>13. d2 = dev
      BY <1>1, <3>1, <3>7, <3>11, <3>12 DEF FsType
    <3>14. Fs!Ended(b, q, r) = {IF d1.files[f].dropped THEN Fs!Close(d2, f) ELSE d2}
      BY ONLY <2>4, <3>1, <3>10, <3>12 DEF Fs!Ended, Fs!FileKinds
    <3>15. d1.files[f].dropped = FALSE
      BY <3>5, <3>7, <3>11
    <3>16. dev' = dev
      BY ONLY <2>1, <3>8, <3>13, <3>14, <3>15
    <3> QED BY <1>1, <1>2, <1>5, <1>7, <2>1, <3>16, FsFailed
  <2> QED BY <2>3, <2>4
<1> QED BY <1>9, <1>10, <1>11

(* An operation on a file ends, and the file is unlocked.                  *)
Unlocked(d, f, Q) == Filed(d, f, [d.files[f] EXCEPT !.locked = FALSE], Q)

LEMMA FsUnlock ==
  ASSUME FsInv, NEW r \in Reqs, r \in dev.pending, core.asked[r].kind \in Fs!FileKinds,
         NEW j, Later(core, j)
  PROVE  /\ Unlocked(dev, core.asked[r].on, dev.pending \ {r}) \in FsType
         /\ FilesFine(j, Unlocked(dev, core.asked[r].on, dev.pending \ {r}))
         /\ Unlocked(dev, core.asked[r].on, dev.pending \ {r}).pending = dev.pending \ {r}
         /\ core.asked[r].on \in DOMAIN dev.files /\ dev.files[core.asked[r].on].dropped = FALSE
<1>0. PICK q, f, file, e : /\ q = core.asked[r] /\ f = q.on /\ file = dev.files[f]
                           /\ e = Unlocked(dev, f, dev.pending \ {r})
  OBVIOUS
<1>1. /\ core \in CoreType(Fs!Kinds) /\ dev \in FsType /\ FilesFine(core, dev) /\ dev.pending \subseteq Reqs
  BY FsParts DEF FsInv
<1>2. PICK P, Q, new : P = dev.pending /\ Q = P \ {r} /\ new = [file EXCEPT !.locked = FALSE]
  OBVIOUS
<1>3. f \in DOMAIN dev.files /\ file \in FileType /\ FileFine(core, P, file, f)
  BY <1>0, <1>1, <1>2, FsParts DEF FilesFine
<1>4. /\ new \in FileType /\ new.cap = file.cap /\ new.open = file.open /\ new.closes = file.closes
      /\ new.locked = FALSE /\ new.dropped = file.dropped /\ new.told = file.told
  BY <1>2, <1>3 DEF FileType
<1>5. P \subseteq Reqs /\ Q \subseteq Reqs
  BY <1>1, <1>2
<1>6. /\ e \in FsType /\ DOMAIN e.files = DOMAIN dev.files /\ e.files[f] = new /\ e.pending = Q
      /\ \A b \in DOMAIN dev.files : b # f => e.files[b] = dev.files[b]
  <2>1. PICK d : d = dev
    OBVIOUS
  <2>2. d \in FsType /\ f \in DOMAIN d.files /\ new \in FileType /\ Q \subseteq Reqs /\ e = Filed(d, f, new, Q)
    BY <1>0, <1>1, <1>2, <1>3, <1>4, <1>5, <2>1 DEF Unlocked
  <2>3. /\ e \in FsType /\ DOMAIN e.files = DOMAIN d.files /\ e.files[f] = new /\ e.pending = Q
        /\ e.files = [d.files EXCEPT ![f] = new]
        /\ \A b \in DOMAIN d.files : b # f => e.files[b] = d.files[b]
    BY ONLY <2>2, FsPut
  <2> QED BY ONLY <2>1, <2>3
<1>7. \A s \in Reqs : /\ \A kind : On(j, s, kind, f) <=> On(core, s, kind, f)
                      /\ Keeps(j, s) => Keeps(core, s)
  BY DEF On, Later
<1>8. FileFine(j, Q, new, f)
  <2>1. \A s \in Reqs, kind \in Fs!FileKinds : On(j, s, kind, f) /\ Keeps(j, s) => new.cap
    BY <1>3, <1>4, <1>7 DEF FileFine
  <2>2. ~j.disposed => new.open = ~new.told /\ new.closes = IF new.told THEN 1 ELSE 0
    BY <1>3, <1>4 DEF FileFine, Later
  <2>3. \A s \in Q, kind \in Fs!FileKinds : ~On(j, s, kind, f)
    <3>1. ASSUME NEW s \in Q, NEW kind \in Fs!FileKinds, On(j, s, kind, f) PROVE FALSE
      <4>1. s \in P /\ s # r /\ On(core, s, kind, f)
        BY <1>2, <1>5, <1>7, <3>1
      <4>2. core.asked[s].kind \in Fs!FileKinds /\ core.asked[s].on = core.asked[r].on
        BY <1>0, <3>1, <4>1 DEF On
      <4> QED BY <1>0, <1>1, <1>2, <4>1, <4>2 DEF FilesFine
    <3> QED BY <3>1
  <2>4. ~new.dropped /\ ~new.locked /\ (new.told => ~new.cap)
    BY <1>3, <1>4 DEF FileFine
  <2> QED BY <2>1, <2>2, <2>3, <2>4 DEF FileFine
<1>9. \A s, t \in Q :
        core.asked[s].kind \in Fs!FileKinds /\ core.asked[t].kind \in Fs!FileKinds
          /\ core.asked[s].on = core.asked[t].on => s = t
  BY <1>1, <1>2 DEF FilesFine
<1>10. \A s \in Reqs : core.asked[s].kind \in Fs!FileKinds /\ core.asked[s].on # f =>
         (s \in Q => s \in dev.pending) /\ (s \in dev.pending => s \in Q)
  BY <1>0, <1>2
<1>11. FilesFine(j, e)
  <2>1. PICK k, d : k = core /\ d = dev
    OBVIOUS
  <2>2. /\ Later(k, j) /\ FilesFine(k, d) /\ f \in DOMAIN d.files
        /\ DOMAIN e.files = DOMAIN d.files /\ \A b \in DOMAIN d.files : b # f => e.files[b] = d.files[b]
        /\ FileFine(j, e.pending, e.files[f], f) /\ d.pending \subseteq Reqs /\ e.pending \subseteq Reqs
    <3>1. Later(k, j) /\ FilesFine(k, d) /\ f \in DOMAIN d.files
      BY ONLY Later(core, j), <1>1, <1>3, <2>1
    <3>2. DOMAIN e.files = DOMAIN d.files /\ \A b \in DOMAIN d.files : b # f => e.files[b] = d.files[b]
      BY ONLY <1>6, <2>1
    <3>3. FileFine(j, e.pending, e.files[f], f)
      BY ONLY <1>6, <1>8
    <3>4. d.pending \subseteq Reqs /\ e.pending \subseteq Reqs
      BY ONLY <1>1, <1>5, <1>6, <2>1
    <3> QED BY ONLY <3>1, <3>2, <3>3, <3>4
  <2>3. \A s \in Reqs : k.asked[s].kind \in Fs!FileKinds /\ k.asked[s].on # f =>
          (s \in e.pending => s \in d.pending) /\ (s \in d.pending /\ ~j.disposed => s \in e.pending)
    BY <1>6, <1>10, <2>1
  <2>4. \A s, t \in e.pending :
          k.asked[s].kind \in Fs!FileKinds /\ k.asked[t].kind \in Fs!FileKinds
            /\ k.asked[s].on = k.asked[t].on => s = t
    BY <1>6, <1>9, <2>1
  <2> QED BY ONLY <2>2, <2>3, <2>4, FilesPut
<1>12. file.dropped = FALSE
  BY <1>3 DEF FileFine, FileType
<1> QED BY <1>0, <1>2, <1>3, <1>6, <1>11, <1>12

(* An operation of the filesystem ends.                                    *)
LEMMA FsComplete ==
  ASSUME FsInv, NEW r \in Reqs, Fs!Complete(r)
  PROVE  FsInv'
<1>1. /\ core \in CoreType(Fs!Kinds) /\ dev \in FsType /\ Life(core, dev.pending, FsCallable)
      /\ FilesFine(core, dev) /\ NoRelease(core) /\ r \in dev.pending
  BY DEF FsInv, Fs!Complete
<1>2. PICK K, P, Q, q, d1, j : /\ K = Fs!Kinds /\ P = dev.pending /\ Q = P \ {r} /\ q = core.asked[r]
                               /\ d1 = [dev EXCEPT !.pending = Q] /\ j = core'
  OBVIOUS
<1>3. core \in CoreType(K) /\ Life(core, P, FsCallable) /\ r \in P /\ P \subseteq Reqs /\ Q \subseteq Reqs
  BY <1>1, <1>2, FsParts
<1>4. d1 \in FsType /\ d1.files = dev.files /\ d1.pending = Q /\ d1.orphans = dev.orphans
  BY <1>1, <1>2, <1>3 DEF FsType
<1>5. PICK f, e : f = q.on /\ e = Unlocked(dev, f, Q)
  OBVIOUS
<1>6. ASSUME Later(core, j), q.kind \in Fs!FileKinds
      PROVE  /\ e \in FsType /\ FilesFine(j, e) /\ e.pending = Q
             /\ f \in DOMAIN dev.files /\ dev.files[f].dropped = FALSE
  BY <1>1, <1>2, <1>5, <1>6, FsUnlock
<1>7. ASSUME \/ ~core.disposed /\ j = Tcp!Reply(Tcp!Release(core, r), r)
             \/ core.disposed /\ j = [Tcp!Release(core, r) EXCEPT !.answers[r] = @ + 1]
      PROVE  j \in CoreType(K) /\ Life(j, Q, FsCallable) /\ Later(core, j) /\ NoRelease(j)
  <2>1. /\ j \in CoreType(K) /\ Life(j, P \ {r}, FsCallable) /\ Later(core, j) /\ j.disposed = core.disposed
        /\ ~Queued(core, r) /\ j.stub[r] = 0
        /\ \A y : Awaits(j, y) <=> Awaits(core, y)
    BY <1>3, <1>7, LifeAnswer
  <2> QED BY <1>1, <1>2, <2>1 DEF NoRelease
<1>8. CASE ~core.disposed
  <2>1. j = Tcp!Reply(Tcp!Release(core, r), r) /\ dev' \in Fs!Ended(dev, q, r)
    BY <1>2, <1>8, SameCalls DEF Fs!Complete, Fs!Answer
  <2>2. j \in CoreType(K) /\ Life(j, Q, FsCallable) /\ Later(core, j) /\ NoRelease(j)
    BY <1>7, <1>8, <2>1
  <2>3. CASE q.kind \in Fs!FileKinds
    <3>1. f \in DOMAIN dev.files /\ dev.files[f].dropped = FALSE /\ e \in FsType /\ FilesFine(j, e) /\ e.pending = Q
      BY <1>6, <2>2, <2>3
    <3>2. PICK d2 : d2 = [d1 EXCEPT !.files[f].locked = FALSE]
      OBVIOUS
    <3>3. d2 = e
      BY <1>1, <1>2, <1>4, <1>5, <3>2 DEF Unlocked, Filed, FsType
    <3>4. Fs!Ended(dev, q, r) = {IF d1.files[f].dropped THEN Fs!Close(d2, f) ELSE d2}
      BY <1>2, <1>5, <2>3, <3>2 DEF Fs!Ended, Fs!FileKinds
    <3>5. dev' = e
      BY <1>4, <1>5, <2>1, <3>1, <3>3, <3>4
    <3> QED BY <1>2, <2>2, <3>1, <3>5 DEF FsInv
  <2>4. CASE q.kind \notin Fs!FileKinds
    <3>1. dev' = d1 \/ \E first \in BOOLEAN : dev' = [d1 EXCEPT !.files = Append(@, Fs!NewFile(first))]
      BY <1>2, <2>1, <2>4 DEF Fs!Ended
    <3>2. \A s \in Reqs : core.asked[s].kind \in Fs!FileKinds =>
            (s \in d1.pending => s \in dev.pending) /\ (s \in dev.pending => s \in d1.pending)
      BY <1>2, <1>4, <2>4
    <3>3. FilesFine(j, d1)
      BY <1>1, <1>2, <1>3, <1>4, <2>2, <3>2, FilesElse
    <3>4. dev' \in FsType /\ FilesFine(j, dev') /\ dev'.pending = Q
      <4>1. CASE dev' = d1
        BY <1>4, <3>3, <4>1
      <4>2. ASSUME NEW first \in BOOLEAN, dev' = [d1 EXCEPT !.files = Append(@, Fs!NewFile(first))]
            PROVE  dev' \in FsType /\ FilesFine(j, dev') /\ dev'.pending = Q
        <5>1. Later(j, j)
          BY DEF Later
        <5> QED BY <1>4, <3>3, <4>2, <5>1, FsOpened
      <4> QED BY <3>1, <4>1, <4>2
    <3> QED BY <1>2, <2>2, <3>4 DEF FsInv
  <2> QED BY <2>3, <2>4
<1>9. CASE core.disposed /\ q.kind = "read"
  <2>1. j = [Tcp!Release(core, r) EXCEPT !.answers[r] = @ + 1]
    BY <1>2, <1>9, SameCalls DEF Fs!Complete
  <2>2. j \in CoreType(K) /\ Life(j, Q, FsCallable) /\ Later(core, j) /\ NoRelease(j)
    BY <1>7, <1>9, <2>1
  <2>3. q.kind \in Fs!FileKinds
    BY <1>9 DEF Fs!FileKinds
  <2>4. dev' = e
    BY <1>1, <1>2, <1>5, <1>9 DEF Fs!Complete, Unlocked, Filed, FsType
  <2> QED BY <1>2, <1>6, <2>2, <2>3, <2>4 DEF FsInv
<1>10. CASE core.disposed /\ q.kind # "read"
  <2>1. /\ j = core
        /\ dev' = [dev EXCEPT !.pending = @ \ {r}, !.orphans = IF q.kind = "open" THEN @ + 1 ELSE @]
    BY <1>2, <1>10 DEF Fs!Complete
  <2>2. dev' \in FsType /\ dev'.files = dev.files /\ dev'.pending = Q
    <3>1. PICK n : n = IF q.kind = "open" THEN dev.orphans + 1 ELSE dev.orphans
      OBVIOUS
    <3>2. dev.orphans \in Nat
      BY <1>1, FsParts
    <3>3. n \in Nat
      BY ONLY <3>1, <3>2
    <3>4. dev' = [dev EXCEPT !.pending = Q, !.orphans = n]
      BY ONLY <1>2, <2>1, <3>1, Zenon
    <3> QED BY <1>1, <1>3, <3>3, <3>4 DEF FsType
  <2>3. Life(j, Q, FsCallable)
    BY <1>2, <1>3, <2>1, LifeGivenUp
  <2>4. Later(core, j)
    BY <2>1 DEF Later
  <2>5. \A s \in Reqs : core.asked[s].kind \in Fs!FileKinds =>
          (s \in dev'.pending => s \in dev.pending) /\ (s \in dev.pending /\ ~j.disposed => s \in dev'.pending)
    BY <1>2, <1>10, <2>1, <2>2
  <2>6. FilesFine(j, dev')
    BY <1>1, <1>2, <1>3, <2>2, <2>4, <2>5, FilesElse
  <2> QED BY <1>1, <1>2, <2>1, <2>2, <2>3, <2>6 DEF FsInv
<1> QED BY <1>8, <1>9, <1>10

(* A file's capability is dropped: no request keeps it, so that the file   *)
(* is not locked, and is closed if the device is told.                     *)
LEMMA FsDrop ==
  ASSUME FsInv, NEW f \in DOMAIN dev.files, Fs!Drop(f)
  PROVE  FsInv'
<1>1. /\ core \in CoreType(Fs!Kinds) /\ dev \in FsType /\ Life(core, dev.pending, FsCallable)
      /\ FilesFine(core, dev) /\ NoRelease(core) /\ dev.pending \subseteq Reqs
  BY FsParts DEF FsInv
<1>2. PICK P, file : P = dev.pending /\ file = dev.files[f]
  OBVIOUS
<1>3. file \in FileType /\ file.cap = TRUE /\ P \subseteq Reqs /\ FileFine(core, P, file, f) /\ ~core.disposed
  BY <1>1, <1>2, FsParts DEF FilesFine, Fs!Drop, Life, FileType
<1>4. /\ core' = core /\ Later(core, core')
      /\ \A r \in Reqs, kind \in Fs!FileKinds : On(core, r, kind, f) => ~Keeps(core, r)
  <2>1. core' = core /\ ~Fs!InUse(core, Fs!FileKinds, f)
    BY DEF Fs!Drop
  <2>2. ASSUME NEW r \in Reqs, NEW kind \in Fs!FileKinds, On(core, r, kind, f) PROVE ~Keeps(core, r)
    <3>1. ~(Fs!Contains(core.queue, r) \/ core.stub[r] > 0)
      BY <2>1, <2>2 DEF Fs!InUse, On
    <3>2. core.queue \in Seq(Reqs)
      BY <1>1, CoreParts
    <3>3. ~Queued(core, r)
      <4>1. PICK s : s = core.queue
        OBVIOUS
      <4>2. s \in Seq(Reqs) /\ ~Fs!Contains(s, r)
        BY <3>1, <3>2, <4>1
      <4>3. DOMAIN s = 1 .. Len(s)
        BY <4>2, LenProperties
      <4>4. r \notin ToSet(s)
        BY <4>2, <4>3 DEF Fs!Contains, ToSet
      <4> QED BY <4>1, <4>4 DEF Queued
    <3> QED BY <3>1, <3>3 DEF Keeps
  <2>3. Later(core, core')
    BY <2>1 DEF Later
  <2> QED BY <2>1, <2>2, <2>3
<1>5. \A r \in P, kind \in Fs!FileKinds : ~On(core, r, kind, f)
  BY <1>1, <1>2, <1>3, <1>4, TcpWorks
<1>6. /\ file.locked = FALSE /\ file.dropped = FALSE /\ file.told = FALSE
      /\ file.open = TRUE /\ file.closes = 0 /\ file.pairFirst \in BOOLEAN
  BY <1>3, <1>5 DEF FileFine, FileType
<1>7. PICK lost : lost = [file EXCEPT !.cap = FALSE]
  OBVIOUS
<1>8. PICK told, shut : /\ told = [lost EXCEPT !.told = TRUE]
                        /\ shut = [told EXCEPT !.open = FALSE]
  OBVIOUS
<1>9. PICK new : new = IF file.pairFirst THEN lost ELSE [shut EXCEPT !.closes = 1]
  OBVIOUS
<1>10. /\ lost \in FileType /\ lost.cap = FALSE /\ lost.told = FALSE /\ lost.open = TRUE
       /\ lost.locked = FALSE /\ lost.dropped = FALSE /\ lost.closes = 0
  BY <1>3, <1>6, <1>7 DEF FileType
<1>11. /\ told \in FileType /\ told.cap = FALSE /\ told.told = TRUE /\ told.open = TRUE
       /\ told.locked = FALSE /\ told.dropped = FALSE /\ told.closes = 0
       /\ shut \in FileType /\ shut.cap = FALSE /\ shut.told = TRUE /\ shut.open = FALSE
       /\ shut.locked = FALSE /\ shut.dropped = FALSE /\ shut.closes = 0
  BY <1>8, <1>10 DEF FileType
<1>12. /\ new \in FileType /\ new.cap = FALSE /\ new.open = ~new.told /\ new.locked = FALSE
       /\ new.dropped = FALSE /\ new.closes = IF new.told THEN 1 ELSE 0
  BY <1>6, <1>9, <1>10, <1>11 DEF FileType
<1>13. dev' = Filed(dev, f, new, P)
  <2>1. PICK fs, d : fs = [dev.files EXCEPT ![f] = lost] /\ d = [dev EXCEPT !.files = fs]
    OBVIOUS
  <2>2. f \in DOMAIN dev.files /\ d = [dev EXCEPT !.files[f].cap = FALSE]
    BY <1>1, <1>2, <1>7, <2>1 DEF FsType
  <2>3. CASE file.pairFirst
    <3>1. dev' = d
      BY <1>2, <2>2, <2>3 DEF Fs!Drop
    <3>2. new = lost
      BY <1>9, <2>3
    <3> QED BY <1>1, <1>2, <2>1, <3>1, <3>2 DEF Filed, FsType
  <2>4. CASE ~file.pairFirst
    <3>1. PICK fs1, d1 : fs1 = [dev.files EXCEPT ![f] = told] /\ d1 = [dev EXCEPT !.files = fs1]
      OBVIOUS
    <3>2. fs1[f] = told /\ [fs EXCEPT ![f] = told] = fs1 /\ fs[f] = lost
      BY ONLY <2>1, <2>2, <3>1
    <3>3. d1.files = fs1 /\ d.files = fs
      BY <1>1, <2>1, <3>1 DEF FsType
    <3>4. d1 = [d EXCEPT !.files[f].told = TRUE]
      BY <1>1, <1>8, <2>1, <3>1, <3>2, <3>3 DEF FsType
    <3>5. d1 = [dev EXCEPT !.files[f].cap = FALSE, !.files[f].told = TRUE]
      BY ONLY <2>2, <3>4
    <3>6. dev' = Fs!Close(d1, f)
      BY <1>2, <1>11, <2>4, <3>2, <3>3, <3>5 DEF Fs!Drop
    <3>7. dev' = [d1 EXCEPT !.files[f].open = FALSE, !.files[f].closes = @ + 1]
      BY <1>11, <3>2, <3>3, <3>6 DEF Fs!Close
    <3>8. PICK fs2, d2 : fs2 = [dev.files EXCEPT ![f] = shut] /\ d2 = [dev EXCEPT !.files = fs2]
      OBVIOUS
    <3>9. fs2[f] = shut /\ [fs1 EXCEPT ![f] = shut] = fs2
      BY ONLY <2>2, <3>1, <3>8
    <3>10. d2.files = fs2
      BY <1>1, <3>8 DEF FsType
    <3>11. d2 = [d1 EXCEPT !.files[f].open = FALSE]
      BY <1>1, <1>8, <3>1, <3>2, <3>3, <3>8, <3>9 DEF FsType
    <3>12. dev' = [d2 EXCEPT !.files[f].closes = @ + 1]
      BY ONLY <3>7, <3>11
    <3>13. [d2 EXCEPT !.files[f].closes = @ + 1]
             = [d2 EXCEPT !.files = [d2.files EXCEPT ![f] = [d2.files[f] EXCEPT !.closes = @ + 1]]]
      OBVIOUS
    <3>14. PICK n : n = shut.closes + 1
      OBVIOUS
    <3>15. n = 1
      BY <1>11, <3>14
    <3>16. new = [shut EXCEPT !.closes = n]
      BY <1>9, <2>4, <3>15
    <3>17. dev' = [d2 EXCEPT !.files = [fs2 EXCEPT ![f] = new]]
      BY ONLY <3>9, <3>10, <3>12, <3>13, <3>14, <3>16
    <3>18. [fs2 EXCEPT ![f] = new] = [dev.files EXCEPT ![f] = new]
      BY ONLY <3>8
    <3>19. dev' = [dev EXCEPT !.files = [dev.files EXCEPT ![f] = new]]
      BY ONLY <3>8, <3>17, <3>18
    <3> QED BY <1>1, <1>2, <3>19 DEF Filed, FsType
  <2> QED BY <2>3, <2>4
<1>14. /\ dev' \in FsType /\ DOMAIN dev'.files = DOMAIN dev.files /\ dev'.files[f] = new /\ dev'.pending = P
       /\ \A b \in DOMAIN dev.files : b # f => dev'.files[b] = dev.files[b]
  <2>1. PICK d, e : d = dev /\ e = dev'
    OBVIOUS
  <2>2. d \in FsType /\ f \in DOMAIN d.files /\ new \in FileType /\ P \subseteq Reqs /\ e = Filed(d, f, new, P)
    BY <1>1, <1>3, <1>12, <1>13, <2>1
  <2>3. /\ e \in FsType /\ DOMAIN e.files = DOMAIN d.files /\ e.files[f] = new /\ e.pending = P
        /\ e.files = [d.files EXCEPT ![f] = new]
        /\ \A b \in DOMAIN d.files : b # f => e.files[b] = d.files[b]
    BY ONLY <2>2, FsPut
  <2> QED BY ONLY <2>1, <2>3
<1>15. FileFine(core', P, new, f)
  <2>1. \A s \in Reqs, kind \in Fs!FileKinds : On(core', s, kind, f) /\ Keeps(core', s) => new.cap
    BY <1>4
  <2>2. \A s \in P, kind \in Fs!FileKinds : ~On(core', s, kind, f)
    BY <1>4, <1>5
  <2> QED BY <1>12, <2>1, <2>2 DEF FileFine
<1>16. FilesFine(core', dev')
  <2>1. \A s, t \in P :
          core.asked[s].kind \in Fs!FileKinds /\ core.asked[t].kind \in Fs!FileKinds
            /\ core.asked[s].on = core.asked[t].on => s = t
    BY <1>1, <1>2 DEF FilesFine
  <2> QED BY <1>1, <1>2, <1>3, <1>4, <1>14, <1>15, <2>1, FilesPut
<1> QED BY <1>1, <1>2, <1>4, <1>14, <1>16 DEF FsInv

(* The host runs the core, and calls into it return.                       *)
LEMMA FsRun ==
  ASSUME FsInv, Fs!Enter \/ Fs!Return
  PROVE  FsInv'
<1>1. /\ core \in CoreType(Fs!Kinds) /\ dev \in FsType /\ Life(core, dev.pending, FsCallable)
      /\ FilesFine(core, dev) /\ NoRelease(core)
  BY DEF FsInv
<1>2. PICK K, P, j : K = Fs!Kinds /\ P = dev.pending /\ j = core'
  OBVIOUS
<1>3. core \in CoreType(K) /\ Life(core, P, FsCallable) /\ P \subseteq Reqs
  BY <1>1, <1>2, FsParts
<1>4. /\ j \in CoreType(K) /\ Life(j, P, FsCallable) /\ Later(core, j)
      /\ \A y : Awaits(j, y) <=> Awaits(core, y)
  <2>1. CASE Fs!Enter
    <3>1. j = Tcp!RunLoop(core) /\ ~core.disposed
      BY <1>2, <2>1, SameCalls DEF Fs!Enter
    <3> QED BY <1>3, <3>1, LifeRun
  <2>2. CASE Fs!Return
    <3>1. j = Tcp!Returned(core) /\ core.wasm
      BY <1>2, <2>2, SameCalls DEF Fs!Return
    <3> QED BY <1>3, <3>1, LifeReturn
  <2> QED BY <2>1, <2>2
<1>5. dev' = dev
  BY DEF Fs!Enter, Fs!Return
<1>6. FilesFine(j, dev)
  BY <1>1, <1>2, <1>3, <1>4, FilesElse
<1>7. NoRelease(j)
  BY <1>1, <1>4 DEF NoRelease
<1> QED BY <1>1, <1>2, <1>4, <1>5, <1>6, <1>7 DEF FsInv

(* The core is disposed of, and every file is closed.                      *)
Shut(file) == [file EXCEPT !.open = FALSE, !.closes = IF file.open THEN @ + 1 ELSE @]
Shuts(files) == [f \in DOMAIN files |-> Shut(files[f])]

LEMMA FsDispose ==
  ASSUME FsInv, Fs!Dispose
  PROVE  FsInv'
<1>1. /\ core \in CoreType(Fs!Kinds) /\ dev \in FsType /\ Life(core, dev.pending, FsCallable)
      /\ FilesFine(core, dev) /\ NoRelease(core)
  BY DEF FsInv
<1>2. PICK K, P, j : K = Fs!Kinds /\ P = dev.pending /\ j = core'
  OBVIOUS
<1>3. core \in CoreType(K) /\ Life(core, P, FsCallable) /\ P \subseteq Reqs
  BY <1>1, <1>2, FsParts
<1>4. /\ j \in CoreType(K) /\ Life(j, P, FsCallable) /\ Later(core, j) /\ j.disposed
      /\ \A y : Awaits(j, y) <=> Awaits(core, y)
  <2>1. Tcp!Outside(core) /\ j = [core EXCEPT !.disposed = TRUE] /\ ~core.disposed
    <3>1. Fs!Outside(core) /\ core' = [core EXCEPT !.disposed = TRUE] /\ ~core.disposed
      BY Zenon DEF Fs!Dispose
    <3> QED BY <1>2, <3>1, SameCalls
  <2>2. j.disposed
    BY <1>1, <2>1 DEF CoreType
  <2> QED BY <1>3, <2>1, <2>2, LifeRun
<1>5. PICK C, cs : C = dev.files /\ cs = Shuts(C)
  OBVIOUS
<1>6. dev' = [dev EXCEPT !.files = cs]
  BY <1>5, Zenon DEF Fs!Dispose, Shut, Shuts
<1>7. C \in Seq(FileType) /\ \A f \in DOMAIN C : f \in Nat /\ C[f] \in FileType
  BY <1>1, <1>5, FsParts
<1>8. ASSUME NEW f \in DOMAIN C
      PROVE  /\ cs[f] \in FileType /\ cs[f].cap = C[f].cap /\ cs[f].locked = C[f].locked
             /\ cs[f].dropped = C[f].dropped /\ cs[f].told = C[f].told
  <2>1. PICK file, n : file = C[f] /\ n = IF file.open THEN file.closes + 1 ELSE file.closes
    OBVIOUS
  <2>2. file \in FileType
    BY <1>7, <2>1
  <2>3. n \in Nat
    BY <2>1, <2>2 DEF FileType
  <2>4. cs[f] = [file EXCEPT !.open = FALSE, !.closes = n]
    <3>1. cs[f] = Shut(file)
      BY <1>5, <2>1 DEF Shuts
    <3> QED BY <2>1, <3>1 DEF Shut
  <2> QED BY <2>1, <2>2, <2>3, <2>4 DEF FileType
<1>9. cs \in Seq(FileType) /\ DOMAIN cs = DOMAIN C
  <2>1. Len(C) \in Nat /\ DOMAIN C = 1 .. Len(C)
    <3>1. PICK T : T = FileType
      OBVIOUS
    <3> QED BY <1>7, <3>1, LenProperties
  <2>2. DOMAIN cs = 1 .. Len(C)
    BY <1>5, <2>1 DEF Shuts
  <2>3. cs = [f \in 1 .. Len(C) |-> cs[f]]
    BY <1>5, <2>1 DEF Shuts
  <2>4. cs \in [1 .. Len(C) -> FileType]
    BY <1>8, <2>1, <2>3
  <2>5. cs \in Seq(FileType)
    BY ONLY <2>1, <2>4, SeqDef
  <2> QED BY <2>1, <2>2, <2>5
<1>10. dev' \in FsType /\ dev'.files = cs /\ dev'.pending = P
  BY <1>1, <1>2, <1>6, <1>9 DEF FsType
<1>11. ASSUME NEW f \in DOMAIN C PROVE FileFine(j, P, cs[f], f)
  <2>1. FileFine(core, P, C[f], f)
    BY <1>1, <1>2, <1>5 DEF FilesFine
  <2>2. FileFine(j, P, C[f], f)
    BY <1>3, <1>4, <2>1, FileElse
  <2> QED BY <1>4, <1>8, <2>2 DEF FileFine
<1>12. FilesFine(j, dev')
  <2>1. \A r \in Reqs : j.asked[r] = core.asked[r]
    BY <1>4 DEF Later
  <2>2. \A r, s \in P : j.asked[r].kind \in Fs!FileKinds /\ j.asked[s].kind \in Fs!FileKinds
                          /\ j.asked[r].on = j.asked[s].on => r = s
    BY <1>1, <1>2, <1>3, <2>1 DEF FilesFine
  <2>3. \A r \in Reqs : j.asked[r].kind \in Fs!FileKinds => j.asked[r].on \in DOMAIN cs
    BY <1>1, <1>5, <1>9, <2>1 DEF FilesFine
  <2> QED BY <1>9, <1>10, <1>11, <2>2, <2>3 DEF FilesFine
<1>13. NoRelease(j)
  BY <1>1, <1>4 DEF NoRelease
<1> QED BY <1>2, <1>4, <1>10, <1>12, <1>13 DEF FsInv

(* Every step of the device keeps the invariant.                           *)
LEMMA FsNext ==
  ASSUME FsInv, Fs!Next
  PROVE  FsInv'
BY FsAsk, FsHandle, FsCall, FsComplete, FsDrop, FsRun, FsDispose DEF Fs!Next

(* Disposing of the core closes the files that are open, once, and no file *)
(* is opened or closed after it.                                           *)
AllShut == core.disposed => \A f \in DOMAIN dev.files : dev.files[f].closes = 1

(* Nothing else disposes of the core.                                      *)
LEMMA StaysUp ==
  ASSUME FsInv, Fs!Next, ~core.disposed, ~Fs!Dispose
  PROVE  ~core'.disposed
<1>1. /\ core \in CoreType(Fs!Kinds) /\ Life(core, dev.pending, FsCallable) /\ core.disposed = FALSE
      /\ NoRelease(core)
  BY DEF FsInv, CoreType
<1>2. ASSUME NEW k, k \in CoreType(Fs!Kinds), NEW r
      PROVE  /\ Fs!Release(k, r).disposed = k.disposed /\ Fs!Reply(k, r).disposed = k.disposed
             /\ Fs!Answer(k, r).disposed = k.disposed /\ Fs!RunLoop(k).disposed = k.disposed
             /\ Fs!Returned(k).disposed = k.disposed /\ Fs!Rejected(k).disposed = k.disposed
             /\ \A q : Fs!Asked(k, r, q).disposed = k.disposed
             /\ \A t : Fs!Accepted(k, t).disposed = k.disposed
  <2>1. PICK i : i = Fs!Release(k, r)
    OBVIOUS
  <2>2. i = [k EXCEPT !.stub = i.stub] /\ i.disposed = k.disposed
    BY <1>2, <2>1 DEF CoreType, Fs!Release
  <2>3. Fs!Reply(i, r).disposed = i.disposed
    BY <1>2, <2>2 DEF CoreType, Fs!Reply, Fs!Wakeup
  <2>4. Fs!Reply(k, r).disposed = k.disposed /\ Fs!RunLoop(k).disposed = k.disposed
    BY <1>2 DEF CoreType, Fs!Reply, Fs!Wakeup, Fs!RunLoop
  <2>5. Fs!Returned(k).disposed = k.disposed /\ Fs!Rejected(k).disposed = k.disposed
    BY <1>2 DEF CoreType, Fs!Returned, Fs!Rejected
  <2>6. ASSUME NEW q PROVE Fs!Asked(k, r, q).disposed = k.disposed
    BY <1>2 DEF CoreType, Fs!Asked
  <2>7. ASSUME NEW t PROVE Fs!Accepted(k, t).disposed = k.disposed
    BY <1>2 DEF CoreType, Fs!Accepted
  <2> QED BY <2>1, <2>2, <2>3, <2>4, <2>5, <2>6, <2>7 DEF Fs!Answer
<1>3. ASSUME NEW r \in Reqs, Fs!Ask(r) PROVE core'.disposed = FALSE
  BY <1>1, <1>2, <1>3 DEF Fs!Ask
<1>4. CASE Fs!Handle
  BY <1>1, <1>2, <1>4 DEF Fs!Handle
<1>5. CASE Fs!Call
  <2>1. PICK K, P, x, i : K = Fs!Kinds /\ P = dev.pending /\ x = Tcp!NextCallback(core) /\ i = Tcp!CallbackTaken(core)
    OBVIOUS
  <2>2. core \in CoreType(K) /\ Life(core, P, FsCallable) /\ Tcp!CanCall(core)
    BY <1>1, <1>5, <2>1, SameCalls DEF Fs!Call
  <2>3. i \in CoreType(K) /\ ~i.disposed
    BY <2>1, <2>2, Taken
  <2>4. core' = Fs!Answer(i, Fs!NextCallback(core).id) \/ core' = i
    <3>1. i = Fs!CallbackTaken(core)
      BY <2>1, SameCalls
    <3> QED BY <1>5, <3>1 DEF Fs!Call
  <2> QED BY <1>2, <2>1, <2>3, <2>4
<1>6. ASSUME NEW r \in Reqs, Fs!Complete(r) PROVE ~core'.disposed
  BY <1>1, <1>2, <1>6 DEF Fs!Complete
<1>7. ASSUME NEW f \in DOMAIN dev.files, Fs!Drop(f) PROVE ~core'.disposed
  BY <1>7 DEF Fs!Drop
<1>8. CASE Fs!Enter \/ Fs!Return
  BY <1>1, <1>2, <1>8 DEF Fs!Enter, Fs!Return
<1> QED BY <1>3, <1>4, <1>5, <1>6, <1>7, <1>8 DEF Fs!Next

LEMMA ShutNext ==
  ASSUME FsInv, AllShut, Fs!Next
  PROVE  AllShut'
<1>1. /\ dev \in FsType /\ Life(core, dev.pending, FsCallable) /\ FilesFine(core, dev)
      /\ core.disposed \in BOOLEAN
  BY DEF FsInv, CoreType
<1>2. CASE core.disposed
  <2>1. ~core.wasm /\ core.stack = <<>>
    BY <1>1, <1>2 DEF Life
  <2>2. PICK r \in Reqs : Fs!Complete(r)
    <3>1. \A r \in Reqs : ~Fs!Ask(r)
      BY <2>1 DEF Fs!Ask, Fs!CanAsk
    <3>2. ~Fs!Handle /\ ~Fs!Call
      BY <2>1 DEF Fs!Handle, Fs!CanHandle, Fs!Call, Fs!CanCall
    <3>3. \A f \in DOMAIN dev.files : ~Fs!Drop(f)
      BY <2>1 DEF Fs!Drop
    <3>4. ~Fs!Enter /\ ~Fs!Return /\ ~Fs!Dispose
      BY <1>2, <2>1 DEF Fs!Enter, Fs!Return, Fs!Dispose
    <3> QED BY <3>1, <3>2, <3>3, <3>4 DEF Fs!Next
  <2>3. \A f \in DOMAIN dev.files : dev.files[f].closes = 1
    BY <1>2 DEF AllShut
  <2>4. PICK q, f, file, new : /\ q = core.asked[r] /\ f = q.on /\ file = dev.files[f]
                               /\ new = [file EXCEPT !.locked = FALSE]
    OBVIOUS
  <2>5. CASE q.kind = "read"
    <3>1. f \in DOMAIN dev.files /\ file \in FileType
      BY <1>1, <2>4, <2>5, FsParts DEF FilesFine, Fs!FileKinds
    <3>2. new.closes = file.closes
      BY <2>4, <3>1 DEF FileType
    <3>3. PICK fs : fs = [dev.files EXCEPT ![f] = new]
      OBVIOUS
    <3>4. dev' = [dev EXCEPT !.pending = @ \ {r}, !.files = fs]
      BY <1>1, <1>2, <2>2, <2>4, <2>5, <3>3 DEF Fs!Complete, FsType
    <3>5. dev'.files = fs
      BY <1>1, <3>4 DEF FsType
    <3>6. \A b \in DOMAIN fs : fs[b].closes = 1
      BY <2>3, <2>4, <3>1, <3>2, <3>3
    <3> QED BY <3>5, <3>6 DEF AllShut
  <2>6. CASE q.kind # "read"
    <3>1. dev' = [dev EXCEPT !.pending = @ \ {r}, !.orphans = IF q.kind = "open" THEN @ + 1 ELSE @]
      BY <1>2, <2>2, <2>4, <2>6 DEF Fs!Complete
    <3>2. dev'.files = dev.files
      BY <1>1, <3>1 DEF FsType
    <3> QED BY <2>3, <3>2 DEF AllShut
  <2> QED BY <2>5, <2>6
<1>3. CASE ~core.disposed /\ Fs!Dispose
  <2>1. PICK C, cs : C = dev.files /\ cs = Shuts(C)
    OBVIOUS
  <2>2. dev' = [dev EXCEPT !.files = cs]
    BY <1>3, <2>1, Zenon DEF Fs!Dispose, Shut, Shuts
  <2>3. dev'.files = cs
    BY <1>1, <2>2 DEF FsType
  <2>4. ASSUME NEW f \in DOMAIN C PROVE cs[f].closes = 1
    <3>1. PICK file : file = C[f]
      OBVIOUS
    <3>2. file \in FileType /\ FileFine(core, dev.pending, file, f)
      BY <1>1, <2>1, <3>1, FsParts DEF FilesFine
    <3>3. file.open = ~file.told /\ file.closes = IF file.told THEN 1 ELSE 0
      BY <1>3, <3>2 DEF FileFine
    <3>4. cs[f] = Shut(file)
      BY <2>1, <3>1 DEF Shuts
    <3>5. Shut(file).closes = IF file.open THEN file.closes + 1 ELSE file.closes
      BY <3>2 DEF Shut, FileType
    <3>6. Shut(file).closes = 1
      <4>1. CASE file.told
        <5>1. ~ file.open /\ file.closes = 1
          BY <3>3, <4>1, Zenon
        <5> QED BY <3>5, <5>1
      <4>2. CASE ~ file.told
        <5>1. file.open = TRUE
          BY <3>2, <3>3, <4>2 DEF FileType
        <5>2. file.closes = 0
          BY <3>3, <4>2, Zenon
        <5> QED BY <3>5, <5>1, <5>2
      <4> QED BY <4>1, <4>2
    <3> QED BY <3>4, <3>6
  <2>5. DOMAIN cs = DOMAIN C
    BY <2>1 DEF Shuts
  <2> QED BY <2>3, <2>4, <2>5 DEF AllShut
<1>4. CASE ~core.disposed /\ ~Fs!Dispose
  BY <1>4, StaysUp DEF AllShut
<1> QED BY <1>1, <1>2, <1>3, <1>4

(* What the invariant is for.                                              *)
LEMMA FsSafe ==
  ASSUME FsInv, AllShut
  PROVE  Fs!OneOperation /\ Fs!ClosedOnce /\ Fs!AnsweredReleased
<1>1. /\ core \in CoreType(Fs!Kinds) /\ dev \in FsType /\ Life(core, dev.pending, FsCallable)
      /\ FilesFine(core, dev) /\ dev.pending \subseteq Reqs
  BY FsParts DEF FsInv
<1>2. ASSUME NEW f \in DOMAIN dev.files
      PROVE  /\ Fs!Cardinality(Fs!PendingOn(f)) <= 1
             /\ ~core.disposed => (dev.files[f].locked <=> Fs!PendingOn(f) # {})
             /\ Fs!PendingOn(f) # {} /\ ~core.disposed => dev.files[f].closes = 0
             /\ dev.files[f].closes = IF dev.files[f].told \/ core.disposed THEN 1 ELSE 0
             /\ dev.files[f].told => ~dev.files[f].cap
  <2>1. PICK S, P, file : S = Fs!PendingOn(f) /\ P = dev.pending /\ file = dev.files[f]
    OBVIOUS
  <2>2. file \in FileType /\ FileFine(core, P, file, f)
    BY <1>1, <2>1, FsParts DEF FilesFine
  <2>3. \A r \in S : r \in P /\ core.asked[r].kind \in Fs!FileKinds /\ core.asked[r].on = f
    BY <2>1 DEF Fs!PendingOn
  <2>4. \A r, s \in S : r = s
    BY <1>1, <2>1, <2>3 DEF FilesFine
  <2>5. Cardinality(S) <= 1
    BY <2>4, AtMostOne
  <2>6. ASSUME NEW r \in S PROVE file.locked /\ (~core.disposed => file.closes = 0)
    <3>1. r \in P /\ On(core, r, core.asked[r].kind, f) /\ core.asked[r].kind \in Fs!FileKinds
      BY <2>3 DEF On
    <3>2. r \in Reqs /\ Keeps(core, r)
      BY <1>1, <2>1, <3>1, TcpWorks
    <3> QED BY <2>2, <3>1, <3>2 DEF FileFine
  <2>7. ASSUME ~core.disposed, file.locked PROVE S # {}
    <3>1. PICK r \in P, kind \in Fs!FileKinds : On(core, r, kind, f)
      BY <2>2, <2>7 DEF FileFine
    <3>2. r \in S
      BY <2>1, <3>1 DEF On, Fs!PendingOn
    <3> QED BY <3>2
  <2>8. /\ file.closes = IF file.told \/ core.disposed THEN 1 ELSE 0
        /\ file.told => ~file.cap
    BY <2>1, <2>2 DEF FileFine, AllShut
  <2> QED BY <2>1, <2>5, <2>6, <2>7, <2>8, Counts
<1>3. Fs!AnsweredReleased
  BY <1>1 DEF Life, Stage, Fs!AnsweredReleased
<1> QED BY <1>2, <1>3 DEF Fs!OneOperation, Fs!ClosedOnce

-----------------------------------------------------------------------------
(***************************************************************************)
(* The run of the host with either device.                                 *)
(***************************************************************************)
DeviceInv == (device = "tcp" => TcpInv) /\ (device = "fs" => FsInv /\ AllShut)

LEMMA Devoted == Spec => []DeviceInv
<1>1. Init => DeviceInv
  <2>1. Fs!Init => AllShut
    BY DEF Fs!Init, Fs!NewCore, AllShut
  <2> QED BY <2>1, TcpInit, FsInit DEF Init, DeviceInv
<1>2. DeviceInv /\ [Next]_vars => DeviceInv'
  <2> SUFFICES ASSUME DeviceInv, [Next]_vars PROVE DeviceInv'
    OBVIOUS
  <2>1. CASE Next
    BY <2>1, TcpNext, FsNext, ShutNext DEF Next, DeviceInv
  <2>2. CASE UNCHANGED vars
    <3>1. device' = device /\ core' = core /\ dev' = dev
      BY <2>2 DEF vars
    <3>2. TcpInv => TcpInv'
      BY <3>1 DEF TcpInv
    <3>3. FsInv => FsInv'
      BY <3>1 DEF FsInv
    <3> QED BY <3>1, <3>2, <3>3 DEF DeviceInv, AllShut
  <2> QED BY <2>1, <2>2
<1> QED BY <1>1, <1>2, PTL DEF Spec

(***************************************************************************)
(* However many requests actors make of a connection or of a file, and     *)
(* whenever they are answered: one read and one write of a connection, and *)
(* one operation of a file, are under way at most, none of them on what    *)
(* was disposed of or closed, and a file is locked exactly while it has    *)
(* one.                                                                    *)
(***************************************************************************)
THEOREM OneAtATime == Spec => []OneOperation
<1>1. DeviceInv => OneOperation
  BY TcpSafe, FsSafe DEF DeviceInv, OneOperation
<1> QED BY <1>1, Devoted, PTL

(***************************************************************************)
(* No request is answered twice, and none that is answered keeps its event *)
(* stub: neither where the answer runs the core at once from within a      *)
(* callback, nor where the core was disposed of in between.                *)
(***************************************************************************)
THEOREM AnswersReleased == Spec => []AnsweredReleased
<1>1. DeviceInv => AnsweredReleased
  BY TcpSafe, FsSafe DEF DeviceInv, AnsweredReleased
<1> QED BY <1>1, Devoted, PTL

(***************************************************************************)
(* A connection that was never read is disposed of once when the device is *)
(* told that its capability was dropped, and not before.  A file is closed *)
(* once: when the device is told so, or with the core if it was not.       *)
(***************************************************************************)
THEOREM ForgottenOnce == Spec => []ForgottenReleased
<1>1. DeviceInv => ForgottenReleased
  BY TcpSafe, FsSafe DEF DeviceInv, ForgottenReleased
<1> QED BY <1>1, Devoted, PTL

-----------------------------------------------------------------------------
(***************************************************************************)
(* The blob device: the chunks of a reading show whole parts of the blob,  *)
(* each from where the part begins, so that what follows them begins where *)
(* a part begins.  Chunks and parts are joined by folds: a fold's values   *)
(* over the first positions of a sequence are the rows of SequenceFacts.   *)
(***************************************************************************)
(* Blob has a Max of its own.                                              *)
LEMMA SameMax == ASSUME NEW S PROVE Blob!Max(S) = Max(S)
BY DEF Blob!Max, Max

(* Chunks and parts have lengths: where each begins.                       *)
Starts(S, n, cs) == /\ S \in [0 .. n -> Nat] /\ S[0] = 0
                    /\ \A k \in 1 .. n : S[k] = S[k - 1] + cs[k].len
LEMMA TotalIs ==
  ASSUME NEW n \in Nat, NEW cs, DOMAIN cs = 1 .. n, \A k \in 1 .. n : cs[k].len \in Nat
  PROVE  \E S : Starts(S, n, cs) /\ Blob!Total(cs) = S[n]
<1> DEFINE Is(g) == g = [s \in SUBSET (1 .. n) |->
                           IF s = {} THEN 0 ELSE g[s \ {Blob!Max(s)}] + cs[Blob!Max(s)].len]
           t == CHOOSE g : Is(g)
<1>1. Blob!Total(cs) = t[1 .. n]
  BY DEF Blob!Total, Blob!FoldLeft, Blob!MapThenFoldSet
<1>2. PICK h : h = [k \in 1 .. n |-> [v \in Nat |-> v + cs[k].len]]
  OBVIOUS
<1>3. h \in [1 .. n -> [Nat -> Nat]]
  BY <1>2
<1>4. PICK g \in [SUBSET (1 .. n) -> Nat] : Folds(g, 0, h, SUBSET (1 .. n))
  BY <1>3, FoldExists
<1>5. Is(g)
  <2>1. ASSUME NEW s \in SUBSET (1 .. n), s # {} PROVE g[s] = g[s \ {Blob!Max(s)}] + cs[Blob!Max(s)].len
    <3>1. Max(s) \in 1 .. n /\ Blob!Max(s) = Max(s)
      BY <2>1, Greatest, SameMax
    <3>2. g[s \ {Max(s)}] \in Nat
      OBVIOUS
    <3>3. g[s] = h[Max(s)][g[s \ {Max(s)}]]
      BY <1>4, <2>1 DEF Folds
    <3> QED BY <1>2, <3>1, <3>2, <3>3
  <2>2. {} \in SUBSET (1 .. n)
    OBVIOUS
  <2>3. g[{}] = 0
    BY <1>4, <2>2 DEF Folds
  <2> QED BY <2>1, <2>3
<1>6. Is(t)
  BY <1>5
<1> HIDE DEF t
<1>7. PICK S : S = [k \in 0 .. n |-> t[1 .. k]]
  OBVIOUS
<1>8. S[0] = 0
  <2>1. 1 .. 0 = {} /\ {} \in SUBSET (1 .. n)
    OBVIOUS
  <2>2. t[{}] = 0
    BY <1>6, <2>1
  <2>3. 0 \in 0 .. n
    OBVIOUS
  <2> QED BY <1>7, <2>1, <2>2, <2>3
<1>9. ASSUME NEW k \in 1 .. n PROVE S[k] = S[k - 1] + cs[k].len
  <2>1. /\ 1 .. k \in SUBSET (1 .. n) /\ 1 .. k # {}
        /\ Blob!Max(1 .. k) = k /\ (1 .. k) \ {k} = 1 .. k - 1
    BY LastOf, SameMax
  <2>2. t[1 .. k] = t[1 .. k - 1] + cs[k].len
    BY <1>6, <2>1
  <2>3. k \in 0 .. n /\ k - 1 \in 0 .. n
    OBVIOUS
  <2> QED BY <1>7, <2>2, <2>3
<1>10. \A k \in 0 .. n : S[k] \in Nat
  <2> DEFINE T == {k \in 0 .. n : S[k] \notin Nat}
  <2> SUFFICES T = {}
    OBVIOUS
  <2>1. T \subseteq 0 .. n /\ 0 \notin T
    BY <1>8
  <2>2. \A k \in 1 .. n : k - 1 \notin T => k \notin T
    BY <1>9
  <2> HIDE DEF T
  <2> QED BY <2>1, <2>2, Climb
<1>11. Starts(S, n, cs)
  BY <1>7, <1>8, <1>9, <1>10 DEF Starts
<1>12. S[n] = t[1 .. n]
  BY <1>7
<1> QED BY <1>1, <1>11, <1>12

(* The bytes of chunks.                                                    *)
LEMMA ReadIs ==
  ASSUME NEW n \in Nat, NEW cs, DOMAIN cs = 1 .. n, NEW V, NEW B \in Rows(n, V),
         \A k \in 1 .. n : B[k] = Blob!BytesIn(cs[k])
  PROVE  \E R : RowsJoined(R, n, V, B) /\ Blob!Read(cs) = R[n]
<1> DEFINE Is(g) == g = [s \in SUBSET (1 .. n) |->
                           IF s = {} THEN <<>>
                           ELSE g[s \ {Blob!Max(s)}] \o Blob!BytesIn(cs[Blob!Max(s)])]
           t == CHOOSE g : Is(g)
<1>1. Blob!Read(cs) = t[1 .. n]
  BY DEF Blob!Read, Blob!FoldLeft, Blob!MapThenFoldSet
<1>2. \A s \in SUBSET (1 .. n) : s # {} =>
        Blob!Max(s) = Max(s) /\ Blob!BytesIn(cs[Max(s)]) = B[Max(s)]
  BY Greatest, SameMax
<1>3. PICK g : JoinMade(g, n, B)
  BY JoinExists
<1>4. Is(g)
  BY <1>2, <1>3 DEF JoinMade
<1>5. Is(t)
  BY <1>4
<1> HIDE DEF t
<1>6. JoinMade(t, n, B)
  BY <1>2, <1>5 DEF JoinMade
<1>7. PICK R : RowsJoined(R, n, V, B) /\ R[n] = t[1 .. n]
  BY <1>6, JoinSteps
<1> QED BY <1>1, <1>7

(* The bytes of the parts of a blob.                                       *)
Piece(p) == SubSeq(Blob!Contents(p.src), p.base + 1, p.base + p.len)
LEMMA MeaningIs ==
  ASSUME NEW n \in Nat, NEW cap, cap.of = "actor", Actors[cap.name].kind = "composed",
         NEW cs, cs = Actors[cap.name].parts, DOMAIN cs = 1 .. n, NEW V, NEW B \in Rows(n, V),
         \A k \in 1 .. n : B[k] = Piece(cs[k])
  PROVE  \E R : RowsJoined(R, n, V, B) /\ Blob!Meaning(cap) = R[n]
<1> DEFINE Is(g) == g = [s \in SUBSET (1 .. n) |->
                           IF s = {} THEN <<>> ELSE g[s \ {Blob!Max(s)}] \o Piece(cs[Blob!Max(s)])]
           t == CHOOSE g : Is(g)
<1>1. Blob!Meaning(cap) = t[1 .. n]
  BY DEF Blob!Meaning, Blob!FoldLeft, Blob!MapThenFoldSet, Piece
<1>2. \A s \in SUBSET (1 .. n) : s # {} => Blob!Max(s) = Max(s) /\ Piece(cs[Max(s)]) = B[Max(s)]
  BY Greatest, SameMax
<1>3. PICK g : JoinMade(g, n, B)
  BY JoinExists
<1>4. Is(g)
  BY <1>2, <1>3 DEF JoinMade
<1>5. Is(t)
  BY <1>4
<1> HIDE DEF t
<1>6. JoinMade(t, n, B)
  BY <1>2, <1>5 DEF JoinMade
<1>7. PICK R : RowsJoined(R, n, V, B) /\ R[n] = t[1 .. n]
  BY <1>6, JoinSteps
<1> QED BY <1>1, <1>7

(* Where a sequence begins depends on the lengths of those before it only.  *)
LEMMA StartsSame ==
  ASSUME NEW n \in Nat, NEW m \in Nat, n <= m, NEW S, NEW P, NEW cs, NEW ds,
         Starts(S, n, cs), Starts(P, m, ds), \A k \in 1 .. n : cs[k].len = ds[k].len
  PROVE  \A k \in 0 .. n : S[k] = P[k]
<1> DEFINE T == {k \in 0 .. n : S[k] # P[k]}
<1> SUFFICES T = {}
  OBVIOUS
<1>1. T \subseteq 0 .. n /\ 0 \notin T
  BY DEF Starts
<1>2. \A k \in 1 .. n : k - 1 \notin T => k \notin T
  <2> SUFFICES ASSUME NEW k \in 1 .. n, k - 1 \notin T PROVE S[k] = P[k]
    OBVIOUS
  <2>1. k - 1 \in 0 .. n /\ k \in 1 .. m
    OBVIOUS
  <2>2. S[k - 1] = P[k - 1]
    BY <2>1
  <2> QED BY <2>1, <2>2 DEF Starts
<1> HIDE DEF T
<1> QED BY <1>1, <1>2, Climb

LEMMA TotalOf ==
  ASSUME NEW n \in Nat, NEW cs, DOMAIN cs = 1 .. n, \A k \in 1 .. n : cs[k].len \in Nat,
         NEW S, Starts(S, n, cs)
  PROVE  Blob!Total(cs) = S[n]
<1>1. PICK P : Starts(P, n, cs) /\ Blob!Total(cs) = P[n]
  BY TotalIs
<1>2. \A k \in 0 .. n : S[k] = P[k]
  BY <1>1, StartsSame
<1>3. n \in 0 .. n
  OBVIOUS
<1> QED BY <1>1, <1>2, <1>3

(* PartStart is where a part begins.                                       *)
LEMMA PartStartIs ==
  ASSUME NEW V, NEW ps \in Seq(V), \A k \in 1 .. Len(ps) : ps[k].len \in Nat,
         NEW P, Starts(P, Len(ps), ps), NEW k \in 1 .. Len(ps) + 1
  PROVE  Blob!PartStart(ps, k) = P[k - 1]
<1>1. PICK n \in Nat : n = Len(ps)
  OBVIOUS
<1>2. PICK m \in 0 .. n : m = k - 1
  BY <1>1
<1>3. PICK qs : qs = SubSeq(ps, 1, m)
  OBVIOUS
<1>4. DOMAIN qs = 1 .. m /\ \A i \in 1 .. m : qs[i] = ps[i]
  <2>1. \A i \in 1 .. m : ps[i] \in V
    BY <1>1, ElementOfSeq
  <2>2. qs \in Seq(V) /\ Len(qs) = m /\ \A i \in 1 .. m : qs[i] = ps[i]
    BY <1>3, <2>1, SubSeqProperties
  <2> QED BY <2>2
<1>5. \A i \in 1 .. m : qs[i].len \in Nat /\ qs[i].len = ps[i].len
  BY <1>1, <1>4
<1>6. PICK S : Starts(S, m, qs) /\ Blob!Total(qs) = S[m]
  BY <1>4, <1>5, TotalIs
<1>7. S[m] = P[m]
  <2>1. m \in Nat /\ m <= n /\ m \in 0 .. m
    OBVIOUS
  <2>2. \A i \in 0 .. m : S[i] = P[i]
    BY <1>1, <1>5, <1>6, <2>1, StartsSame
  <2> QED BY <2>1, <2>2
<1>8. Blob!PartStart(ps, k) = Blob!Total(qs)
  BY <1>2, <1>3 DEF Blob!PartStart, Blob!Total
<1> QED BY <1>2, <1>6, <1>7, <1>8

(* Parts that begin at the same place and are not empty are the same.      *)
LEMMA StartsGrow ==
  ASSUME NEW n \in Nat, NEW cs, NEW S, Starts(S, n, cs), \A k \in 1 .. n : cs[k].len \in Nat,
         NEW i \in 0 .. n, NEW j \in 0 .. n, i <= j
  PROVE  S[i] <= S[j]
<1> DEFINE T == {k \in 0 .. n : i <= k /\ ~ (S[i] <= S[k])}
<1> SUFFICES T = {}
  OBVIOUS
<1>1. T \subseteq 0 .. n /\ 0 \notin T
  <2>1. S[0] <= S[0]
    BY DEF Starts
  <2>2. i <= 0 => i = 0
    OBVIOUS
  <2> QED BY <2>1, <2>2
<1>2. \A k \in 1 .. n : k - 1 \notin T => k \notin T
  <2> SUFFICES ASSUME NEW k \in 1 .. n, k - 1 \notin T, i <= k PROVE S[i] <= S[k]
    OBVIOUS
  <2>0. S[i] \in Nat /\ S[k] \in Nat /\ S[k - 1] \in Nat /\ cs[k].len \in Nat /\ S[k] = S[k - 1] + cs[k].len
    <3>1. k - 1 \in 0 .. n /\ k \in 0 .. n
      OBVIOUS
    <3> QED BY <3>1 DEF Starts
  <2>1. CASE i = k
    BY <2>0, <2>1
  <2>2. CASE i # k
    <3>1. i <= k - 1 /\ k - 1 \in 0 .. n
      BY <2>2
    <3>2. S[i] <= S[k - 1]
      BY <3>1
    <3> QED BY <2>0, <3>2
  <2> QED BY <2>1, <2>2
<1> HIDE DEF T
<1> QED BY <1>1, <1>2, Climb

(* The blobs as the actors made them: ranges that are composed are of      *)
(* bytes that are there, a leaf among them is taken whole, and no blob of  *)
(* an actor has a tag that is the number of a blob of the device.          *)
PartType ==
  {p \in [src : Blob!Caps, base : Nat, len : Nat] :
     IF p.src.of = "device" THEN p.base + p.len <= Len(Blobs[p.src.name])
     ELSE Actors[p.src.name].kind = "leaf" /\ p.base = 0 /\ p.len = Len(Actors[p.src.name].bytes)}
BlobsMade ==
  /\ Blobs \in Seq(Seq(Byte))
  /\ \A a \in DOMAIN Actors :
       /\ Actors[a].tag + 1 \notin DOMAIN Blobs
       /\ Actors[a].kind \in {"leaf", "composed"} /\ Actors[a].sources \in BOOLEAN
       /\ Actors[a].kind = "leaf" => Actors[a].bytes \in Seq(Byte)
       /\ Actors[a].kind = "composed" => Actors[a].sources /\ Actors[a].parts \in Seq(PartType)

(* The parts of a blob; one that is not composed is its only part.         *)
Leaf(a) == Actors[a].bytes
Extent(cap) == IF cap.of = "device" THEN Len(Blobs[cap.name]) ELSE Len(Leaf(cap.name))
Composed(cap) == cap.of = "actor" /\ Actors[cap.name].kind = "composed"
Pieces(cap) ==
  IF Composed(cap) THEN Actors[cap.name].parts ELSE <<Blob!Part(cap, 0, Extent(cap))>>

(* A chunk shows a part.                                                   *)
Chunk == [view : DOMAIN Blobs \cup {0}, base : Nat, len : Nat, bytes : Seq(Byte)]
Shows(c, p) ==
  /\ c.len = p.len
  /\ p.src.of = "device" => c.view = p.src.name /\ c.base = p.base
  /\ p.src.of # "device" => c.view = 0 /\ c.bytes = Leaf(p.src.name)

(* Chunks show parts, each from where the part begins; S and P tell where  *)
(* chunks and parts begin.                                                 *)
Shown(cs, i, ps, S, P) == \E k \in 1 .. Len(ps) : S[i - 1] = P[k - 1] /\ Shows(cs[i], ps[k])
Matched(cs, ps, S, P) ==
  /\ Starts(S, Len(cs), cs) /\ Starts(P, Len(ps), ps)
  /\ \A i \in 1 .. Len(cs) : Shown(cs, i, ps, S, P)

(* Where a reading is.                                                     *)
JobType ==
  [phase : {"idle", "source", "bytes", "whole", "done"}, cap : Blob!Caps \cup {Blob!Device(1)},
   src : Blob!Caps \cup {Blob!Device(1)}, chunks : Seq(Chunk), bytes : Seq(Byte)]
Copied(bytes, leaf) ==
  Len(bytes) <= Len(leaf) /\ \A x \in 1 .. Len(bytes) : bytes[x] = leaf[x]
AtPart(cs, ps, S, P) == \E k \in 0 .. Len(ps) : S[Len(cs)] = P[k]
AtSource(cs, ps, S, P, src) == \E k \in 1 .. Len(ps) : S[Len(cs)] = P[k - 1] /\ src = ps[k].src
Fine(job, S, P) ==
  /\ Matched(job.chunks, Pieces(job.cap), S, P)
  /\ job.phase = "source" =>
       /\ job.cap.of = "actor" /\ AtPart(job.chunks, Pieces(job.cap), S, P)
       /\ Actors[job.cap.name].sources \/ (job.chunks = <<>> /\ job.bytes = <<>>)
  /\ job.phase = "bytes" =>
       /\ job.cap.of = "actor" /\ Actors[job.cap.name].sources
       /\ job.src.of = "actor" /\ Copied(job.bytes, Leaf(job.src.name))
       /\ AtSource(job.chunks, Pieces(job.cap), S, P, job.src)
  /\ job.phase = "whole" =>
       /\ job.cap.of = "actor" /\ ~ Composed(job.cap) /\ job.chunks = <<>>
       /\ job.src = job.cap /\ Copied(job.bytes, Leaf(job.src.name))
  /\ job.phase = "done" => S[Len(job.chunks)] = P[Len(Pieces(job.cap))]
JobInv(job) ==
  /\ job \in JobType
  /\ job.phase # "idle" => job.cap \in Blob!Caps /\ \E S, P : Fine(job, S, P)

(* The blobs change, but not their lengths.                                *)
ArraysInv(blobs) ==
  blobs \in [DOMAIN Blobs -> Seq(Byte)] /\ \A n \in DOMAIN Blobs : Len(blobs[n]) = Len(Blobs[n])
BlobInv ==
  /\ \E blobs, jobs, w : dev = [blobs |-> blobs, jobs |-> jobs, writes |-> w]
  /\ ArraysInv(dev.blobs)
  /\ \E V : dev.jobs \in [Jobs -> V]
  /\ \A j \in Jobs : JobInv(dev.jobs[j])

(* What a capability of a blob names, and what h_get_bytes makes of it.    *)
LEMMA CapFacts ==
  ASSUME BlobsMade, NEW cap \in Blob!Caps
  PROVE  /\ cap.of = "device" => /\ cap.name \in DOMAIN Blobs /\ cap.name \in Nat \ {0}
                                 /\ Blob!GetBytes(cap) = cap.name
         /\ cap.of # "device" => /\ cap.of = "actor" /\ cap.name \in DOMAIN Actors
                                 /\ Blob!GetBytes(cap) = 0
<1>1. CASE \E n \in DOMAIN Blobs : cap = Blob!Device(n)
  <2>1. PICK n \in DOMAIN Blobs : cap = Blob!Device(n)
    BY <1>1
  <2>2. n \in Nat \ {0}
    BY DEF BlobsMade
  <2> QED BY <2>1, <2>2 DEF Blob!Device, Blob!GetBytes
<1>2. CASE \E a \in DOMAIN Actors : cap = Blob!Actor(a)
  <2>1. PICK a \in DOMAIN Actors : cap = Blob!Actor(a)
    BY <1>2
  <2>2. Actors[a].tag + 1 \notin DOMAIN Blobs
    BY DEF BlobsMade
  <2> QED BY <2>1, <2>2 DEF Blob!Actor, Blob!GetBytes
<1> QED BY <1>1, <1>2 DEF Blob!Caps

(* A leaf.                                                                 *)
LEMMA LeafFacts ==
  ASSUME BlobsMade, NEW cap \in Blob!Caps, cap.of # "device", ~ Composed(cap)
  PROVE  /\ Actors[cap.name].kind = "leaf" /\ Leaf(cap.name) \in Seq(Byte)
         /\ Blob!Contents(cap) = Leaf(cap.name) /\ Blob!Meaning(cap) = Leaf(cap.name)
         /\ Extent(cap) = Len(Leaf(cap.name))
<1>1. cap.of = "actor" /\ cap.name \in DOMAIN Actors
  BY CapFacts
<1>2. Actors[cap.name].kind = "leaf"
  BY <1>1 DEF Composed, BlobsMade
<1>3. Leaf(cap.name) \in Seq(Byte)
  BY <1>1, <1>2 DEF BlobsMade, Leaf
<1> QED BY <1>1, <1>2, <1>3 DEF Blob!Contents, Blob!Meaning, Extent, Leaf

(* What the parts of a blob are.                                           *)
LEMMA PieceFacts ==
  ASSUME BlobsMade, NEW cap \in Blob!Caps
  PROVE  /\ Pieces(cap) \in Seq(PartType)
         /\ \A k \in 1 .. Len(Pieces(cap)) : Pieces(cap)[k].len \in Nat
<1>1. CASE Composed(cap)
  <2>1. cap.name \in DOMAIN Actors
    BY <1>1, CapFacts DEF Composed
  <2>2. Actors[cap.name].parts \in Seq(PartType)
    BY <1>1, <2>1 DEF Composed, BlobsMade
  <2>3. Pieces(cap) \in Seq(PartType)
    BY <1>1, <2>2 DEF Pieces
  <2>4. \A k \in 1 .. Len(Pieces(cap)) : Pieces(cap)[k] \in PartType
    BY <2>3
  <2> QED BY <2>3, <2>4 DEF PartType
<1>2. CASE ~ Composed(cap)
  <2>1. PICK p : p = Blob!Part(cap, 0, Extent(cap))
    OBVIOUS
  <2>2. p.src = cap /\ p.base = 0 /\ p.len = Extent(cap)
    BY <2>1 DEF Blob!Part
  <2>3. p.len \in Nat
    <3>1. CASE cap.of = "device"
      BY <2>2, <3>1, CapFacts DEF Extent, BlobsMade
    <3>2. CASE cap.of # "device"
      BY <1>2, <2>2, <3>2, LeafFacts
    <3> QED BY <3>1, <3>2
  <2>4. p \in PartType
    <3>1. CASE cap.of = "device"
      <4>1. p.base + p.len <= Len(Blobs[cap.name])
        BY <2>2, <2>3, <3>1 DEF Extent
      <4> QED BY <2>1, <2>2, <2>3, <3>1, <4>1 DEF PartType, Blob!Part
    <3>2. CASE cap.of # "device"
      <4>1. Actors[cap.name].kind = "leaf" /\ p.len = Len(Actors[cap.name].bytes)
        BY <1>2, <2>2, <3>2, LeafFacts DEF Leaf
      <4> QED BY <2>1, <2>2, <2>3, <3>2, <4>1 DEF PartType, Blob!Part
    <3> QED BY <3>1, <3>2
  <2>5. Pieces(cap) = <<p>>
    BY <1>2, <2>1 DEF Pieces
  <2> QED BY <2>3, <2>4, <2>5
<1> QED BY <1>1, <1>2

(* The parts of a part that is a leaf.                                     *)
LEMMA PartFacts ==
  ASSUME BlobsMade, NEW p \in PartType
  PROVE  /\ p.src \in Blob!Caps /\ p.base \in Nat /\ p.len \in Nat
         /\ p.src.of = "device" => p.base + p.len <= Len(Blobs[p.src.name])
         /\ p.src.of # "device" => ~ Composed(p.src) /\ p.base = 0 /\ p.len = Len(Leaf(p.src.name))
BY DEF PartType, Composed, Leaf

(* There is a place for each of a sequence.                                *)
LEMMA StartsExist ==
  ASSUME NEW V, NEW cs \in Seq(V), \A k \in 1 .. Len(cs) : cs[k].len \in Nat
  PROVE  \E S : Starts(S, Len(cs), cs)
<1>1. DOMAIN cs = 1 .. Len(cs) /\ Len(cs) \in Nat
  OBVIOUS
<1> QED BY <1>1, TotalIs

(* Chunks have lengths.                                                    *)
LEMMA ChunkFacts ==
  ASSUME NEW cs \in Seq(Chunk)
  PROVE  Len(cs) \in Nat /\ DOMAIN cs = 1 .. Len(cs) /\ \A i \in 1 .. Len(cs) : cs[i].len \in Nat
<1>1. \A i \in 1 .. Len(cs) : cs[i] \in Chunk
  OBVIOUS
<1> QED BY <1>1 DEF Chunk

(* One more chunk shows the part that begins where the others end.         *)
LEMMA ChunkMore ==
  ASSUME NEW cs \in Seq(Chunk), NEW ps, NEW S, NEW P, Matched(cs, ps, S, P), Len(ps) \in Nat,
         NEW c \in Chunk, NEW k \in 1 .. Len(ps), S[Len(cs)] = P[k - 1], Shows(c, ps[k])
  PROVE  /\ Append(cs, c) \in Seq(Chunk)
         /\ \E U : Matched(Append(cs, c), ps, U, P) /\ U[Len(Append(cs, c))] = P[k]
<1>1. PICK ds : ds = Append(cs, c)
  OBVIOUS
<1>2. PICK n \in Nat : n = Len(cs)
  BY ChunkFacts
<1>0. PICK m \in Nat : m = n + 1
  OBVIOUS
<1>3. ds \in Seq(Chunk) /\ Len(ds) = m /\ ds[m] = c /\ \A i \in 1 .. n : ds[i] = cs[i]
  BY <1>0, <1>1, <1>2, AppendProperties
<1>4. PICK U : Starts(U, m, ds)
  BY <1>3, ChunkFacts, StartsExist
<1>5. \A i \in 0 .. n : U[i] = S[i]
  <2>1. n <= m /\ Starts(S, n, cs)
    BY <1>0, <1>2 DEF Matched
  <2>2. \A i \in 1 .. n : cs[i].len = ds[i].len
    BY <1>3
  <2>3. \A i \in 0 .. n : S[i] = U[i]
    BY <1>4, <2>1, <2>2, StartsSame
  <2> QED BY <2>3
<1>6. U[m] = P[k]
  <2>1. U[m] = U[n] + c.len
    <3>1. m \in 1 .. m /\ m - 1 = n
      BY <1>0
    <3> QED BY <1>3, <1>4, <3>1 DEF Starts
  <2>2. P[k] = P[k - 1] + ps[k].len
    BY DEF Matched, Starts
  <2>3. n \in 0 .. n
    OBVIOUS
  <2> QED BY <1>2, <1>5, <2>1, <2>2, <2>3 DEF Shows
<1>7. ASSUME NEW i \in 1 .. m PROVE Shown(ds, i, ps, U, P)
  <2>1. CASE i = m
    <3>1. U[i - 1] = P[k - 1] /\ ds[i] = c
      <4>1. i - 1 = n /\ n \in 0 .. n
        BY <1>0, <2>1
      <4> QED BY <1>2, <1>3, <1>5, <2>1, <4>1
    <3> QED BY <3>1 DEF Shown
  <2>2. CASE i # m
    <3>1. i \in 1 .. n /\ i - 1 \in 0 .. n
      BY <1>0, <2>2
    <3>2. Shown(cs, i, ps, S, P)
      BY <1>2, <3>1 DEF Matched
    <3>3. U[i - 1] = S[i - 1] /\ ds[i] = cs[i]
      BY <1>3, <1>5, <3>1
    <3> QED BY <3>2, <3>3 DEF Shown
  <2> QED BY <2>1, <2>2
<1>8. Matched(ds, ps, U, P)
  BY <1>3, <1>4, <1>7 DEF Matched
<1> QED BY <1>1, <1>3, <1>6, <1>8

(* The answer to a source request at the beginning of a part, or at the    *)
(* end of the blob, is a part that is not empty, or there are no more.     *)
LEMMA ReplyIs ==
  ASSUME BlobsMade, NEW cap \in Blob!Caps, cap.of = "actor",
         NEW P, Starts(P, Len(Pieces(cap)), Pieces(cap)),
         NEW k0 \in 0 .. Len(Pieces(cap)), NEW reply, reply = Blob!SourceReply(cap, P[k0])
  PROVE  \/ reply.len = 0 /\ P[k0] = P[Len(Pieces(cap))]
         \/ /\ reply.len # 0
            /\ \E k \in 1 .. Len(Pieces(cap)) :
                 /\ P[k - 1] = P[k0] /\ reply.src = Pieces(cap)[k].src
                 /\ reply.base = Pieces(cap)[k].base /\ reply.len = Pieces(cap)[k].len
<1>1. PICK ps \in Seq(PartType) : ps = Pieces(cap)
  BY PieceFacts
<1>2. PICK m \in Nat : m = Len(ps)
  OBVIOUS
<1>3. /\ Starts(P, m, ps) /\ k0 \in 0 .. m /\ DOMAIN ps = 1 .. m
      /\ \A k \in 1 .. m : ps[k].len \in Nat /\ ps[k].base \in Nat
  <2>1. \A k \in 1 .. m : ps[k] \in PartType
    BY <1>2
  <2>2. \A k \in 1 .. m : ps[k].len \in Nat /\ ps[k].base \in Nat
    BY <2>1 DEF PartType
  <2> QED BY <1>1, <1>2, <2>2
<1>4. PICK o \in Nat : o = P[k0]
  BY <1>3 DEF Starts
<1>5. CASE Composed(cap)
  <2>1. ps = Actors[cap.name].parts /\ Actors[cap.name].kind = "composed"
    BY <1>1, <1>5 DEF Pieces, Composed
  <2>2. \A k \in 1 .. m : Blob!PartStart(ps, k) = P[k - 1] /\ P[k - 1] \in Nat /\ P[k] = P[k - 1] + ps[k].len
    <3>1. ASSUME NEW k \in 1 .. m PROVE Blob!PartStart(ps, k) = P[k - 1]
      BY <1>1, <1>2, <1>3, PartStartIs
    <3> QED BY <1>3, <3>1 DEF Starts
  <2>3. PICK at : at = {k \in DOMAIN ps : /\ Blob!PartStart(ps, k) <= o
                                         /\ o < Blob!PartStart(ps, k) + ps[k].len}
    OBVIOUS
  <2>4. at = {k \in 1 .. m : P[k - 1] <= o /\ o < P[k]}
    BY <1>3, <2>2, <2>3
  <2>5. CASE at = {}
    <3>1. reply = Blob!Part(cap, o, 0)
      BY <1>4, <2>1, <2>3, <2>5 DEF Blob!SourceReply, Composed
    <3>2. P[m] <= o
      <4>1. P \in [0 .. m -> Nat] /\ P[0] = 0
        BY <1>3 DEF Starts
      <4>2. o < P[m] => \E k \in 1 .. m : P[k - 1] <= o /\ o < P[k]
        BY <4>1, SumCovers
      <4>3. P[m] \in Nat
        BY <4>1
      <4> QED BY <2>4, <2>5, <4>2, <4>3
    <3>3. o <= P[m]
      BY <1>3, <1>4, StartsGrow
    <3>4. P[m] \in Nat
      BY <1>3 DEF Starts
    <3> QED BY <1>1, <1>2, <1>4, <3>1, <3>2, <3>3, <3>4 DEF Blob!Part
  <2>6. CASE at # {}
    <3>1. PICK k : k = CHOOSE i \in at : TRUE
      OBVIOUS
    <3>2. k \in 1 .. m /\ P[k - 1] <= o /\ o < P[k]
      BY <2>4, <2>6, <3>1
    <3>3. P[k - 1] = o
      <4>1. k0 <= k - 1
        <5> SUFFICES ASSUME ~ (k0 <= k - 1) PROVE FALSE
          OBVIOUS
        <5>1. k <= k0 /\ k \in 0 .. m
          BY <1>3, <3>2
        <5>2. P[k] <= P[k0]
          BY <1>3, <5>1, StartsGrow
        <5>3. P[k] \in Nat
          BY <1>3, <5>1 DEF Starts
        <5> QED BY <1>4, <3>2, <5>2, <5>3
      <4>2. k - 1 \in 0 .. m
        BY <3>2
      <4>3. P[k0] <= P[k - 1]
        BY <1>3, <4>1, <4>2, StartsGrow
      <4> QED BY <1>4, <2>2, <3>2, <4>3
    <3>4. reply = Blob!Part(ps[k].src, ps[k].base + (o - Blob!PartStart(ps, k)),
                            ps[k].len - (o - Blob!PartStart(ps, k)))
      BY <1>4, <2>1, <2>3, <2>6, <3>1 DEF Blob!SourceReply, Composed
    <3>5. o - Blob!PartStart(ps, k) = 0
      BY <2>2, <3>2, <3>3
    <3>6. reply = Blob!Part(ps[k].src, ps[k].base, ps[k].len)
      BY <1>3, <3>2, <3>4, <3>5
    <3>7. ps[k].len # 0
      BY <1>3, <2>2, <3>2, <3>3
    <3> QED BY <1>1, <1>2, <1>4, <3>2, <3>3, <3>6, <3>7 DEF Blob!Part
  <2> QED BY <2>5, <2>6
<1>6. CASE ~ Composed(cap)
  <2>1. /\ Leaf(cap.name) \in Seq(Byte) /\ Blob!Contents(cap) = Leaf(cap.name)
        /\ Extent(cap) = Len(Leaf(cap.name))
    BY <1>6, LeafFacts
  <2>2. PICK l \in Nat : l = Extent(cap)
    BY <2>1
  <2>3. ps = <<Blob!Part(cap, 0, l)>> /\ m = 1
    BY <1>1, <1>2, <1>6, <2>2 DEF Pieces
  <2>4. ps[1].src = cap /\ ps[1].base = 0 /\ ps[1].len = l
    BY <2>3 DEF Blob!Part
  <2>5. P[0] = 0 /\ P[1] = l
    BY <1>3, <2>3, <2>4 DEF Starts
  <2>6. reply = Blob!Part(cap, o, IF o > l THEN 0 ELSE l - o)
    BY <1>4, <1>6, <2>1, <2>2 DEF Blob!SourceReply, Composed
  <2>7. reply.src = cap /\ reply.base = o /\ reply.len = IF o > l THEN 0 ELSE l - o
    BY <2>6 DEF Blob!Part
  <2>8. CASE o = l
    BY <1>1, <1>2, <1>4, <2>3, <2>5, <2>7, <2>8
  <2>9. CASE o # l
    <3>1. o = 0 /\ k0 = 0
      BY <1>3, <1>4, <2>3, <2>5, <2>9
    <3>2. reply.len = l /\ reply.len # 0 /\ reply.base = 0
      BY <2>7, <2>9, <3>1
    <3>3. 1 \in 1 .. m /\ P[1 - 1] = P[k0]
      BY <2>3, <3>1
    <3> QED BY <1>1, <1>2, <2>4, <2>7, <3>2, <3>3
  <2> QED BY <2>8, <2>9
<1> QED BY <1>5, <1>6

(* No chunk was read yet.                                                  *)
LEMMA ChunksNone ==
  ASSUME BlobsMade, NEW cap \in Blob!Caps
  PROVE  \E S, P : /\ Matched(<<>>, Pieces(cap), S, P) /\ S[0] = 0 /\ P[0] = 0
                   /\ <<>> \in Seq(Chunk) /\ Len(<<>>) = 0
<1>1. PICK P : Starts(P, Len(Pieces(cap)), Pieces(cap))
  BY PieceFacts, StartsExist
<1>2. PICK S : S = [k \in 0 .. 0 |-> 0]
  OBVIOUS
<1>3. Starts(S, 0, <<>>)
  BY <1>2 DEF Starts
<1>4. Len(<<>>) = 0
  OBVIOUS
<1>5. Matched(<<>>, Pieces(cap), S, P)
  BY <1>1, <1>3, <1>4 DEF Matched
<1>6. P[0] = 0 /\ S[0] = 0
  BY <1>1, <1>3 DEF Starts
<1> QED BY <1>4, <1>5, <1>6

(* The first job.                                                          *)
LEMMA JobIdle == ASSUME BlobsMade PROVE JobInv(Blob!NewJob)
<1>1. <<>> \in Seq(Chunk) /\ <<>> \in Seq(Byte)
  OBVIOUS
<1> QED BY <1>1 DEF JobInv, JobType, Blob!NewJob

(* h_read_chunks.                                                          *)
LEMMA StartKept ==
  ASSUME BlobsMade, NEW cap \in Blob!Caps, NEW l,
         Blob!GetBytes(cap) # 0 => l = Len(Blobs[Blob!GetBytes(cap)])
  PROVE  JobInv(IF Blob!GetBytes(cap) # 0
                THEN [[Blob!NewJob EXCEPT !.cap = cap, !.src = cap] EXCEPT
                        !.phase = "done", !.chunks = <<Blob!View(Blob!GetBytes(cap), 0, l)>>]
                ELSE [[Blob!NewJob EXCEPT !.cap = cap, !.src = cap] EXCEPT !.phase = "source"])
<1>1. PICK n : n = Blob!GetBytes(cap)
  OBVIOUS
<1>2. PICK S, P : Matched(<<>>, Pieces(cap), S, P) /\ S[0] = 0 /\ P[0] = 0
  BY ChunksNone
<1>3. <<>> \in Seq(Chunk) /\ <<>> \in Seq(Byte) /\ Len(<<>>) = 0
  OBVIOUS
<1>4. CASE n # 0
  <2>1. cap.of = "device" /\ n = cap.name /\ n \in DOMAIN Blobs /\ n \in Nat \ {0}
    BY <1>1, <1>4, CapFacts
  <2>2. l \in Nat /\ l = Extent(cap)
    BY <1>1, <1>4, <2>1 DEF BlobsMade, Extent
  <2>3. PICK p : p = Blob!Part(cap, 0, l)
    OBVIOUS
  <2>4. PICK c : c = Blob!View(n, 0, l)
    OBVIOUS
  <2>5. PICK ps \in Seq(PartType) : ps = Pieces(cap)
    BY PieceFacts
  <2>6. ps = <<p>> /\ Len(ps) = 1 /\ ps[1] = p
    BY <2>1, <2>2, <2>3, <2>5 DEF Pieces, Composed
  <2>7. c \in Chunk /\ Shows(c, p)
    BY <1>3, <2>1, <2>2, <2>3, <2>4 DEF Chunk, Shows, Blob!Part, Blob!View
  <2>8. PICK cs \in Seq(Chunk) : cs = <<>>
    BY <1>3
  <2>9. PICK ds : ds = Append(cs, c)
    OBVIOUS
  <2>10. PICK U : ds \in Seq(Chunk) /\ Matched(ds, ps, U, P) /\ U[Len(ds)] = P[1]
    <3>1. 1 \in 1 .. Len(ps) /\ S[Len(cs)] = P[1 - 1] /\ Shows(c, ps[1]) /\ Len(ps) \in Nat
      BY <1>2, <1>3, <2>6, <2>7, <2>8
    <3>2. Matched(cs, ps, S, P)
      BY <1>2, <2>5, <2>8
    <3> QED BY <2>7, <2>9, <3>1, <3>2, ChunkMore
  <2>11. ds = <<c>>
    BY <2>8, <2>9
  <2>12. PICK j : j = [[Blob!NewJob EXCEPT !.cap = cap, !.src = cap] EXCEPT
                         !.phase = "done", !.chunks = <<c>>]
    OBVIOUS
  <2>13. j \in JobType /\ j.phase = "done" /\ j.cap = cap /\ j.chunks = ds
    BY <1>3, <2>10, <2>11, <2>12 DEF JobType, Blob!NewJob
  <2>14. Fine(j, U, P)
    BY <2>5, <2>6, <2>10, <2>13 DEF Fine
  <2>15. JobInv(j)
    BY <2>13, <2>14 DEF JobInv
  <2> QED BY <1>1, <1>4, <2>4, <2>12, <2>15
<1>5. CASE n = 0
  <2>1. cap.of = "actor"
    BY <1>1, <1>5, CapFacts
  <2>2. PICK j : j = [[Blob!NewJob EXCEPT !.cap = cap, !.src = cap] EXCEPT !.phase = "source"]
    OBVIOUS
  <2>3. j \in JobType /\ j.phase = "source" /\ j.cap = cap /\ j.chunks = <<>> /\ j.bytes = <<>>
    BY <1>3, <2>2 DEF JobType, Blob!NewJob
  <2>4. AtPart(<<>>, Pieces(cap), S, P)
    <3>1. Len(Pieces(cap)) \in Nat
      BY PieceFacts
    <3>2. 0 \in 0 .. Len(Pieces(cap)) /\ S[Len(<<>>)] = P[0]
      BY <1>2, <1>3, <3>1
    <3> QED BY <3>2 DEF AtPart
  <2>5. Fine(j, S, P)
    BY <1>2, <2>1, <2>3, <2>4 DEF Fine
  <2>6. JobInv(j)
    BY <2>3, <2>5 DEF JobInv
  <2> QED BY <1>1, <1>5, <2>2, <2>6
<1> QED BY <1>4, <1>5

(* h_source_chunks, when the next bytes are of a blob of the device.       *)
LEMMA SourceKept ==
  ASSUME BlobsMade, NEW job, JobInv(job), job.phase = "source",
         NEW reply, reply = Blob!SourceReply(job.cap, Blob!Total(job.chunks)),
         NEW n, n = Blob!GetBytes(reply.src),
         NEW e, e = (IF job.cap.of = "actor" /\ ~ Actors[job.cap.name].sources
                     THEN [job EXCEPT !.phase = "whole", !.src = job.cap]
                     ELSE IF reply.len = 0
                     THEN [job EXCEPT !.phase = "done"]
                     ELSE IF n # 0
                     THEN [job EXCEPT !.chunks = Append(@, Blob!View(n, reply.base, reply.len))]
                     ELSE [job EXCEPT !.phase = "bytes", !.src = reply.src, !.bytes = <<>>])
  PROVE  JobInv(e)
<1>1. PICK cap \in Blob!Caps : cap = job.cap
  BY DEF JobInv
<1>2. PICK S, P : Fine(job, S, P)
  BY DEF JobInv
<1>3. PICK ps \in Seq(PartType) : ps = Pieces(cap)
  BY PieceFacts
<1>4. PICK cs \in Seq(Chunk) : cs = job.chunks
  BY DEF JobInv, JobType
<1>5. PICK m \in Nat : m = Len(ps)
  OBVIOUS
<1>6. /\ cap.of = "actor" /\ cap.name \in DOMAIN Actors /\ Actors[cap.name].sources \in BOOLEAN
      /\ Matched(cs, ps, S, P) /\ AtPart(cs, ps, S, P)
      /\ Actors[cap.name].sources \/ (cs = <<>> /\ job.bytes = <<>>)
  <2>1. cap.of = "actor"
    BY <1>1, <1>2 DEF Fine
  <2>2. cap.name \in DOMAIN Actors
    BY <2>1, CapFacts
  <2> QED BY <1>1, <1>2, <1>3, <1>4, <2>1, <2>2 DEF Fine, BlobsMade
<1>7. job \in JobType
  BY DEF JobInv
<1>8. Starts(S, Len(cs), cs) /\ Starts(P, m, ps)
  BY <1>5, <1>6 DEF Matched
<1>9. Blob!Total(cs) = S[Len(cs)]
  BY <1>8, ChunkFacts, TotalOf
<1>10. PICK k0 \in 0 .. m : S[Len(cs)] = P[k0]
  BY <1>5, <1>6 DEF AtPart
<1>11. CASE ~ Actors[cap.name].sources
  <2>1. e = [job EXCEPT !.phase = "whole", !.src = job.cap]
    BY <1>1, <1>6, <1>11
  <2>2. /\ e \in JobType /\ e.phase = "whole" /\ e.src = cap /\ e.cap = cap
        /\ e.chunks = cs /\ e.bytes = <<>>
    BY <1>1, <1>4, <1>6, <1>7, <1>11, <2>1 DEF JobType
  <2>3. ~ Composed(cap)
    BY <1>6, <1>11 DEF Composed, BlobsMade
  <2>4. Copied(e.bytes, Leaf(cap.name))
    <3>1. Leaf(cap.name) \in Seq(Byte)
      BY <1>6, <2>3, LeafFacts
    <3>2. Len(<<>>) = 0 /\ Len(Leaf(cap.name)) \in Nat
      BY <3>1
    <3> QED BY <2>2, <3>2 DEF Copied
  <2>5. Fine(e, S, P)
    BY <1>3, <1>6, <1>11, <2>2, <2>3, <2>4 DEF Fine
  <2> QED BY <2>2, <2>5 DEF JobInv
<1>12. CASE Actors[cap.name].sources
  <2>0. reply = Blob!SourceReply(cap, P[k0])
    BY <1>1, <1>4, <1>9, <1>10
  <2>1. \/ reply.len = 0 /\ P[k0] = P[m]
        \/ /\ reply.len # 0
           /\ \E k \in 1 .. m : /\ P[k - 1] = P[k0] /\ reply.src = ps[k].src
                                /\ reply.base = ps[k].base /\ reply.len = ps[k].len
    <3>1. Starts(P, Len(Pieces(cap)), Pieces(cap)) /\ k0 \in 0 .. Len(Pieces(cap))
      BY <1>3, <1>5, <1>8
    <3>2. \/ reply.len = 0 /\ P[k0] = P[Len(Pieces(cap))]
          \/ /\ reply.len # 0
             /\ \E k \in 1 .. Len(Pieces(cap)) :
                  /\ P[k - 1] = P[k0] /\ reply.src = Pieces(cap)[k].src
                  /\ reply.base = Pieces(cap)[k].base /\ reply.len = Pieces(cap)[k].len
      BY <1>6, <2>0, <3>1, ReplyIs
    <3> QED BY <1>3, <1>5, <3>2
  <2>2. CASE reply.len = 0
    <3>1. e = [job EXCEPT !.phase = "done"]
      BY <1>1, <1>12, <2>2
    <3>2. e \in JobType /\ e.phase = "done" /\ e.cap = cap /\ e.chunks = cs
      BY <1>1, <1>4, <1>7, <3>1 DEF JobType
    <3>3. S[Len(cs)] = P[Len(ps)]
      BY <1>5, <1>10, <2>1, <2>2
    <3>4. Fine(e, S, P)
      BY <1>3, <1>6, <3>2, <3>3 DEF Fine
    <3> QED BY <3>2, <3>4 DEF JobInv
  <2>3. CASE reply.len # 0
    <3>1. PICK k \in 1 .. m : /\ P[k - 1] = P[k0] /\ reply.src = ps[k].src
                              /\ reply.base = ps[k].base /\ reply.len = ps[k].len
      BY <2>1, <2>3
    <3>2. PICK p \in PartType : p = ps[k]
      BY <1>5
    <3>3. PICK s \in Blob!Caps : s = p.src
      BY PartFacts
    <3>4. CASE n # 0
      <4>1. s.of = "device" /\ n = s.name /\ n \in DOMAIN Blobs /\ n \in Nat \ {0}
        BY <3>1, <3>2, <3>3, <3>4, CapFacts
      <4>2. PICK c : c = Blob!View(n, p.base, p.len)
        OBVIOUS
      <4>3. c \in Chunk /\ Shows(c, p)
        <5>1. p.base \in Nat /\ p.len \in Nat /\ <<>> \in Seq(Byte)
          BY PartFacts
        <5> QED BY <3>3, <4>1, <4>2, <5>1 DEF Chunk, Shows, Blob!View
      <4>4. PICK ds : ds = Append(cs, c)
        OBVIOUS
      <4>5. PICK U : ds \in Seq(Chunk) /\ Matched(ds, ps, U, P) /\ U[Len(ds)] = P[k]
        <5>1. k \in 1 .. Len(ps) /\ S[Len(cs)] = P[k - 1] /\ Shows(c, ps[k]) /\ Len(ps) \in Nat
          BY <1>5, <1>10, <3>1, <3>2, <4>3
        <5> QED BY <1>6, <4>3, <4>4, <5>1, ChunkMore
      <4>6. e = [job EXCEPT !.chunks = ds]
        BY <1>1, <1>4, <1>12, <2>3, <3>1, <3>2, <3>4, <4>2, <4>4
      <4>7. e \in JobType /\ e.phase = "source" /\ e.cap = cap /\ e.chunks = ds
        BY <1>1, <1>7, <4>5, <4>6 DEF JobType
      <4>8. AtPart(ds, ps, U, P)
        BY <1>5, <4>5 DEF AtPart
      <4>9. Fine(e, U, P)
        BY <1>3, <1>6, <1>12, <4>5, <4>7, <4>8 DEF Fine
      <4> QED BY <4>7, <4>9 DEF JobInv
    <3>5. CASE n = 0
      <4>1. s.of = "actor" /\ ~ Composed(s)
        BY <3>1, <3>2, <3>3, <3>5, CapFacts, PartFacts
      <4>2. e = [job EXCEPT !.phase = "bytes", !.src = s, !.bytes = <<>>]
        BY <1>1, <1>12, <2>3, <3>1, <3>2, <3>3, <3>5
      <4>3. /\ e \in JobType /\ e.phase = "bytes" /\ e.src = s /\ e.cap = cap
            /\ e.chunks = cs /\ e.bytes = <<>>
        <5>1. <<>> \in Seq(Byte)
          OBVIOUS
        <5> QED BY <1>1, <1>4, <1>7, <4>2, <5>1 DEF JobType
      <4>4. Copied(e.bytes, Leaf(s.name))
        <5>1. Leaf(s.name) \in Seq(Byte)
          BY <4>1, LeafFacts
        <5>2. Len(<<>>) = 0 /\ Len(Leaf(s.name)) \in Nat
          BY <5>1
        <5> QED BY <4>3, <5>2 DEF Copied
      <4>5. AtSource(cs, ps, S, P, s)
        BY <1>5, <1>10, <3>1, <3>2, <3>3 DEF AtSource
      <4>6. Fine(e, S, P)
        BY <1>3, <1>6, <1>12, <4>1, <4>3, <4>4, <4>5 DEF Fine
      <4> QED BY <4>3, <4>6 DEF JobInv
    <3> QED BY <3>4, <3>5
  <2> QED BY <2>2, <2>3
<1> QED BY <1>6, <1>11, <1>12

(* One more byte is copied.                                                *)
LEMMA CopyMore ==
  ASSUME NEW leaf \in Seq(Byte), NEW b \in Seq(Byte), Copied(b, leaf), Len(b) < Len(leaf),
         NEW c, c = Append(b, leaf[Len(b) + 1])
  PROVE  c \in Seq(Byte) /\ Copied(c, leaf)
<1>1. PICK n \in Nat : n = Len(b)
  OBVIOUS
<1>2. PICK m \in Nat : m = n + 1
  OBVIOUS
<1>3. m \in 1 .. Len(leaf) /\ leaf[m] \in Byte
  BY <1>1, <1>2
<1>4. PICK x \in Byte : x = leaf[m]
  BY <1>3
<1>5. c = Append(b, x)
  BY <1>1, <1>2, <1>4
<1>6. c \in Seq(Byte) /\ Len(c) = m /\ c[m] = x /\ \A i \in 1 .. n : c[i] = b[i]
  BY <1>1, <1>2, <1>5, AppendProperties
<1>7. ASSUME NEW i \in 1 .. m PROVE c[i] = leaf[i]
  <2>1. CASE i = m
    BY <1>4, <1>6, <2>1
  <2>2. CASE i # m
    <3>1. i \in 1 .. n
      BY <1>2, <2>2
    <3> QED BY <1>1, <1>6, <3>1 DEF Copied
  <2> QED BY <2>1, <2>2
<1> QED BY <1>3, <1>6, <1>7 DEF Copied

(* All bytes are copied: the chunk shows the part that is the leaf.        *)
LEMMA CopyShows ==
  ASSUME BlobsMade, NEW p \in PartType, p.src.of = "actor",
         NEW b \in Seq(Byte), Copied(b, Leaf(p.src.name)), ~ (Len(b) < Len(Leaf(p.src.name))),
         NEW c, c = Blob!Copy(b)
  PROVE  c \in Chunk /\ Shows(c, p)
<1>1. PICK leaf \in Seq(Byte) : leaf = Leaf(p.src.name)
  BY PartFacts, LeafFacts
<1>2. p.len = Len(leaf)
  BY <1>1, PartFacts
<1>3. Len(b) = Len(leaf) /\ Len(b) \in Nat /\ Len(leaf) \in Nat
  BY <1>1 DEF Copied
<1>4. \A i \in 1 .. Len(b) : b[i] = leaf[i]
  BY <1>1 DEF Copied
<1>5. b = leaf
  BY <1>3, <1>4, SeqEqual
<1>6. c.len = Len(b) /\ c.view = 0 /\ c.bytes = b
  BY DEF Blob!Copy
<1>7. c \in Chunk
  BY <1>3 DEF Blob!Copy, Chunk
<1> QED BY <1>1, <1>2, <1>3, <1>5, <1>6, <1>7 DEF Shows

(* h_read_bytes.                                                           *)
LEMMA ReadByteKept ==
  ASSUME BlobsMade, NEW job, JobInv(job), job.phase \in {"bytes", "whole"},
         NEW bytes, bytes = Blob!Meaning(job.src),
         NEW e, e = (IF Len(job.bytes) < Len(bytes)
                     THEN [job EXCEPT !.bytes = Append(@, bytes[Len(job.bytes) + 1])]
                     ELSE IF job.phase = "whole"
                     THEN [job EXCEPT !.phase = "done", !.chunks = <<Blob!Copy(job.bytes)>>]
                     ELSE [job EXCEPT !.phase = "source", !.chunks = Append(@, Blob!Copy(job.bytes))])
  PROVE  JobInv(e)
<1>1. PICK cap \in Blob!Caps : cap = job.cap
  BY DEF JobInv
<1>2. PICK S, P : Fine(job, S, P)
  BY DEF JobInv
<1>3. PICK ps \in Seq(PartType) : ps = Pieces(cap)
  BY PieceFacts
<1>4. PICK cs \in Seq(Chunk) : cs = job.chunks
  BY DEF JobInv, JobType
<1>5. PICK m \in Nat : m = Len(ps)
  OBVIOUS
<1>6. PICK b \in Seq(Byte) : b = job.bytes
  BY DEF JobInv, JobType
<1>7. job \in JobType
  BY DEF JobInv
<1>8. cap.of = "actor" /\ Matched(cs, ps, S, P) /\ job.src.of = "actor"
  BY <1>1, <1>2, <1>3, <1>4 DEF Fine
<1>9. PICK s \in Blob!Caps : s = job.src
  BY <1>7, <1>8 DEF JobType, Blob!Device
<1>10. PICK k \in 1 .. m : /\ S[Len(cs)] = P[k - 1] /\ s = ps[k].src
                           /\ job.phase = "whole" => m = 1 /\ cs = <<>>
  <2>1. CASE job.phase = "bytes"
    <3>1. AtSource(cs, ps, S, P, s)
      BY <1>1, <1>2, <1>3, <1>4, <1>9, <2>1 DEF Fine
    <3> QED BY <1>5, <2>1, <3>1 DEF AtSource
  <2>2. CASE job.phase = "whole"
    <3>1. ~ Composed(cap) /\ cs = <<>> /\ s = cap
      BY <1>1, <1>2, <1>4, <1>9, <2>2 DEF Fine
    <3>2. ps = <<Blob!Part(cap, 0, Extent(cap))>>
      BY <1>3, <3>1 DEF Pieces
    <3>3. m = 1 /\ ps[1].src = s
      BY <1>5, <3>1, <3>2 DEF Blob!Part
    <3>4. Len(cs) = 0
      BY <3>1
    <3>5. S[0] = 0 /\ P[0] = 0
      BY <1>8 DEF Matched, Starts
    <3>6. 1 \in 1 .. m /\ S[Len(cs)] = P[1 - 1]
      BY <3>3, <3>4, <3>5
    <3> QED BY <3>1, <3>3, <3>6
  <2> QED BY <2>1, <2>2
<1>11. PICK p \in PartType : p = ps[k]
  BY <1>5, <1>10
<1>12. p.src = s /\ p.src.of = "actor" /\ ~ Composed(s)
  BY <1>8, <1>9, <1>10, <1>11, PartFacts
<1>13. PICK leaf \in Seq(Byte) : leaf = Leaf(s.name) /\ leaf = bytes
  BY <1>9, <1>12, LeafFacts
<1>14. Copied(b, leaf)
  BY <1>2, <1>6, <1>9, <1>13 DEF Fine
<1>15. CASE Len(b) < Len(leaf)
  <2>1. PICK c : c = Append(b, leaf[Len(b) + 1])
    OBVIOUS
  <2>2. c \in Seq(Byte) /\ Copied(c, leaf)
    BY <1>14, <1>15, <2>1, CopyMore
  <2>3. e = [job EXCEPT !.bytes = c]
    BY <1>6, <1>13, <1>15, <2>1
  <2>4. /\ e \in JobType /\ e.phase = job.phase /\ e.src = s /\ e.cap = cap
        /\ e.chunks = cs /\ e.bytes = c
    BY <1>1, <1>4, <1>7, <1>9, <2>2, <2>3 DEF JobType
  <2>5. Fine(e, S, P)
    <3>1. CASE job.phase = "bytes"
      <4>1. Actors[cap.name].sources /\ AtSource(cs, ps, S, P, s)
        BY <1>1, <1>2, <1>3, <1>4, <1>9, <3>1 DEF Fine
      <4> QED BY <1>3, <1>8, <1>9, <1>13, <2>2, <2>4, <3>1, <4>1 DEF Fine
    <3>2. CASE job.phase = "whole"
      <4>1. ~ Composed(cap) /\ cs = <<>> /\ s = cap
        BY <1>1, <1>2, <1>4, <1>9, <3>2 DEF Fine
      <4> QED BY <1>3, <1>8, <1>9, <1>13, <2>2, <2>4, <3>2, <4>1 DEF Fine
    <3> QED BY <3>1, <3>2
  <2> QED BY <2>4, <2>5 DEF JobInv
<1>16. CASE ~ (Len(b) < Len(leaf))
  <2>1. PICK c : c = Blob!Copy(b)
    OBVIOUS
  <2>2. c \in Chunk /\ Shows(c, p)
    BY <1>12, <1>13, <1>14, <1>16, <2>1, CopyShows
  <2>3. PICK ds : ds = Append(cs, c)
    OBVIOUS
  <2>4. PICK U : ds \in Seq(Chunk) /\ Matched(ds, ps, U, P) /\ U[Len(ds)] = P[k]
    <3>1. k \in 1 .. Len(ps) /\ S[Len(cs)] = P[k - 1] /\ Shows(c, ps[k]) /\ Len(ps) \in Nat
      BY <1>5, <1>10, <1>11, <2>2
    <3> QED BY <1>8, <2>2, <2>3, <3>1, ChunkMore
  <2>5. CASE job.phase = "whole"
    <3>1. ds = <<c>> /\ m = 1 /\ k = 1
      BY <1>10, <2>3, <2>5
    <3>2. e = [job EXCEPT !.phase = "done", !.chunks = ds]
      BY <1>6, <1>13, <1>16, <2>1, <2>5, <3>1
    <3>3. e \in JobType /\ e.phase = "done" /\ e.cap = cap /\ e.chunks = ds
      BY <1>1, <1>7, <2>4, <3>2 DEF JobType
    <3>4. Fine(e, U, P)
      BY <1>3, <1>5, <2>4, <3>1, <3>3 DEF Fine
    <3> QED BY <3>3, <3>4 DEF JobInv
  <2>6. CASE job.phase = "bytes"
    <3>1. e = [job EXCEPT !.phase = "source", !.chunks = ds]
      BY <1>4, <1>6, <1>13, <1>16, <2>1, <2>3, <2>6
    <3>2. e \in JobType /\ e.phase = "source" /\ e.cap = cap /\ e.chunks = ds
      BY <1>1, <1>7, <2>4, <3>1 DEF JobType
    <3>3. Actors[cap.name].sources
      BY <1>1, <1>2, <2>6 DEF Fine
    <3>4. AtPart(ds, ps, U, P)
      BY <1>5, <2>4 DEF AtPart
    <3>5. Fine(e, U, P)
      BY <1>3, <1>8, <2>4, <3>2, <3>3, <3>4 DEF Fine
    <3> QED BY <3>2, <3>5 DEF JobInv
  <2> QED BY <2>5, <2>6
<1> QED BY <1>15, <1>16

(* A step of one reading.                                                  *)
LEMMA JobKept ==
  ASSUME BlobInv, NEW j \in Jobs, NEW e, JobInv(e), dev' = [dev EXCEPT !.jobs[j] = e]
  PROVE  BlobInv'
<1>1. PICK blobs, jobs, w : dev = [blobs |-> blobs, jobs |-> jobs, writes |-> w]
  BY DEF BlobInv
<1>2. PICK V : jobs \in [Jobs -> V]
  BY <1>1 DEF BlobInv
<1>3. dev' = [blobs |-> blobs, jobs |-> [jobs EXCEPT ![j] = e], writes |-> w]
  BY <1>1
<1>4. [jobs EXCEPT ![j] = e] \in [Jobs -> V \cup {e}]
  BY <1>2
<1>5. ArraysInv(blobs)
  BY <1>1 DEF BlobInv
<1>6. ASSUME NEW i \in Jobs PROVE JobInv([jobs EXCEPT ![j] = e][i])
  <2>1. CASE i = j
    BY <1>2, <2>1
  <2>2. CASE i # j
    <3>1. [jobs EXCEPT ![j] = e][i] = jobs[i] /\ jobs[i] = dev.jobs[i]
      BY <1>1, <1>2, <2>2
    <3> QED BY <3>1 DEF BlobInv
  <2> QED BY <2>1, <2>2
<1>7. dev'.blobs = blobs /\ dev'.jobs = [jobs EXCEPT ![j] = e]
  <2>1. PICK more : more = [jobs EXCEPT ![j] = e]
    OBVIOUS
  <2>2. dev' = [blobs |-> blobs, jobs |-> more, writes |-> w]
    BY <1>3, <2>1
  <2>3. dev'.blobs = blobs /\ dev'.jobs = more
    BY <2>2
  <2> QED BY <2>1, <2>3
<1> QED BY <1>3, <1>4, <1>5, <1>6, <1>7 DEF BlobInv

(* A byte is written: arrays stay as long as they were.                    *)
LEMMA WriteKept ==
  ASSUME BlobsMade, BlobInv, NEW n \in DOMAIN Blobs, NEW at \in 0 .. 2, NEW byte \in Byte,
         Blob!Write(n, at, byte)
  PROVE  BlobInv'
<1>1. PICK blobs, jobs, w : dev = [blobs |-> blobs, jobs |-> jobs, writes |-> w]
  BY DEF BlobInv
<1>2. ArraysInv(blobs)
  BY <1>1 DEF BlobInv
<1>3. PICK s \in Seq(Byte) : s = blobs[n] /\ Len(s) = Len(Blobs[n])
  BY <1>2 DEF ArraysInv
<1>4. PICK t : t = IF at < Len(s) THEN [s EXCEPT ![at + 1] = byte] ELSE s
  OBVIOUS
<1>5. t \in Seq(Byte) /\ Len(t) = Len(s)
  <2>1. CASE at < Len(s)
    <3>1. at + 1 \in 1 .. Len(s)
      BY <2>1
    <3> QED BY <1>4, <2>1, <3>1
  <2>2. CASE ~ (at < Len(s))
    BY <1>4, <2>2
  <2> QED BY <2>1, <2>2
<1>6. dev' = [blobs |-> [blobs EXCEPT ![n] = t], jobs |-> jobs, writes |-> w + 1]
  BY <1>1, <1>3, <1>4 DEF Blob!Write
<1>7. ArraysInv([blobs EXCEPT ![n] = t])
  <2>1. [blobs EXCEPT ![n] = t] \in [DOMAIN Blobs -> Seq(Byte)]
    BY <1>2, <1>5 DEF ArraysInv
  <2>2. ASSUME NEW i \in DOMAIN Blobs PROVE Len([blobs EXCEPT ![n] = t][i]) = Len(Blobs[i])
    <3>1. [blobs EXCEPT ![n] = t][i] = IF i = n THEN t ELSE blobs[i]
      BY <1>2 DEF ArraysInv
    <3>2. Len(blobs[i]) = Len(Blobs[i])
      BY <1>2 DEF ArraysInv
    <3> QED BY <1>3, <1>5, <3>1, <3>2
  <2> QED BY <2>1, <2>2 DEF ArraysInv
<1>8. dev'.blobs = [blobs EXCEPT ![n] = t] /\ dev'.jobs = dev.jobs
  BY <1>1, <1>6
<1> QED BY <1>6, <1>7, <1>8 DEF BlobInv

(* The steps of the device.                                                *)
LEMMA BlobInit == ASSUME BlobsMade, Blob!Init PROVE BlobInv
<1>1. Blobs \in [DOMAIN Blobs -> Seq(Byte)]
  BY DEF BlobsMade
<1>2. dev = [blobs |-> Blobs, jobs |-> [j \in Jobs |-> Blob!NewJob], writes |-> 0]
  BY DEF Blob!Init
<1>3. ArraysInv(Blobs)
  BY <1>1 DEF ArraysInv
<1>4. dev.blobs = Blobs /\ dev.jobs \in [Jobs -> {Blob!NewJob}] /\ \A j \in Jobs : dev.jobs[j] = Blob!NewJob
  BY <1>2
<1> QED BY <1>2, <1>3, <1>4, JobIdle DEF BlobInv

LEMMA BlobNext == ASSUME BlobsMade, BlobInv, Blob!Next PROVE BlobInv'
<1>1. ASSUME NEW j \in Jobs, NEW cap \in Blob!Caps, Blob!Start(j, cap) PROVE BlobInv'
  <2>1. PICK n : n = Blob!GetBytes(cap)
    OBVIOUS
  <2>2. PICK l : l = Len(dev.blobs[n])
    OBVIOUS
  <2>3. n # 0 => l = Len(Blobs[n])
    <3>1. n # 0 => n \in DOMAIN Blobs
      BY <2>1, CapFacts
    <3> QED BY <2>2, <3>1 DEF BlobInv, ArraysInv
  <2>4. PICK e : e = IF Blob!GetBytes(cap) # 0
                     THEN [[Blob!NewJob EXCEPT !.cap = cap, !.src = cap] EXCEPT
                             !.phase = "done", !.chunks = <<Blob!View(Blob!GetBytes(cap), 0, l)>>]
                     ELSE [[Blob!NewJob EXCEPT !.cap = cap, !.src = cap] EXCEPT !.phase = "source"]
    OBVIOUS
  <2>5. JobInv(e)
    BY <2>1, <2>3, <2>4, StartKept
  <2>6. dev' = [dev EXCEPT !.jobs[j] = e]
    BY <1>1, <2>1, <2>2, <2>4 DEF Blob!Start, Blob!SetJob
  <2> QED BY <2>5, <2>6, JobKept
<1>2. ASSUME NEW j \in Jobs, Blob!Source(j) PROVE BlobInv'
  <2>1. PICK job : job = dev.jobs[j]
    OBVIOUS
  <2>2. JobInv(job)
    BY <2>1 DEF BlobInv
  <2>3. PICK reply : reply = Blob!SourceReply(job.cap, Blob!Total(job.chunks))
    OBVIOUS
  <2>4. PICK n : n = Blob!GetBytes(reply.src)
    OBVIOUS
  <2>5. PICK e : e = IF job.cap.of = "actor" /\ ~ Actors[job.cap.name].sources
                     THEN [job EXCEPT !.phase = "whole", !.src = job.cap]
                     ELSE IF reply.len = 0
                     THEN [job EXCEPT !.phase = "done"]
                     ELSE IF n # 0
                     THEN [job EXCEPT !.chunks = Append(@, Blob!View(n, reply.base, reply.len))]
                     ELSE [job EXCEPT !.phase = "bytes", !.src = reply.src, !.bytes = <<>>]
    OBVIOUS
  <2>6. job.phase = "source"
    BY <1>2, <2>1 DEF Blob!Source
  <2>7. JobInv(e)
    BY <2>2, <2>3, <2>4, <2>5, <2>6, SourceKept
  <2>8. dev' = [dev EXCEPT !.jobs[j] = e]
    BY <1>2, <2>1, <2>3, <2>4, <2>5 DEF Blob!Source, Blob!SetJob
  <2> QED BY <2>7, <2>8, JobKept
<1>3. ASSUME NEW j \in Jobs, Blob!ReadByte(j) PROVE BlobInv'
  <2>1. PICK job : job = dev.jobs[j]
    OBVIOUS
  <2>2. JobInv(job)
    BY <2>1 DEF BlobInv
  <2>3. PICK bytes : bytes = Blob!Meaning(job.src)
    OBVIOUS
  <2>4. PICK e : e = IF Len(job.bytes) < Len(bytes)
                     THEN [job EXCEPT !.bytes = Append(@, bytes[Len(job.bytes) + 1])]
                     ELSE IF job.phase = "whole"
                     THEN [job EXCEPT !.phase = "done", !.chunks = <<Blob!Copy(job.bytes)>>]
                     ELSE [job EXCEPT !.phase = "source", !.chunks = Append(@, Blob!Copy(job.bytes))]
    OBVIOUS
  <2>5. job.phase \in {"bytes", "whole"}
    BY <1>3, <2>1 DEF Blob!ReadByte
  <2>6. JobInv(e)
    BY <2>2, <2>3, <2>4, <2>5, ReadByteKept
  <2>7. dev' = [dev EXCEPT !.jobs[j] = e]
    BY <1>3, <2>1, <2>3, <2>4 DEF Blob!ReadByte, Blob!SetJob
  <2> QED BY <2>6, <2>7, JobKept
<1>4. ASSUME NEW n \in DOMAIN Blobs, NEW at \in 0 .. 2, NEW byte \in Byte, Blob!Write(n, at, byte)
      PROVE  BlobInv'
  BY <1>4, WriteKept
<1> QED BY <1>1, <1>2, <1>3, <1>4 DEF Blob!Next

(* The bytes of a part, and of a chunk that shows it, as they are by now.  *)
LEMMA PieceIs ==
  ASSUME BlobsMade, ArraysInv(dev.blobs), NEW p \in PartType
  PROVE  /\ Piece(p) \in Seq(Byte) /\ Len(Piece(p)) = p.len
         /\ p.src.of # "device" => Piece(p) = Leaf(p.src.name)
<1>1. p.src \in Blob!Caps /\ p.base \in Nat /\ p.len \in Nat
  BY PartFacts
<1>2. CASE p.src.of = "device"
  <2>1. p.src.name \in DOMAIN Blobs /\ p.base + p.len <= Len(Blobs[p.src.name])
    BY <1>1, <1>2, CapFacts, PartFacts
  <2>2. PICK s \in Seq(Byte) : s = dev.blobs[p.src.name] /\ Len(s) = Len(Blobs[p.src.name])
    BY <2>1 DEF ArraysInv
  <2>3. Piece(p) = SubSeq(s, p.base + 1, p.base + p.len)
    BY <1>2, <2>2 DEF Piece, Blob!Contents
  <2>4. /\ SubSeq(s, p.base + 1, p.base + p.len) \in Seq(Byte)
        /\ Len(SubSeq(s, p.base + 1, p.base + p.len)) = p.len
    <3>1. PICK x \in Nat, y \in Nat : x = p.base /\ y = p.len
      BY <1>1
    <3>2. PICK a \in Int, b \in Int : a = x + 1 /\ b = x + y
      OBVIOUS
    <3>3. a >= 1 /\ b <= Len(s) /\ Len(s) \in Nat
      BY <2>1, <2>2, <3>1, <3>2
    <3>4. \A i \in a .. b : s[i] \in Byte
      <4>1. \A i \in a .. b : i \in 1 .. Len(s)
        BY <3>3
      <4> QED BY <4>1
    <3>5. SubSeq(s, a, b) \in Seq(Byte) /\ Len(SubSeq(s, a, b)) = IF a <= b THEN b - a + 1 ELSE 0
      BY <3>4, SubSeqProperties
    <3>6. (IF a <= b THEN b - a + 1 ELSE 0) = y
      BY <3>2
    <3> QED BY <3>1, <3>2, <3>5, <3>6
  <2> QED BY <1>2, <2>3, <2>4
<1>3. CASE p.src.of # "device"
  <2>1. ~ Composed(p.src) /\ p.base = 0 /\ p.len = Len(Leaf(p.src.name))
    BY <1>3, PartFacts
  <2>2. PICK s \in Seq(Byte) : s = Leaf(p.src.name) /\ Blob!Contents(p.src) = s
    BY <1>1, <1>3, <2>1, LeafFacts
  <2>3. Piece(p) = SubSeq(s, 1, Len(s))
    BY <2>1, <2>2 DEF Piece
  <2>4. SubSeq(s, 1, Len(s)) = s
    OBVIOUS
  <2> QED BY <1>3, <2>1, <2>2, <2>3, <2>4
<1> QED BY <1>2, <1>3

LEMMA ChunkIs ==
  ASSUME BlobsMade, ArraysInv(dev.blobs), NEW c \in Chunk, NEW p \in PartType, Shows(c, p)
  PROVE  Blob!BytesIn(c) = Piece(p)
<1>1. CASE p.src.of = "device"
  <2>1. p.src.name # 0
    BY <1>1, PartFacts, CapFacts
  <2> QED BY <1>1, <2>1 DEF Shows, Piece, Blob!BytesIn, Blob!Contents
<1>2. CASE p.src.of # "device"
  BY <1>2, PieceIs DEF Shows, Blob!BytesIn
<1> QED BY <1>1, <1>2

(* What a blob is, is its parts joined.                                    *)
LEMMA MeaningJoined ==
  ASSUME BlobsMade, ArraysInv(dev.blobs), NEW cap \in Blob!Caps,
         NEW m \in Nat, m = Len(Pieces(cap)),
         NEW C \in Rows(m, Byte), \A k \in 1 .. m : C[k] = Piece(Pieces(cap)[k])
  PROVE  \E Q : RowsJoined(Q, m, Byte, C) /\ Blob!Meaning(cap) = Q[m]
<1>1. PICK ps \in Seq(PartType) : ps = Pieces(cap)
  BY PieceFacts
<1>2. CASE Composed(cap)
  <2>1. ps = Actors[cap.name].parts /\ cap.of = "actor" /\ Actors[cap.name].kind = "composed"
    BY <1>1, <1>2 DEF Pieces, Composed
  <2>2. DOMAIN ps = 1 .. m
    BY <1>1
  <2> QED BY <1>1, <2>1, <2>2, MeaningIs
<1>3. CASE ~ Composed(cap)
  <2>1. PICK p : p = Blob!Part(cap, 0, Extent(cap))
    OBVIOUS
  <2>2. ps = <<p>>
    BY <1>1, <1>3, <2>1 DEF Pieces
  <2>3. m = 1 /\ C[1] = Piece(p)
    BY <1>1, <2>2
  <2>4. PICK s \in Seq(Byte) : s = Blob!Meaning(cap) /\ s = Blob!Contents(cap) /\ Len(s) = Extent(cap)
    <3>1. CASE cap.of = "device"
      <4>1. cap.name \in DOMAIN Blobs
        BY <3>1, CapFacts
      <4>2. dev.blobs[cap.name] \in Seq(Byte) /\ Len(dev.blobs[cap.name]) = Len(Blobs[cap.name])
        BY <4>1 DEF ArraysInv
      <4> QED BY <3>1, <4>2 DEF Blob!Meaning, Blob!Contents, Extent
    <3>2. CASE cap.of # "device"
      BY <1>3, <3>2, LeafFacts
    <3> QED BY <3>1, <3>2
  <2>5. Piece(p) = SubSeq(s, 0 + 1, 0 + Len(s))
    BY <2>1, <2>4 DEF Piece, Blob!Part
  <2>6. SubSeq(s, 0 + 1, 0 + Len(s)) = s
    OBVIOUS
  <2>7. PICK Q : Q = [i \in 0 .. 1 |-> IF i = 0 THEN <<>> ELSE s]
    OBVIOUS
  <2>8. Q[0] = <<>> /\ Q[1] = s
    BY <2>7
  <2>9. <<>> \o s = s /\ <<>> \in Seq(Byte)
    OBVIOUS
  <2>10. Q \in [0 .. 1 -> Seq(Byte)]
    BY <2>7, <2>9
  <2>11. \A k \in 1 .. 1 : Q[k] = Q[k - 1] \o C[k]
    <3>1. C[1] = s
      BY <2>3, <2>5, <2>6
    <3>2. Q[1] = Q[0] \o C[1]
      BY <2>8, <2>9, <3>1
    <3>3. ASSUME NEW k \in 1 .. 1 PROVE k = 1 /\ k - 1 = 0
      OBVIOUS
    <3> QED BY <3>2, <3>3
  <2> QED BY <2>3, <2>4, <2>8, <2>10, <2>11 DEF RowsJoined
<1> QED BY <1>2, <1>3

(* A reading that is done.                                                 *)
LEMMA JobExact ==
  ASSUME BlobsMade, ArraysInv(dev.blobs), NEW job, JobInv(job), job.phase = "done"
  PROVE  Blob!Read(job.chunks) = Blob!Meaning(job.cap)
<1>1. PICK cap \in Blob!Caps : cap = job.cap
  BY DEF JobInv
<1>2. PICK S, P : Fine(job, S, P)
  BY DEF JobInv
<1>3. PICK ps \in Seq(PartType) : ps = Pieces(cap)
  BY PieceFacts
<1>4. PICK cs \in Seq(Chunk) : cs = job.chunks
  BY DEF JobInv, JobType
<1>5. PICK m \in Nat : m = Len(ps)
  OBVIOUS
<1>6. PICK n \in Nat : n = Len(cs) /\ DOMAIN cs = 1 .. n
  OBVIOUS
<1>7. /\ Starts(S, n, cs) /\ Starts(P, m, ps) /\ S[n] = P[m]
      /\ \A i \in 1 .. n : Shown(cs, i, ps, S, P)
  BY <1>1, <1>2, <1>3, <1>4, <1>5, <1>6 DEF Fine, Matched
<1>8. PICK B : B = [i \in 1 .. n |-> Blob!BytesIn(cs[i])]
  OBVIOUS
<1>9. PICK C : C = [k \in 1 .. m |-> Piece(ps[k])]
  OBVIOUS
<1>10. \A k \in 1 .. m : C[k] = Piece(ps[k]) /\ C[k] \in Seq(Byte) /\ Len(C[k]) = ps[k].len
  <2>1. ASSUME NEW k \in 1 .. m PROVE Piece(ps[k]) \in Seq(Byte) /\ Len(Piece(ps[k])) = ps[k].len
    <3>1. ps[k] \in PartType
      BY <1>5
    <3> QED BY <3>1, PieceIs
  <2> QED BY <1>9, <2>1
<1>11. ASSUME NEW i \in 1 .. n
       PROVE  /\ B[i] \in Seq(Byte) /\ Len(B[i]) = cs[i].len
              /\ \E k \in 1 .. m : S[i - 1] = P[k - 1] /\ B[i] = C[k]
  <2>1. PICK k \in 1 .. m : S[i - 1] = P[k - 1] /\ Shows(cs[i], ps[k])
    BY <1>5, <1>7 DEF Shown
  <2>2. ps[k] \in PartType /\ cs[i] \in Chunk
    BY <1>5, <1>6
  <2>3. B[i] = C[k]
    BY <1>8, <1>10, <2>1, <2>2, ChunkIs
  <2>4. cs[i].len = ps[k].len
    BY <2>1 DEF Shows
  <2> QED BY <1>10, <2>1, <2>3, <2>4
<1>12. B \in Rows(n, Byte) /\ C \in Rows(m, Byte)
  BY <1>8, <1>9, <1>10, <1>11 DEF Rows
<1>13. PICK R : RowsJoined(R, n, Byte, B) /\ Blob!Read(cs) = R[n]
  <2>1. \A k \in 1 .. n : B[k] = Blob!BytesIn(cs[k])
    BY <1>8
  <2> QED BY <1>6, <1>12, <2>1, ReadIs
<1>14. PICK Q : RowsJoined(Q, m, Byte, C) /\ Blob!Meaning(cap) = Q[m]
  BY <1>3, <1>5, <1>10, <1>12, MeaningJoined
<1>15. RowSums(S, n, B) /\ RowSums(P, m, C)
  BY <1>7, <1>10, <1>11 DEF Starts, RowSums
<1>16. R[n] = Q[m]
  <2>1. RowsAmong(B, C, n, m, S, P)
    BY <1>11 DEF RowsAmong
  <2>2. RowsJoined(R, n, Byte, B) /\ RowsJoined(Q, m, Byte, C) /\ S[n] = P[m]
    BY <1>7, <1>13, <1>14
  <2> QED BY <1>12, <1>15, <2>1, <2>2, SameRows
<1> QED BY <1>1, <1>4, <1>13, <1>14, <1>16

(***************************************************************************)
(* The chunks that h_read_chunks answers with are, one after another, the  *)
(* bytes of the blob that was asked for: whatever it is composed of,       *)
(* however many readings go on at the same time, and whatever is written   *)
(* to the arrays meanwhile.                                                *)
(***************************************************************************)
THEOREM BlobsRead == ASSUME BlobsMade PROVE Spec => []ChunksExact
<1> DEFINE Inv == device = "blob" => BlobInv
<1>1. Init => Inv
  BY BlobInit DEF Init
<1>2. Inv /\ [Next]_vars => Inv'
  <2> SUFFICES ASSUME Inv, [Next]_vars, device' = "blob" PROVE BlobInv'
    OBVIOUS
  <2>1. CASE Next
    <3>1. device = "blob" /\ BlobInv /\ Blob!Next
      BY <2>1 DEF Next
    <3> QED BY <3>1, BlobNext
  <2>2. CASE UNCHANGED vars
    BY <2>2 DEF vars, BlobInv
  <2> QED BY <2>1, <2>2
<1>3. Inv => ChunksExact
  <2> SUFFICES ASSUME BlobInv PROVE Blob!ChunksExact
    BY DEF ChunksExact
  <2>1. \A j \in Jobs : JobInv(dev.jobs[j])
    BY DEF BlobInv
  <2>2. ArraysInv(dev.blobs)
    BY DEF BlobInv
  <2> QED BY <2>1, <2>2, JobExact DEF Blob!ChunksExact
<1> QED BY <1>1, <1>2, <1>3, PTL DEF Spec

=============================================================================
