------------------------ MODULE GarbageCollectorProofs ------------------------
(***************************************************************************)
(* The collector never frees a cell the program can reach, for every size  *)
(* of the heap, every stride and every number of fields and locals.        *)
(***************************************************************************)
EXTENDS GarbageCollector, FiniteSetTheorems, TLAPS

-----------------------------------------------------------------------------
(* Reachability *)

(* The base is reachable. *)
LEMMA ReachBase ==
  ASSUME NEW r, NEW B \in SUBSET Cell
  PROVE  B \subseteq ReachIn(r, B)
BY DEF ReachIn

(* A closed set that contains the base contains what is reachable. *)
LEMMA ReachLeast ==
  ASSUME NEW r, NEW B, NEW S \in SUBSET Cell,
         B \subseteq S, \A d \in S : r[d] \subseteq S
  PROVE  ReachIn(r, B) \subseteq S
BY DEF ReachIn

(* What is reachable is closed. *)
LEMMA ReachClosed ==
  ASSUME NEW r \in [Cell -> SUBSET Cell], NEW B,
         NEW c \in ReachIn(r, B)
  PROVE  r[c] \subseteq ReachIn(r, B)
<1> SUFFICES ASSUME NEW d \in r[c], NEW S \in SUBSET Cell,
                    B \subseteq S, \A e \in S : r[e] \subseteq S
             PROVE  d \in S
  BY DEF ReachIn
<1>1. c \in S
  BY DEF ReachIn
<1> QED BY <1>1

(* Overwriting one cell with pointers into T makes nothing outside T reachable. *)
LEMMA ReachUpdate ==
  ASSUME NEW r \in [Cell -> SUBSET Cell], NEW B, NEW c \in Cell,
         NEW q, NEW D, NEW T \in SUBSET Cell,
         ReachIn(r, B) \subseteq T, T \subseteq ReachIn(r, B) \cup {c},
         q[c] \subseteq T, \A d \in Cell \ {c} : q[d] = r[d],
         D \subseteq T
  PROVE  ReachIn(q, D) \subseteq T
<1>1. ASSUME NEW d \in T PROVE q[d] \subseteq T
  <2>1. CASE d = c
    BY <2>1
  <2>2. CASE d # c
    <3>1. d \in ReachIn(r, B)
      BY <2>2
    <3>2. r[d] \subseteq ReachIn(r, B)
      BY <3>1, ReachClosed
    <3> QED BY <3>2, <2>2
  <2> QED BY <2>1, <2>2
<1> QED BY <1>1, ReachLeast

-----------------------------------------------------------------------------
(* The deletion barrier *)

(***************************************************************************)
(* Marking c after scanning its contents leaves every cell that was to be  *)
(* visited marked, free, or still to be visited, whatever c then becomes.  *)
(***************************************************************************)
LEMMA BarrierKeepsPath ==
  ASSUME NEW m \in [Cell -> Color], NEW m2 \in [Cell -> Color],
         NEW curr \in Gen, NEW prev \in Gen, curr # prev,
         NEW r \in [Cell -> SUBSET Cell], NEW r2 \in [Cell -> SUBSET Cell],
         NEW c \in Cell, NEW R \in SUBSET Cell,
         m[c] # "Free" => r[c] \subseteq R,
         \A d \in Cell \ {c} : r2[d] = r[d],
         m2[c] \in {curr, "Free"},
         \A d \in Cell \ {c} :
            m2[d] = IF d \in R /\ m[d] = prev THEN "Scan" ELSE m[d],
         NEW x \in ToVisit(m, prev, r)
  PROVE  m2[x] \in {curr, "Free"} \/ x \in ToVisit(m2, prev, r2)
<1> SUFFICES ASSUME m2[x] \notin {curr, "Free"},
                    NEW S \in SUBSET Cell,
                    \A d \in Cell : m2[d] = "Scan" => d \in S,
                    \A d \in S : m2[d] \in {"Scan", prev} => r2[d] \subseteq S
             PROVE  x \in S
  BY DEF ToVisit
<1> DEFINE T == S \cup {d \in Cell : m2[d] \in {curr, "Free"}}
<1>0. \A d \in Cell : m[d] \in {curr, prev, "Free", "Scan"}
  BY DEF Color, Gen
<1>1. \A d \in Cell : m[d] = "Scan" => d \in T
  OBVIOUS
<1>2. ASSUME NEW d \in T, m[d] \in {"Scan", prev} PROVE r[d] \subseteq T
  <2>1. CASE d = c
    <3>1. r[c] \subseteq R
      BY <1>2, <2>1 DEF Gen
    <3> SUFFICES ASSUME NEW e \in r[c] PROVE e \in T
      BY <2>1
    <3>2. e \in R /\ e \in Cell
      BY <3>1
    <3>3. CASE e = c
      BY <3>3
    <3>4. CASE e # c
      BY <3>2, <3>4, <1>0
    <3> QED BY <3>3, <3>4
  <2>2. CASE d # c
    <3>1. m2[d] \in {"Scan", prev}
      BY <1>2, <2>2
    <3>2. m2[d] \notin {curr, "Free"}
      BY <3>1 DEF Gen
    <3>3. d \in S
      BY <3>2
    <3> QED BY <3>1, <3>3, <2>2
  <2> QED BY <2>1, <2>2
<1>3. x \in T
  <2> HIDE DEF T
  <2>1. T \in SUBSET Cell
    BY DEF T
  <2> QED BY <1>1, <1>2, <2>1 DEF ToVisit
<1> QED BY <1>3
-----------------------------------------------------------------------------
(* The steps that mark a cell *)

(* No cell but c that is still to be scanned is below from. *)
ScanAbove(c, from) ==
  gc_phase = "Mark" => \A d \in Cell \ {c} : gc_marks[d] = "Scan" => from <= d

(* What Shade does to the colours and to the scan pointer. *)
LEMMA ShadeFacts ==
  ASSUME TypeOK, FreeListSound, ScanAhead,
         NEW c \in Cell, NEW R \in SUBSET Cell,
         NEW from \in RamBase .. ram_top, NEW color \in {gc_curr, "Free"},
         Shade(c, R, from, color),
         ScanAbove(c, from)
  PROVE  /\ gc_marks' \in [Cell -> Color]
         /\ gc_addr' \in RamBase .. ram_top
         /\ gc_marks'[c] = color
         /\ \A d \in Cell \ {c} :
              gc_marks'[d] = IF d \in R /\ gc_marks[d] = gc_prev /\ gc_phase = "Mark"
                             THEN "Scan" ELSE gc_marks[d]
         /\ \A d \in Cell : gc_marks'[d] = "Scan" => gc_phase = "Mark" /\ gc_addr' <= d
         /\ gc_phase # "Mark" => gc_addr' = from
         /\ gc_addr' <= from
<1> USE GcAssumption
<1> DEFINE grey == {d \in R \ {c} : gc_phase = "Mark" /\ gc_marks[d] = gc_prev}
           low == {from} \cup grey
<1>1. /\ gc_marks' = [d \in Cell |-> IF d = c THEN color
                                     ELSE IF d \in grey THEN "Scan" ELSE gc_marks[d]]
      /\ gc_addr' \in low
      /\ \A d \in low : gc_addr' <= d
  BY DEF Shade
<1>2. gc_marks' \in [Cell -> Color]
  BY <1>1 DEF TypeOK, Color, Gen
<1>3. gc_marks'[c] = color
  BY <1>1
<1>4. \A d \in Cell \ {c} :
        gc_marks'[d] = IF d \in R /\ gc_marks[d] = gc_prev /\ gc_phase = "Mark"
                       THEN "Scan" ELSE gc_marks[d]
  BY <1>1
<1>5. gc_phase # "Mark" => gc_addr' = from
  BY <1>1
<1>6. gc_addr' \in RamBase .. ram_top /\ gc_addr' <= from
  <2>1. \A d \in grey : d \in RamBase .. ram_top
    BY DEF FreeListSound, TypeOK, Gen, Cell
  <2> QED BY <1>1, <2>1
<1>7. ASSUME NEW d \in Cell, gc_marks'[d] = "Scan"
      PROVE  gc_phase = "Mark" /\ gc_addr' <= d
  <2>1. d # c
    BY <1>3, <1>7 DEF TypeOK, Gen
  <2>2. CASE d \in grey
    BY <2>2, <1>1
  <2>3. CASE d \notin grey
    <3>1. gc_marks[d] = "Scan"
      BY <1>1, <1>7, <2>1, <2>3
    <3>2. gc_phase = "Mark" /\ from <= d
      BY <3>1, <2>1 DEF ScanAhead, ScanAbove
    <3>3. from \in Int /\ d \in Int /\ gc_addr' \in Int
      BY <1>6 DEF Cell, TypeOK
    <3> QED BY <3>2, <3>3, <1>6
  <2> QED BY <2>2, <2>3
<1> QED BY <1>2, <1>3, <1>4, <1>5, <1>6, <1>7

(***************************************************************************)
(* Marking c and overwriting it keeps every live cell protected, as long   *)
(* as no cell but c becomes reachable, and c only if it ends up marked.    *)
(***************************************************************************)
LEMMA ShadeKeepsLive ==
  ASSUME IInv,
         NEW c \in Cell, NEW R \in SUBSET Cell,
         NEW from \in RamBase .. ram_top, NEW color \in {gc_curr, "Free"},
         Shade(c, R, from, color),
         ScanAbove(c, from),
         gc_marks[c] # "Free" => ref[c] \subseteq R,
         ref' \in [Cell -> SUBSET Cell],
         \A d \in Cell \ {c} : ref'[d] = ref[d],
         UNCHANGED <<gc_phase, gc_curr, gc_prev>>,
         Reachable' \subseteq Reachable \cup {c},
         color = "Free" => c \notin Reachable'
  PROVE  LiveNotFree' /\ LiveProtected'
<1>1. /\ gc_marks' \in [Cell -> Color]
      /\ gc_marks'[c] = color
      /\ \A d \in Cell \ {c} :
            gc_marks'[d] = IF d \in R /\ gc_marks[d] = gc_prev /\ gc_phase = "Mark"
                           THEN "Scan" ELSE gc_marks[d]
  BY DEF Shade, IInv, TypeOK, Color, Gen
<1>2. /\ gc_curr \in Gen /\ gc_prev \in Gen /\ gc_curr # gc_prev
      /\ gc_marks \in [Cell -> Color] /\ ref \in [Cell -> SUBSET Cell]
  BY DEF IInv, TypeOK
<1>3. Reachable' \subseteq Cell
  BY DEF Reachable, ReachIn
<1>4. ASSUME NEW x \in Reachable' PROVE gc_marks'[x] # "Free"
  <2>1. CASE x = c
    BY <2>1, <1>1, <1>2, <1>4 DEF Gen
  <2>2. CASE x # c
    <3>1. gc_marks[x] # "Free" /\ x \in Cell
      BY <1>3, <2>2 DEF IInv, LiveNotFree
    <3> QED BY <1>1, <2>2, <3>1
  <2> QED BY <2>1, <2>2
<1>5. ASSUME NEW x \in Reachable'
      PROVE  gc_marks'[x] = gc_curr \/ (gc_phase = "Mark" /\ x \in ToVisit(gc_marks', gc_prev, ref'))
  <2>1. CASE x = c
    BY <2>1, <1>1, <1>4
  <2>2. CASE x # c
    <3>1. x \in Reachable /\ x \in Cell
      BY <1>3, <2>2
    <3>2. CASE gc_marks[x] = gc_curr
      BY <3>2, <3>1, <2>2, <1>1, <1>2
    <3>3. CASE gc_phase = "Mark" /\ x \in ToVisit(gc_marks, gc_prev, ref)
      <4>1. \A d \in Cell \ {c} :
              gc_marks'[d] = IF d \in R /\ gc_marks[d] = gc_prev THEN "Scan" ELSE gc_marks[d]
        BY <1>1, <3>3
      <4>2. gc_marks'[x] \in {gc_curr, "Free"} \/ x \in ToVisit(gc_marks', gc_prev, ref')
        BY <4>1, <1>1, <1>2, <3>3, BarrierKeepsPath
      <4> QED BY <4>2, <1>4, <3>3
    <3> QED BY <3>1, <3>2, <3>3 DEF IInv, LiveProtected
  <2> QED BY <2>1, <2>2
<1> QED BY <1>4, <1>5 DEF LiveNotFree, LiveProtected

-----------------------------------------------------------------------------
(* The steps of the mutator and of the run-loop *)

(* What can be reached from reachable cells can be reached. *)
LEMMA ReachAgain ==
  ASSUME NEW r \in [Cell -> SUBSET Cell], NEW B, NEW D \in SUBSET ReachIn(r, B)
  PROVE  ReachIn(r, D) \subseteq ReachIn(r, B)
<1>1. ReachIn(r, B) \in SUBSET Cell
  BY DEF ReachIn
<1>2. \A d \in ReachIn(r, B) : r[d] \subseteq ReachIn(r, B)
  BY ReachClosed
<1> QED BY <1>1, <1>2, ReachLeast

(***************************************************************************)
(* A step that touches neither the heap nor the collector keeps IInv when  *)
(* its roots are taken from what is reachable.                             *)
(***************************************************************************)
LEMMA RootStep ==
  ASSUME IInv,
         UNCHANGED <<memVars, ref, gcVars>>,
         Roots' \subseteq Reachable,
         mode' \in {"burst", "gc", "collect", "idle", "suspended"},
         count' \in 0 .. GcStride - 1,
         Quiescent'
  PROVE  IInv'
<1>1. TypeOK'
  <2>1. Reachable \subseteq Cell
    BY DEF Reachable, ReachIn
  <2> QED BY <2>1 DEF IInv, TypeOK, Roots, memVars, gcVars
<1>2. FreeListSound' /\ ScanAhead' /\ Generations' /\ FreeIsEmpty'
  BY DEF IInv, FreeListSound, ScanAhead, Generations, FreeIsEmpty, memVars, gcVars
<1>3. Reachable' \subseteq Reachable
  BY ReachAgain DEF Reachable, IInv, TypeOK
<1>4. LiveNotFree' /\ LiveProtected'
  BY <1>3 DEF IInv, LiveNotFree, LiveProtected, gcVars
<1> QED BY <1>1, <1>2, <1>4 DEF IInv

(* The roots are reachable. *)
LEMMA RootsReachable ==
  ASSUME TypeOK
  PROVE  Roots \subseteq Reachable
BY ReachBase DEF TypeOK, Roots, Reachable

(* Loads and root updates, the end of a burst and the host's calls keep IInv. *)
LEMMA ControlStep ==
  ASSUME IInv, "suspended" \notin HostGc,
         \/ \E c \in Cell : Load(c) \/ Suspend(c)
         \/ \E Q \in SUBSET Cell : SetQueue(Q) \/ SetStubs(Q)
         \/ Control
  PROVE  IInv'
<1> USE GcAssumption
<1>0. TypeOK /\ Roots \subseteq Reachable /\ 0 \in 0 .. GcStride - 1
  BY RootsReachable DEF IInv
<1>1. UNCHANGED <<memVars, ref, gcVars>>
  BY DEF Load, Suspend, SetQueue, SetStubs, Control, EndBurst, GoIdle, HostCall,
         Resume, HostGcRun, mutVars
<1>2. Roots' \subseteq Reachable
  BY <1>0 DEF Roots, Load, Suspend, SetQueue, SetStubs, Control, EndBurst, GoIdle,
              HostCall, Resume, HostGcRun, mutVars
<1>3. mode' \in {"burst", "gc", "collect", "idle", "suspended"}
  BY <1>0 DEF TypeOK, Load, Suspend, SetQueue, SetStubs, Control, EndBurst, GoIdle,
              HostCall, Resume, HostGcRun
<1>4. count' \in 0 .. GcStride - 1
  BY <1>0 DEF TypeOK, Load, Suspend, SetQueue, SetStubs, Control, EndBurst, GoIdle,
              HostCall, Resume, HostGcRun
<1>5. Quiescent'
  BY DEF IInv, Quiescent, Load, Suspend, SetQueue, SetStubs, Control, EndBurst,
         GoIdle, HostCall, Resume, HostGcRun, mutVars
<1> QED BY <1>1, <1>2, <1>3, <1>4, <1>5, RootStep

-----------------------------------------------------------------------------
(* The steps that reserve, overwrite and release a cell *)

(***************************************************************************)
(* What a step that marks c keeps besides the protection of the live cells *)
(* (see ShadeKeepsLive); in a sweep the scan pointer stays above the cells *)
(* that are still to be swept.                                             *)
(***************************************************************************)
LEMMA ShadeKeepsColors ==
  ASSUME IInv,
         NEW c \in Cell, NEW R \in SUBSET Cell,
         NEW from \in RamBase .. ram_top, NEW color \in {gc_curr, "Free"},
         Shade(c, R, from, color),
         ScanAbove(c, from),
         gc_phase = "Sweep" => \A d \in Cell \ {c} : d < gc_addr => d < from,
         ref' \in [Cell -> SUBSET Cell],
         \A d \in Cell \ {c} : ref'[d] = ref[d],
         color = "Free" => ref'[c] = {},
         UNCHANGED <<gc_phase, gc_curr, gc_prev>>
  PROVE  /\ gc_marks' \in [Cell -> Color] /\ gc_addr' \in RamBase .. ram_top
         /\ ScanAhead' /\ Generations' /\ FreeIsEmpty'
         /\ gc_marks'[c] = color
         /\ \A d \in Cell \ {c} : gc_marks'[d] = "Free" <=> gc_marks[d] = "Free"
<1>1. TypeOK /\ FreeListSound /\ ScanAhead /\ Generations /\ FreeIsEmpty
  BY DEF IInv
<1>2. /\ gc_marks' \in [Cell -> Color]
      /\ gc_addr' \in RamBase .. ram_top
      /\ gc_marks'[c] = color
      /\ \A d \in Cell \ {c} :
           gc_marks'[d] = IF d \in R /\ gc_marks[d] = gc_prev /\ gc_phase = "Mark"
                          THEN "Scan" ELSE gc_marks[d]
      /\ \A d \in Cell : gc_marks'[d] = "Scan" => gc_phase = "Mark" /\ gc_addr' <= d
      /\ gc_phase # "Mark" => gc_addr' = from
  BY <1>1, ShadeFacts
<1>3. gc_curr \in Gen /\ gc_prev \in Gen /\ gc_curr # gc_prev
  BY <1>1 DEF TypeOK
<1>4. ScanAhead'
  BY <1>2 DEF ScanAhead
<1>5. Generations'
  <2> SUFFICES ASSUME NEW d \in Cell, gc_marks'[d] = gc_prev, gc_phase # "Mark"
               PROVE  gc_phase = "Sweep" /\ d < gc_addr'
    BY DEF Generations
  <2>1. d # c
    BY <1>2, <1>3 DEF Gen
  <2>2. gc_marks[d] = gc_prev
    BY <1>2, <2>1
  <2>3. gc_phase = "Sweep" /\ d < gc_addr
    BY <1>1, <2>2 DEF Generations
  <2> QED BY <1>2, <2>1, <2>3
<1>6. \A d \in Cell \ {c} : gc_marks'[d] = "Free" <=> gc_marks[d] = "Free"
  BY <1>2, <1>3 DEF Gen
<1>7. FreeIsEmpty'
  BY <1>1, <1>2, <1>3, <1>6 DEF FreeIsEmpty, Gen
<1> QED BY <1>2, <1>4, <1>5, <1>6, <1>7

(* The free-list is finite. *)
LEMMA FreeFinite ==
  ASSUME TypeOK
  PROVE  IsFiniteSet(free) /\ Cardinality(free) \in Nat
<1>1. IsFiniteSet(RamBase .. ram_top - 1)
  BY GcAssumption, FS_Interval DEF TypeOK
<1>2. IsFiniteSet(free)
  BY <1>1, FS_Subset DEF TypeOK
<1> QED BY <1>2, FS_CardinalityType

(* Overwriting a cell through ram_mut keeps IInv. *)
LEMMA StoreStep ==
  ASSUME IInv, NEW c \in Cell, NEW R \in SUBSET Cell, Store(c, R)
  PROVE  IInv'
<1> USE GcAssumption
<1>1. /\ TypeOK /\ FreeListSound /\ ScanAhead /\ LiveNotFree /\ Quiescent
      /\ c \in Reachable /\ held \subseteq Reachable /\ Roots \subseteq Reachable
  BY RootsReachable DEF IInv, Store, Roots
<1>2. /\ Shade(c, ref[c], gc_addr, gc_curr)
      /\ ref' = [ref EXCEPT ![c] = R]
      /\ R \subseteq held \cup ref[c]
      /\ UNCHANGED <<memVars, stubs, queue, waiting, held, mode, count,
                     gc_phase, gc_curr, gc_prev>>
  BY DEF Store
<1>3. /\ gc_curr \in Gen /\ gc_prev \in Gen /\ gc_addr \in RamBase .. ram_top
      /\ ref \in [Cell -> SUBSET Cell] /\ ref[c] \in SUBSET Cell
      /\ ref' \in [Cell -> SUBSET Cell]
      /\ \A d \in Cell \ {c} : ref'[d] = ref[d]
      /\ gc_curr # "Free"
      /\ ScanAbove(c, gc_addr)
  BY <1>1, <1>2 DEF TypeOK, Gen, ScanAhead, ScanAbove
<1>4. Reachable' \subseteq Reachable
  <2>1. R \subseteq Reachable
    BY <1>1, <1>2, <1>3, ReachClosed DEF Reachable
  <2>2. Roots' = Roots /\ Roots \in SUBSET Cell /\ Reachable \in SUBSET Cell
    BY <1>1, <1>2 DEF Roots, TypeOK, Reachable, ReachIn
  <2>3. ref'[c] = R
    BY <1>2, <1>3
  <2>4. ReachIn(ref', Roots') \subseteq Reachable
    <3>1. ReachIn(ref, Roots) \subseteq Reachable /\ Reachable \subseteq ReachIn(ref, Roots) \cup {c}
      BY DEF Reachable
    <3> QED BY <1>1, <1>3, <2>1, <2>2, <2>3, <3>1, ReachUpdate
  <2> QED BY <2>4 DEF Reachable
<1>5. LiveNotFree' /\ LiveProtected'
  BY <1>2, <1>3, <1>4, ShadeKeepsLive
<1>6. /\ gc_marks' \in [Cell -> Color] /\ gc_addr' \in RamBase .. ram_top
      /\ ScanAhead' /\ Generations' /\ FreeIsEmpty'
      /\ gc_marks'[c] = gc_curr
      /\ \A d \in Cell \ {c} : gc_marks'[d] = "Free" <=> gc_marks[d] = "Free"
  BY <1>2, <1>3, ShadeKeepsColors
<1>7. FreeListSound'
  <2>1. gc_marks[c] # "Free"
    BY <1>1 DEF LiveNotFree
  <2> QED BY <1>1, <1>2, <1>3, <1>6, <2>1 DEF FreeListSound, memVars
<1>8. TypeOK'
  BY <1>1, <1>2, <1>3, <1>6 DEF TypeOK, memVars
<1>9. Quiescent'
  BY <1>1, <1>2 DEF Quiescent
<1> QED BY <1>5, <1>6, <1>7, <1>8, <1>9 DEF IInv

(* Reserving a cell, from the free-list or from the top, keeps IInv. *)
LEMMA ReserveStep ==
  ASSUME IInv, NEW c \in Cell, NEW R \in SUBSET Cell, Reserve(c, R)
  PROVE  IInv'
<1> USE GcAssumption
<1>1. /\ TypeOK /\ FreeListSound /\ ScanAhead /\ LiveNotFree /\ Quiescent /\ FreeIsEmpty
      /\ held \subseteq Reachable /\ Roots \subseteq Reachable
  BY RootsReachable DEF IInv, Roots
<1>2. /\ Shade(c, R, gc_addr, gc_curr)
      /\ ref' = [ref EXCEPT ![c] = R]
      /\ R \subseteq held
      /\ held' = held \cup {c}
      /\ mode = "burst"
      /\ UNCHANGED <<stubs, queue, waiting, mode, count, gc_phase, gc_curr, gc_prev>>
  BY DEF Reserve
<1>3. /\ gc_curr \in Gen /\ gc_prev \in Gen /\ gc_addr \in RamBase .. ram_top
      /\ ref \in [Cell -> SUBSET Cell]
      /\ ref' \in [Cell -> SUBSET Cell]
      /\ \A d \in Cell \ {c} : ref'[d] = ref[d]
      /\ gc_curr # "Free"
      /\ ScanAbove(c, gc_addr)
  BY <1>1, <1>2 DEF TypeOK, Gen, ScanAhead, ScanAbove
<1>4. gc_marks[c] = "Free" /\ c \notin Reachable
  <2>1. c \in free \/ c >= ram_top
    BY DEF Reserve, Cell
  <2> QED BY <2>1, <1>1 DEF FreeListSound, LiveNotFree
<1>5. Reachable' \subseteq Reachable \cup {c}
  <2>1. Roots' \subseteq Reachable \cup {c} /\ Roots' \in SUBSET Cell
    BY <1>1, <1>2 DEF Roots, TypeOK
  <2>2. Reachable \cup {c} \in SUBSET Cell
    BY DEF Reachable, ReachIn
  <2>3. R \subseteq Reachable \cup {c}
    BY <1>1, <1>2
  <2>4. ref'[c] = R
    BY <1>2, <1>3
  <2>5. ReachIn(ref', Roots') \subseteq Reachable \cup {c}
    <3> DEFINE T == Reachable \cup {c}
    <3>1. ReachIn(ref, Roots) \subseteq T /\ T \subseteq ReachIn(ref, Roots) \cup {c}
      BY DEF Reachable
    <3>2. T \in SUBSET Cell /\ ref'[c] \subseteq T /\ Roots' \subseteq T
      BY <2>1, <2>2, <2>3, <2>4
    <3> HIDE DEF T
    <3>3. ReachIn(ref', Roots') \subseteq T
      BY <1>3, <3>1, <3>2, ReachUpdate
    <3> QED BY <3>3 DEF T
  <2> QED BY <2>5 DEF Reachable
<1>6. LiveNotFree' /\ LiveProtected'
  BY <1>2, <1>3, <1>4, <1>5, ShadeKeepsLive
<1>7. /\ gc_marks' \in [Cell -> Color] /\ gc_addr' \in RamBase .. ram_top
      /\ ScanAhead' /\ Generations' /\ FreeIsEmpty'
      /\ gc_marks'[c] = gc_curr
      /\ \A d \in Cell \ {c} : gc_marks'[d] = "Free" <=> gc_marks[d] = "Free"
  BY <1>2, <1>3, ShadeKeepsColors
<1>8. /\ ram_top' \in RamBase .. RamMax /\ ram_top <= ram_top'
      /\ free' \subseteq RamBase .. ram_top' - 1
      /\ ram_free' \in Nat
      /\ FreeListSound'
  <2>1. CASE c \in free /\ free' = free \ {c} /\ ram_free' = ram_free - 1 /\ ram_top' = ram_top
    <3>1. Cardinality(free') = Cardinality(free) - 1 /\ Cardinality(free') \in Nat
      <4>1. IsFiniteSet(free) /\ Cardinality(free) \in Nat
        BY <1>1, FreeFinite
      <4>2. Cardinality(free \ {c}) = Cardinality(free) - 1 /\ IsFiniteSet(free \ {c})
        BY <4>1, <2>1, FS_RemoveElement
      <4> QED BY <4>2, <2>1, FS_CardinalityType
    <3>2. ram_free' = Cardinality(free') /\ ram_free' \in Nat
      BY <3>1, <2>1, <1>1 DEF FreeListSound
    <3>3. \A d \in Cell : gc_marks'[d] = "Free" <=> (d \in free' \/ d >= ram_top')
      BY <1>1, <1>3, <1>7, <2>1 DEF FreeListSound, TypeOK, Cell
    <3> QED BY <3>2, <3>3, <2>1, <1>1 DEF FreeListSound, TypeOK
  <2>2. CASE /\ free = {} /\ c = ram_top /\ c < RamMax /\ ram_top' = c + 1
             /\ UNCHANGED <<free, ram_free>>
    <3>1. \A d \in Cell : gc_marks'[d] = "Free" <=> (d \in free' \/ d >= ram_top')
      BY <1>1, <1>3, <1>7, <2>2 DEF FreeListSound, TypeOK, Cell
    <3> QED BY <3>1, <2>2, <1>1 DEF FreeListSound, TypeOK
  <2> QED BY <2>1, <2>2 DEF Reserve
<1>9. TypeOK'
  <2>1. gc_addr' \in RamBase .. ram_top'
    BY <1>1, <1>7, <1>8 DEF TypeOK
  <2>2. held' \subseteq Cell
    BY <1>1, <1>2 DEF TypeOK
  <2> QED BY <1>1, <1>2, <1>3, <1>7, <1>8, <2>1, <2>2 DEF TypeOK
<1>10. Quiescent'
  BY <1>1, <1>2 DEF Quiescent
<1> QED BY <1>6, <1>7, <1>8, <1>9, <1>10 DEF IInv

(***************************************************************************)
(* Releasing a cell that is not free and that nothing still in use leads   *)
(* to keeps IInv, both for free() and for the sweep.                       *)
(***************************************************************************)
LEMMA ReleaseStep ==
  ASSUME IInv, NEW c \in Cell, NEW from \in RamBase .. ram_top,
         gc_marks[c] # "Free",
         Release(c, from),
         ScanAbove(c, from),
         gc_phase = "Sweep" => \A d \in Cell \ {c} : d < gc_addr => d < from,
         stubs' \subseteq Cell, queue' \subseteq Cell,
         waiting' \subseteq Cell, held' \subseteq Cell,
         Roots' \subseteq Reachable,
         c \notin ReachIn(ref, Roots'),
         mode' \in {"burst", "gc", "collect", "idle", "suspended"},
         count' \in 0 .. GcStride - 1,
         Quiescent',
         UNCHANGED <<ram_top, gc_phase, gc_curr, gc_prev>>
  PROVE  IInv'
<1> USE GcAssumption
<1>1. TypeOK /\ FreeListSound
  BY DEF IInv
<1>2. /\ Shade(c, ref[c], from, "Free")
      /\ ref' = [ref EXCEPT ![c] = {}]
      /\ free' = free \cup {c}
      /\ ram_free' = ram_free + 1
  BY DEF Release
<1>3. /\ gc_curr \in Gen /\ gc_prev \in Gen
      /\ ref \in [Cell -> SUBSET Cell] /\ ref[c] \in SUBSET Cell
      /\ ref' \in [Cell -> SUBSET Cell]
      /\ ref'[c] = {}
      /\ \A d \in Cell \ {c} : ref'[d] = ref[d]
  BY <1>1, <1>2 DEF TypeOK
<1>4. Reachable' \subseteq Reachable /\ c \notin Reachable'
  <2> DEFINE T == ReachIn(ref, Roots')
  <2>1. T \in SUBSET Cell /\ Roots' \in SUBSET Cell
    BY DEF ReachIn, Roots
  <2>2. T \subseteq Reachable
    BY <1>3, ReachAgain DEF Reachable
  <2>3. Roots' \subseteq T
    BY <2>1, ReachBase
  <2>4. Reachable' \subseteq T
    <3> HIDE DEF T
    <3>1. ReachIn(ref, Roots') \subseteq T /\ T \subseteq ReachIn(ref, Roots') \cup {c}
      BY DEF T
    <3>2. ref'[c] \subseteq T
      BY <1>3
    <3>3. ReachIn(ref', Roots') \subseteq T
      BY <1>3, <2>1, <2>3, <3>1, <3>2, ReachUpdate
    <3> QED BY <3>3 DEF Reachable
  <2> QED BY <2>2, <2>4
<1>5. LiveNotFree' /\ LiveProtected'
  BY <1>2, <1>3, <1>4, ShadeKeepsLive
<1>6. /\ gc_marks' \in [Cell -> Color] /\ gc_addr' \in RamBase .. ram_top
      /\ ScanAhead' /\ Generations' /\ FreeIsEmpty'
      /\ gc_marks'[c] = "Free"
      /\ \A d \in Cell \ {c} : gc_marks'[d] = "Free" <=> gc_marks[d] = "Free"
  BY <1>2, <1>3, ShadeKeepsColors
<1>7. c \notin free /\ c < ram_top
  BY <1>1 DEF FreeListSound, TypeOK, Cell
<1>8. ram_free' = Cardinality(free') /\ ram_free' \in Nat
  <2>1. IsFiniteSet(free)
    BY <1>1, FreeFinite
  <2>2. Cardinality(free \cup {c}) = Cardinality(free) + 1
    BY <2>1, <1>7, FS_AddElement
  <2> QED BY <2>2, <1>1, <1>2 DEF FreeListSound, TypeOK
<1>9. FreeListSound'
  BY <1>1, <1>2, <1>6, <1>7, <1>8 DEF FreeListSound
<1>10. TypeOK'
  BY <1>1, <1>2, <1>3, <1>6, <1>7, <1>8 DEF TypeOK, Cell
<1> QED BY <1>5, <1>6, <1>9, <1>10 DEF IInv

(* Freeing a cell its owner has unlinked keeps IInv. *)
LEMMA FreeStep ==
  ASSUME IInv, NEW c \in Cell, Free(c)
  PROVE  IInv'
<1>1. /\ TypeOK /\ ScanAhead /\ LiveNotFree /\ Quiescent
      /\ Roots \subseteq Reachable /\ c \in Reachable
  BY RootsReachable DEF IInv, Free, Roots
<1>2. /\ Release(c, gc_addr)
      /\ held' = held \ {c}
      /\ UNCHANGED <<ram_top, stubs, queue, waiting, mode, count,
                     gc_phase, gc_curr, gc_prev>>
      /\ c \notin ReachIn(ref, stubs \cup queue \cup waiting \cup (held \ {c}))
  BY DEF Free
<1>3. gc_marks[c] # "Free" /\ gc_addr \in RamBase .. ram_top
  BY <1>1 DEF LiveNotFree, TypeOK
<1>4. Roots' \subseteq Reachable /\ c \notin ReachIn(ref, Roots')
  BY <1>1, <1>2 DEF Roots
<1>5. ScanAbove(c, gc_addr)
  BY <1>1 DEF ScanAhead, ScanAbove
<1>6. /\ stubs' \subseteq Cell /\ queue' \subseteq Cell
      /\ waiting' \subseteq Cell /\ held' \subseteq Cell
      /\ mode' \in {"burst", "gc", "collect", "idle", "suspended"}
      /\ count' \in 0 .. GcStride - 1
      /\ Quiescent'
  BY <1>1, <1>2 DEF TypeOK, Quiescent
<1> QED BY <1>2, <1>3, <1>4, <1>5, <1>6, ReleaseStep

-----------------------------------------------------------------------------
(* The steps of the collector *)

(* What every step of the collector does besides its own work. *)
LEMMA GcFrame ==
  ASSUME IInv, "suspended" \notin HostGc, GcStep
  PROVE  /\ waiting = {} /\ held = {}
         /\ UNCHANGED <<stubs, queue, waiting, held>>
         /\ mode' \in {"burst", "gc", "collect", "idle", "suspended"}
         /\ count' \in 0 .. GcStride - 1
         /\ Quiescent'
BY GcAssumption DEF IInv, TypeOK, Quiescent, GcStep, Increment

(* A step that leaves the heap alone keeps IInv if it keeps the colours sound. *)
LEMMA ColorStep ==
  ASSUME IInv, "suspended" \notin HostGc, GcStep,
         UNCHANGED <<memVars, ref>>,
         gc_marks' \in [Cell -> Color], gc_addr' \in RamBase .. ram_top,
         gc_phase' \in Phase,
         gc_curr' \in Gen, gc_prev' \in Gen, gc_curr' # gc_prev',
         \A c \in Cell : gc_marks'[c] = "Free" <=> gc_marks[c] = "Free",
         ScanAhead', Generations', LiveProtected'
  PROVE  IInv'
<1>1. /\ waiting = {} /\ held = {}
      /\ UNCHANGED <<stubs, queue, waiting, held>>
      /\ mode' \in {"burst", "gc", "collect", "idle", "suspended"}
      /\ count' \in 0 .. GcStride - 1
      /\ Quiescent'
  BY GcFrame
<1>2. TypeOK'
  BY <1>1 DEF IInv, TypeOK, memVars
<1>3. FreeListSound' /\ FreeIsEmpty'
  BY DEF IInv, FreeListSound, FreeIsEmpty, memVars
<1>4. Reachable' = Reachable /\ Reachable \subseteq Cell
  BY <1>1 DEF Reachable, Roots, ReachIn
<1>5. LiveNotFree'
  BY <1>4 DEF IInv, LiveNotFree
<1> QED BY <1>1, <1>2, <1>3, <1>5 DEF IInv

(* Outside marking nothing is to be scanned, and live cells are current. *)
LEMMA OutsideMark ==
  ASSUME IInv, gc_phase # "Mark"
  PROVE  /\ \A c \in Cell : gc_marks[c] # "Scan"
         /\ \A c \in Reachable : gc_marks[c] = gc_curr
BY DEF IInv, ScanAhead, LiveProtected

(* The snapshot: everything reachable is reached from the scanned roots. *)
LEMMA PrepStep ==
  ASSUME IInv, "suspended" \notin HostGc, GcStep, Prep
  PROVE  IInv'
<1> USE GcAssumption
<1>1. waiting = {} /\ held = {} /\ UNCHANGED <<stubs, queue, waiting, held>>
  BY GcFrame
<1>2. /\ gc_phase = "Prep" /\ gc_phase' = "Mark"
      /\ gc_curr' = gc_prev /\ gc_prev' = gc_curr
      /\ gc_addr' = RamBase
      /\ gc_marks' = [c \in Cell |-> IF c \in ScannedRoots /\ gc_marks[c] = gc_curr
                                     THEN "Scan" ELSE gc_marks[c]]
      /\ UNCHANGED <<memVars, ref>>
  BY DEF Prep
<1>3. /\ TypeOK /\ FreeIsEmpty /\ LiveNotFree
      /\ \A c \in Cell : gc_marks[c] \in {gc_curr, "Free"}
  <2>1. \A c \in Cell : gc_marks[c] # "Scan" /\ gc_marks[c] # gc_prev
    BY <1>2, OutsideMark DEF IInv, Generations
  <2> QED BY <2>1 DEF IInv, TypeOK, Color, Gen
<1>4. \A c \in Cell : gc_marks'[c] \in {gc_curr, "Free", "Scan"}
                      /\ (gc_marks'[c] = "Free" <=> gc_marks[c] = "Free")
  BY <1>2, <1>3 DEF TypeOK, Gen
<1>5. gc_marks' \in [Cell -> Color] /\ gc_addr' \in RamBase .. ram_top /\ gc_phase' \in Phase
      /\ gc_curr' \in Gen /\ gc_prev' \in Gen /\ gc_curr' # gc_prev'
  BY <1>2, <1>3 DEF TypeOK, Color, Gen, Phase
<1>6. ScanAhead' /\ Generations'
  BY <1>2 DEF ScanAhead, Generations, Cell
<1>7. LiveProtected'
  <2> SUFFICES ASSUME NEW x \in Reachable, NEW S \in SUBSET Cell,
                      \A d \in Cell : gc_marks'[d] = "Scan" => d \in S,
                      \A d \in S : gc_marks'[d] \in {"Scan", gc_curr} => ref[d] \subseteq S
               PROVE  x \in S
    <3>1. Reachable' = Reachable /\ Reachable \subseteq Cell
      BY <1>1, <1>2 DEF Reachable, Roots, ReachIn
    <3> QED BY <3>1, <1>2 DEF LiveProtected, ToVisit
  <2> DEFINE T == S \cup {d \in Cell : gc_marks[d] = "Free"}
  <2>1. Roots \subseteq T
    BY <1>1, <1>2, <1>3, RootsReachable DEF Roots, ScannedRoots, LiveNotFree, TypeOK
  <2>2. \A d \in T : ref[d] \subseteq T
    BY <1>3, <1>4 DEF FreeIsEmpty
  <2>3. T \in SUBSET Cell
    OBVIOUS
  <2>4. Reachable \subseteq T
    <3> HIDE DEF T
    <3> QED BY <2>1, <2>2, <2>3, ReachLeast DEF Reachable
  <2> QED BY <2>4, <1>3 DEF LiveNotFree
<1> QED BY <1>2, <1>4, <1>5, <1>6, <1>7, ColorStep

(* Scanning a cell, or passing one that is not to be scanned. *)
LEMMA MarkStep ==
  ASSUME IInv, "suspended" \notin HostGc, GcStep, MarkCell
  PROVE  IInv'
<1> USE GcAssumption
<1> DEFINE c == gc_addr
<1>1. /\ TypeOK /\ FreeListSound /\ ScanAhead /\ Generations
      /\ UNCHANGED <<stubs, queue, waiting, held>>
  BY GcFrame DEF IInv
<1>2. /\ gc_phase = "Mark" /\ c < ram_top
      /\ UNCHANGED <<memVars, ref, gc_phase, gc_curr, gc_prev>>
      /\ c \in Cell /\ c + 1 \in RamBase .. ram_top
      /\ gc_curr \in Gen /\ gc_prev \in Gen /\ gc_curr # gc_prev
      /\ ref \in [Cell -> SUBSET Cell] /\ ref[c] \in SUBSET Cell
  BY <1>1 DEF MarkCell, TypeOK, Cell
<1>3. Reachable' = Reachable /\ Reachable \subseteq Cell
  BY <1>1, <1>2 DEF Reachable, Roots, ReachIn
<1>4. CASE gc_marks[c] = "Scan" /\ Shade(c, ref[c], c + 1, gc_curr)
  <2>1. ScanAbove(c, c + 1)
    BY <1>1, <1>2 DEF ScanAhead, ScanAbove, Cell, TypeOK
  <2>2. LiveProtected'
    <3> HIDE DEF c
    <3>1. Reachable' \subseteq Reachable \cup {c} /\ gc_curr # "Free"
      BY <1>2, <1>3 DEF Gen
    <3> QED BY <1>2, <1>4, <2>1, <3>1, ShadeKeepsLive
  <2>3. /\ gc_marks' \in [Cell -> Color] /\ gc_addr' \in RamBase .. ram_top
        /\ ScanAhead' /\ Generations'
        /\ gc_marks'[c] = gc_curr
        /\ \A d \in Cell \ {c} : gc_marks'[d] = "Free" <=> gc_marks[d] = "Free"
    <3> HIDE DEF c
    <3>1. gc_curr # "Free" /\ ref' = ref
      BY <1>2 DEF Gen
    <3> QED BY <1>2, <1>4, <2>1, <3>1, ShadeKeepsColors
  <2>4. \A d \in Cell : gc_marks'[d] = "Free" <=> gc_marks[d] = "Free"
    BY <1>2, <1>4, <2>3 DEF Gen
  <2> QED BY <1>1, <1>2, <2>2, <2>3, <2>4, ColorStep DEF TypeOK
<1>5. CASE gc_marks[c] # "Scan" /\ gc_addr' = c + 1 /\ UNCHANGED gc_marks
  <2>1. ScanAhead'
    BY <1>1, <1>2, <1>5 DEF ScanAhead, Cell, TypeOK
  <2>2. Generations'
    BY <1>2 DEF Generations
  <2>3. LiveProtected'
    BY <1>2, <1>3, <1>5 DEF IInv, LiveProtected
  <2>4. gc_marks' \in [Cell -> Color] /\ gc_phase' \in Phase /\ gc_addr' \in RamBase .. ram_top
    BY <1>1, <1>2, <1>5 DEF TypeOK
  <2> QED BY <1>2, <1>5, <2>1, <2>2, <2>3, <2>4, ColorStep
<1> QED BY <1>4, <1>5 DEF MarkCell

(* When the scan pointer meets ram_top nothing is left to visit. *)
LEMMA EndMarkStep ==
  ASSUME IInv, "suspended" \notin HostGc, GcStep, EndMark
  PROVE  IInv'
<1> USE GcAssumption
<1>1. TypeOK /\ FreeListSound /\ ScanAhead /\ LiveProtected
      /\ UNCHANGED <<stubs, queue, waiting, held>>
  BY GcFrame DEF IInv
<1>2. /\ gc_phase = "Mark" /\ gc_addr >= ram_top /\ gc_phase' = "Sweep"
      /\ UNCHANGED <<memVars, ref, gc_addr, gc_curr, gc_prev, gc_marks>>
  BY DEF EndMark
<1>3. \A c \in Cell : gc_marks[c] # "Scan"
  BY <1>1, <1>2 DEF ScanAhead, FreeListSound, TypeOK, Cell
<1>4. ToVisit(gc_marks, gc_prev, ref) = {}
  <2>1. {} \in SUBSET Cell
    OBVIOUS
  <2>2. \A c \in ToVisit(gc_marks, gc_prev, ref) : c \in {}
    BY <1>3, <2>1 DEF ToVisit
  <2> QED BY <2>2
<1>5. Reachable' = Reachable
  BY <1>1, <1>2 DEF Reachable, Roots
<1>6. LiveProtected'
  BY <1>1, <1>2, <1>4, <1>5 DEF LiveProtected
<1>7. Generations'
  BY <1>1, <1>2 DEF Generations, FreeListSound, TypeOK, Cell, Gen
<1>8. ScanAhead'
  BY <1>2, <1>3 DEF ScanAhead
<1>9. /\ gc_marks' \in [Cell -> Color] /\ gc_addr' \in RamBase .. ram_top
      /\ gc_phase' \in Phase /\ gc_curr' \in Gen /\ gc_prev' \in Gen /\ gc_curr' # gc_prev'
  BY <1>1, <1>2 DEF TypeOK, Phase
<1> QED BY <1>2, <1>6, <1>7, <1>8, <1>9, ColorStep

(* The sweep releases a cell only when it is left over from the old generation. *)
LEMMA SweepStep ==
  ASSUME IInv, "suspended" \notin HostGc, GcStep, SweepCell
  PROVE  IInv'
<1> USE GcAssumption
<1> DEFINE addr == gc_addr - 1
<1>1. /\ TypeOK /\ Generations /\ Roots \subseteq Reachable
      /\ UNCHANGED <<stubs, queue, waiting, held>>
      /\ mode' \in {"burst", "gc", "collect", "idle", "suspended"}
      /\ count' \in 0 .. GcStride - 1
      /\ Quiescent'
  BY GcFrame, RootsReachable DEF IInv
<1>2. /\ gc_phase = "Sweep" /\ UNCHANGED <<ram_top, gc_phase, gc_curr, gc_prev>>
      /\ addr \in Cell /\ addr \in RamBase .. ram_top
      /\ gc_curr \in Gen /\ gc_prev \in Gen /\ gc_curr # gc_prev
  BY <1>1 DEF SweepCell, TypeOK, Cell
<1>3. CASE gc_marks[addr] = gc_prev /\ Release(addr, addr)
  <2>1. gc_marks[addr] # "Free" /\ addr \notin Reachable
    BY <1>2, <1>3, OutsideMark DEF Gen
  <2>2. Roots' = Roots
    BY <1>1 DEF Roots
  <2>3. Roots' \subseteq Reachable /\ addr \notin ReachIn(ref, Roots')
    BY <1>1, <2>1, <2>2 DEF Reachable
  <2>4. ScanAbove(addr, addr)
    BY <1>2 DEF ScanAbove
  <2>5. gc_phase = "Sweep" => \A d \in Cell \ {addr} : d < gc_addr => d < addr
    BY <1>1 DEF TypeOK, Cell
  <2>6. stubs' \subseteq Cell /\ queue' \subseteq Cell /\ waiting' \subseteq Cell
        /\ held' \subseteq Cell
    BY <1>1 DEF TypeOK
  <2> HIDE DEF addr
  <2> QED BY <1>1, <1>2, <1>3, <2>1, <2>3, <2>4, <2>5, <2>6, ReleaseStep
<1>4. CASE /\ gc_marks[addr] # gc_prev
           /\ gc_addr' = addr /\ UNCHANGED <<ref, free, ram_free, gc_marks>>
  <2>1. Reachable' = Reachable
    BY <1>1, <1>4 DEF Reachable, Roots
  <2>2. LiveProtected'
    BY <1>2, <1>4, <2>1 DEF IInv, LiveProtected
  <2>3. ScanAhead'
    BY <1>2, <1>4 DEF IInv, ScanAhead
  <2>4. Generations'
    BY <1>1, <1>2, <1>4 DEF Generations, TypeOK, Cell
  <2>5. gc_marks' \in [Cell -> Color] /\ gc_addr' \in RamBase .. ram_top /\ gc_phase' \in Phase
    BY <1>1, <1>2, <1>4 DEF TypeOK
  <2>6. UNCHANGED <<memVars, ref>>
    BY <1>2, <1>4 DEF memVars
  <2> QED BY <1>2, <1>4, <2>2, <2>3, <2>4, <2>5, <2>6, ColorStep
<1> QED BY <1>3, <1>4 DEF SweepCell

(* The first and the last step of a cycle only change the phase. *)
LEMMA PhaseStep ==
  ASSUME IInv, "suspended" \notin HostGc, GcStep, StartCycle \/ EndSweep
  PROVE  IInv'
<1> USE GcAssumption
<1>1. TypeOK /\ ScanAhead /\ Generations /\ UNCHANGED <<stubs, queue, waiting, held>>
  BY GcFrame DEF IInv
<1>2. /\ gc_phase \in {"Idle", "Sweep"} /\ gc_phase' \in {"Idle", "Prep"}
      /\ gc_phase = "Sweep" => gc_addr <= RamBase
      /\ UNCHANGED <<memVars, ref, gc_addr, gc_curr, gc_prev, gc_marks>>
  BY DEF StartCycle, EndSweep
<1>3. Reachable' = Reachable
  BY <1>1, <1>2 DEF Reachable, Roots
<1>4. LiveProtected'
  BY <1>2, <1>3, OutsideMark DEF LiveProtected
<1>5. ScanAhead'
  BY <1>2, OutsideMark DEF ScanAhead
<1>6. Generations'
  BY <1>1, <1>2 DEF Generations, TypeOK, Cell
<1>7. /\ gc_marks' \in [Cell -> Color] /\ gc_addr' \in RamBase .. ram_top
      /\ gc_phase' \in Phase /\ gc_curr' \in Gen /\ gc_prev' \in Gen /\ gc_curr' # gc_prev'
  BY <1>1, <1>2 DEF TypeOK, Phase
<1> QED BY <1>2, <1>4, <1>5, <1>6, <1>7, ColorStep

-----------------------------------------------------------------------------
(* The theorems *)

(* The initial state: an empty heap and an idle collector. *)
LEMMA InitIInv == Init => IInv
<1> SUFFICES ASSUME Init PROVE IInv
  OBVIOUS
<1> USE GcAssumption
<1>1. Reachable = {}
  <2>1. Roots = {} /\ {} \in SUBSET Cell /\ \A d \in {} : ref[d] \subseteq {}
    BY DEF Init, Roots
  <2> QED BY <2>1, ReachLeast DEF Reachable
<1>2. TypeOK
  BY DEF Init, TypeOK, Phase, Gen, Color
<1>3. FreeListSound
  BY FS_EmptySet DEF Init, FreeListSound, Cell
<1>4. ScanAhead /\ Generations /\ FreeIsEmpty /\ Quiescent
  BY DEF Init, ScanAhead, Generations, FreeIsEmpty, Quiescent
<1>5. LiveNotFree /\ LiveProtected
  BY <1>1 DEF LiveNotFree, LiveProtected
<1> QED BY <1>2, <1>3, <1>4, <1>5 DEF IInv

(* Every step keeps the inductive invariant. *)
LEMMA StepIInv ==
  ASSUME "suspended" \notin HostGc, IInv, [Next]_vars
  PROVE  IInv'
<1>1. CASE \E c \in Cell, R \in SUBSET Cell : Store(c, R)
  BY <1>1, StoreStep
<1>2. CASE \E c \in Cell, R \in SUBSET Cell : Reserve(c, R)
  BY <1>2, ReserveStep
<1>3. CASE \E c \in Cell : Free(c)
  BY <1>3, FreeStep
<1>4. CASE \/ \E c \in Cell : Load(c) \/ Suspend(c)
           \/ \E Q \in SUBSET Cell : SetQueue(Q) \/ SetStubs(Q)
           \/ Control
  BY <1>4, ControlStep
<1>5. CASE GcStep
  <2>1. StartCycle \/ Prep \/ MarkCell \/ EndMark \/ SweepCell \/ EndSweep
    BY <1>5 DEF GcStep
  <2> QED BY <1>5, <2>1, PrepStep, MarkStep, EndMarkStep, SweepStep, PhaseStep
<1>6. CASE UNCHANGED vars
  <2>1. Roots' = Roots /\ Reachable' = Reachable
    BY <1>6 DEF vars, mutVars, Roots, Reachable
  <2> QED BY <1>6, <2>1 DEF vars, mutVars, memVars, gcVars, IInv, TypeOK, FreeListSound,
            ScanAhead, Generations, FreeIsEmpty, LiveNotFree, LiveProtected, Quiescent
<1> QED BY <1>1, <1>2, <1>3, <1>4, <1>5, <1>6 DEF Next, Mutate

(***************************************************************************)
(* If the host never calls h_gc_run() while the root sponsor is suspended, *)
(* the memory and the collector satisfy IInv.                              *)
(***************************************************************************)
THEOREM Invariant ==
  ASSUME "suspended" \notin HostGc
  PROVE  Spec => []IInv
<1>1. Init => IInv
  BY InitIInv
<1>2. IInv /\ [Next]_vars => IInv'
  BY StepIInv
<1> QED BY <1>1, <1>2, PTL DEF Spec

(* The variables keep their types (core.rs: gc_addr stays in the heap, ...). *)
THEOREM TypeCorrect ==
  ASSUME "suspended" \notin HostGc
  PROVE  Spec => []TypeOK
<1>1. IInv => TypeOK
  BY DEF IInv
<1> QED BY <1>1, Invariant, PTL

(* The collector and free() never release a cell the program can reach. *)
THEOREM Safety ==
  ASSUME "suspended" \notin HostGc
  PROVE  Spec => []NoDangling
<1>1. IInv => NoDangling
  <2>1. Reachable \subseteq Cell
    BY DEF Reachable, ReachIn
  <2> QED BY <2>1 DEF IInv, NoDangling, FreeListSound, LiveNotFree
<1> QED BY <1>1, Invariant, PTL

(* The free-list, its recorded length and the colours agree: no double free. *)
THEOREM FreeListCorrect ==
  ASSUME "suspended" \notin HostGc
  PROVE  Spec => []FreeListSound
<1>1. IInv => FreeListSound
  BY DEF IInv
<1> QED BY <1>1, Invariant, PTL

(* The scan pointer passes no cell that is still to be scanned. *)
THEOREM MarkingCorrect ==
  ASSUME "suspended" \notin HostGc
  PROVE  Spec => []ScanAhead
<1>1. IInv => ScanAhead
  BY DEF IInv
<1> QED BY <1>1, Invariant, PTL

(* The deletion barrier of ram_mut() protects the snapshot. *)
THEOREM BarrierCorrect ==
  ASSUME "suspended" \notin HostGc
  PROVE  Spec => []LiveProtected
<1>1. IInv => LiveProtected
  BY DEF IInv
<1> QED BY <1>1, Invariant, PTL
=============================================================================
