--------------------------- MODULE GarbageCollector ---------------------------
(***************************************************************************)
(* The quad-memory of a uFork core and its incremental garbage collector   *)
(* (vm/rs/src/core.rs).  The collector is a snapshot-at-the-beginning      *)
(* mark-and-sweep over RAM: every mutable access to a cell goes through    *)
(* ram_mut(), which marks the cell and scans its OLD contents before the   *)
(* caller overwrites them.  The roots live in reserved cells below         *)
(* RamBase, which have no such barrier.                                    *)
(*                                                                         *)
(* A quad is abstracted to the set of heap cells its four fields point to  *)
(* (pointers and capabilities alike; fixnums, ROM and reserved RAM are not *)
(* heap cells).  Everything that touches the heap -- an instruction, the   *)
(* dispatch of an event, a device or host call -- is a "burst" of the      *)
(* primitives below; between two bursts the run-loop takes one             *)
(* gc_increment().  The locals of the burst are the set held: the          *)
(* collector never runs while they are in use.                             *)
(***************************************************************************)
EXTENDS Integers, FiniteSets

CONSTANTS
  RamBase,     \* RAM_BASE_OFS, the first cell of the heap
  RamMax,      \* QUAD_RAM_MAX, one past the last cell of the heap
  GcStride,    \* gc_stride, the collector steps taken by one gc_increment()
  Fields,      \* bound: the heap pointers one quad holds (4 in the code)
  Stubs,       \* bound: 1 to let the host keep stubs, 0 for a heap without them
  Locals,      \* bound: the heap pointers a burst holds in local variables
  HostGc       \* the modes in which the host may call h_gc_run()

ASSUME GcAssumption ==
  /\ RamBase \in Nat
  /\ RamMax \in Nat
  /\ RamBase <= RamMax
  /\ GcStride \in Nat \ {0}
  /\ Fields \in Nat /\ Locals \in Nat /\ Stubs \in Nat
  /\ HostGc \subseteq {"idle", "suspended"}

Cell == RamBase .. RamMax - 1

Gen == {"GenX", "GenY"}
Color == Gen \cup {"Free", "Scan"}
Phase == {"Idle", "Prep", "Mark", "Sweep"}

VARIABLES
  ram_top,     \* MEMORY.t, one past the highest cell ever reserved
  free,        \* the cells of the free-list that starts at MEMORY.x
  ram_free,    \* MEMORY.y, the length the core believes the free-list has
  ref,         \* ref[c]: the heap cells that the fields of cell c point to
  stubs,       \* MEMORY.z, the head of the list of stubs (GC root)
  queue,       \* DDEQUE, the first event and the first continuation (GC roots)
  waiting,     \* SPONSOR.z, the event the root sponsor was suspended on
  held,        \* cells in the local variables of the burst that is running
  mode,        \* what the core is doing
  count,       \* steps taken by the current gc_increment()
  gc_phase, gc_addr, gc_curr, gc_prev, gc_marks

mutVars == <<ref, stubs, queue, waiting, held>>
memVars == <<ram_top, free, ram_free>>
gcVars == <<gc_phase, gc_addr, gc_curr, gc_prev, gc_marks>>
vars == <<memVars, mutVars, mode, count, gcVars>>

(***************************************************************************)
(* The cells that can be reached from the set B by following r: those that *)
(* belong to every set that contains B and is closed under r.              *)
(***************************************************************************)
ReachIn(r, B) ==
  {c \in Cell : \A S \in SUBSET Cell :
                   (B \subseteq S /\ \A d \in S : r[d] \subseteq S) => c \in S}

Roots == stubs \cup queue \cup waiting \cup held
Reachable == ReachIn(ref, Roots)

Init ==
  /\ ram_top = RamBase
  /\ free = {}
  /\ ram_free = 0
  /\ ref = [c \in Cell |-> {}]
  /\ stubs = {} /\ queue = {} /\ waiting = {} /\ held = {}
  /\ mode = "idle"
  /\ count = 0
  /\ gc_phase = "Idle"
  /\ gc_addr = RamBase
  /\ gc_curr = "GenX" /\ gc_prev = "GenY"
  /\ gc_marks = [c \in Cell |-> "Free"]

-----------------------------------------------------------------------------
(* Marking *)

(* Mutant of Shade: gc_scan_cell() forgets to lower gc_addr. *)
ShadeKeepsAddr(c, R, from, color) ==
  /\ gc_marks' = [d \in Cell |-> IF d = c THEN color
                    ELSE IF d \in R /\ gc_phase = "Mark" /\ gc_marks[d] = gc_prev
                         THEN "Scan" ELSE gc_marks[d]]
  /\ gc_addr' = from

(***************************************************************************)
(* gc_mark_cell(c) on a cell with contents R, leaving c coloured color:    *)
(* while marking, each previous-generation cell of R is set to Scan, and   *)
(* gc_addr (from, when the call is made) drops to the lowest of them.      *)
(***************************************************************************)
Shade(c, R, from, color) ==
  LET grey == {d \in R \ {c} : gc_phase = "Mark" /\ gc_marks[d] = gc_prev}
      low == {from} \cup grey
  IN  /\ gc_marks' = [d \in Cell |-> IF d = c THEN color
                                     ELSE IF d \in grey THEN "Scan"
                                     ELSE gc_marks[d]]
      /\ gc_addr' \in low
      /\ \A d \in low : gc_addr' <= d

(* Mutant of Release: gc_free_cell() is not called. *)
ReleaseNotFreed(c, from) ==
  /\ Shade(c, ref[c], from, gc_curr)
  /\ ref' = [ref EXCEPT ![c] = {}]
  /\ free' = free \cup {c}
  /\ ram_free' = ram_free + 1

(* release(c): the barrier of ram_mut, then c joins the free-list. *)
Release(c, from) ==
  /\ Shade(c, ref[c], from, "Free")
  /\ ref' = [ref EXCEPT ![c] = {}]
  /\ free' = free \cup {c}
  /\ ram_free' = ram_free + 1

-----------------------------------------------------------------------------
(* The mutator: the primitives a burst is made of *)

(* t(), x(), y(), z(), ram(): a burst reads a pointer out of the heap or a root. *)
Load(c) ==
  /\ mode = "burst"
  /\ c \in Reachable \ held /\ Cardinality(held) < Locals
  /\ held' = held \cup {c}
  /\ UNCHANGED <<memVars, ref, stubs, queue, waiting, mode, count, gcVars>>

(* Mutant of Store: ram_mut() without its barrier. *)
StoreUnmarked(c, R) ==
  /\ mode = "burst"
  /\ c \in held
  /\ R \subseteq held \cup ref[c] /\ Cardinality(R) <= Fields
  /\ ref' = [ref EXCEPT ![c] = R]
  /\ UNCHANGED <<memVars, stubs, queue, waiting, held, mode, count, gcVars>>

(* ram_mut(c): shade c with its old contents, then overwrite some fields. *)
Store(c, R) ==
  /\ mode = "burst"
  /\ c \in held
  /\ R \subseteq held \cup ref[c] /\ Cardinality(R) <= Fields
  /\ Shade(c, ref[c], gc_addr, gc_curr)
  /\ ref' = [ref EXCEPT ![c] = R]
  /\ UNCHANGED <<memVars, stubs, queue, waiting, held, mode, count,
                 gc_phase, gc_curr, gc_prev>>

(* set_e_first, set_k_first, ... : reserved cells are written with no barrier. *)
SetQueue(Q) ==
  /\ mode = "burst"
  /\ Q # queue /\ Q \subseteq held \cup queue
  /\ Cardinality(Q) <= 2
  /\ queue' = Q
  /\ UNCHANGED <<memVars, ref, stubs, waiting, held, mode, count, gcVars>>

(* set_ram_root, or release_stub taking the first stub off the list. *)
SetStubs(Q) ==
  /\ mode = "burst"
  /\ Q # stubs /\ Q \subseteq held \cup stubs
  /\ Cardinality(Q) <= Stubs
  /\ stubs' = Q
  /\ UNCHANGED <<memVars, ref, queue, waiting, held, mode, count, gcVars>>

(* The cell reserve() hands out: from the free-list, else from the top. *)
Reserve(c, R) ==
  /\ mode = "burst"
  /\ R \subseteq held /\ Cardinality(R) <= Fields
  /\ Cardinality(held) < Locals
  /\ \/ /\ c \in free
        /\ free' = free \ {c}
        /\ ram_free' = ram_free - 1
        /\ UNCHANGED ram_top
     \/ /\ free = {}
        /\ c = ram_top /\ c < RamMax
        /\ ram_top' = c + 1
        /\ UNCHANGED <<free, ram_free>>
  /\ ref' = [ref EXCEPT ![c] = R]
  /\ Shade(c, R, gc_addr, gc_curr)
  /\ held' = held \cup {c}
  /\ UNCHANGED <<stubs, queue, waiting, mode, count, gc_phase, gc_curr, gc_prev>>

(***************************************************************************)
(* free(c): a stack cell, event, effect, continuation or stub is freed     *)
(* explicitly.  Its owner has unlinked it, so nothing that is still in use *)
(* leads to it.  (One owner has not: the proxy of a timer keeps the        *)
(* address of a stub that has been released; that is not modelled here.)   *)
(***************************************************************************)
Free(c) ==
  /\ mode = "burst"
  /\ c \in held
  /\ c \notin ReachIn(ref, stubs \cup queue \cup waiting \cup (held \ {c}))
  /\ Release(c, gc_addr)
  /\ held' = held \ {c}
  /\ UNCHANGED <<ram_top, stubs, queue, waiting, mode, count,
                 gc_phase, gc_curr, gc_prev>>

-----------------------------------------------------------------------------
(* The run-loop around the bursts *)

(* An iteration of run_loop() reaches gc_increment(); a host call returns. *)
EndBurst ==
  /\ mode = "burst"
  /\ held' = {}
  /\ mode' = IF waiting = {} THEN "gc" ELSE "suspended"
  /\ count' = 0
  /\ UNCHANGED <<memVars, ref, stubs, queue, waiting, gcVars>>

(* waiting_event() and report_error() for the root sponsor: run_loop() returns. *)
Suspend(c) ==
  /\ mode = "burst" /\ waiting = {}
  /\ c \in held
  /\ waiting' = {c}
  /\ held' = {}
  /\ mode' = "suspended"
  /\ UNCHANGED <<memVars, ref, stubs, queue, count, gcVars>>

(* run_loop() finds both queues empty and calls gc_collect_all(). *)
GoIdle ==
  /\ mode = "burst" /\ waiting = {}
  /\ queue = {}
  /\ held' = {}
  /\ mode' = "collect"
  /\ count' = 0
  /\ UNCHANGED <<memVars, ref, stubs, queue, waiting, gcVars>>

(* A host call (h_reserve, h_event_enqueue, h_release_stub, ...). *)
HostCall ==
  /\ mode \in {"idle", "suspended"}
  /\ mode' = "burst"
  /\ UNCHANGED <<memVars, mutVars, count, gcVars>>

(* h_run_loop() resumes the root sponsor: its waiting event is picked up. *)
Resume ==
  /\ mode = "suspended"
  /\ held' = waiting
  /\ waiting' = {}
  /\ mode' = "burst"
  /\ UNCHANGED <<memVars, ref, stubs, queue, count, gcVars>>

(* h_gc_run(): the debugger asks for a collection. *)
HostGcRun ==
  /\ mode \in HostGc
  /\ mode' = "collect"
  /\ count' = 0
  /\ UNCHANGED <<memVars, mutVars, gcVars>>

-----------------------------------------------------------------------------
(* The collector: one step of the loop in gc_increment() *)

StartCycle ==
  /\ gc_phase = "Idle"
  /\ gc_phase' = IF count = 0 THEN "Prep" ELSE "Idle"
  /\ UNCHANGED <<memVars, ref, gc_addr, gc_curr, gc_prev, gc_marks>>

(* Mutants of ScannedRoots: Prep forgets e_first and k_first, or ram_root. *)
ScannedStubs == stubs
ScannedQueues == queue

(* The roots that Prep scans: ram_root, e_first and k_first. *)
ScannedRoots == stubs \cup queue

(* Swap the generations and scan the roots. *)
Prep ==
  /\ gc_phase = "Prep"
  /\ gc_curr' = gc_prev
  /\ gc_prev' = gc_curr
  /\ gc_addr' = RamBase
  /\ gc_marks' = [c \in Cell |-> IF c \in ScannedRoots /\ gc_marks[c] = gc_curr
                                 THEN "Scan" ELSE gc_marks[c]]
  /\ gc_phase' = "Mark"
  /\ UNCHANGED <<memVars, ref>>

MarkCell ==
  /\ gc_phase = "Mark"
  /\ gc_addr < ram_top
  /\ IF gc_marks[gc_addr] = "Scan"
       THEN Shade(gc_addr, ref[gc_addr], gc_addr + 1, gc_curr)
       ELSE gc_addr' = gc_addr + 1 /\ UNCHANGED gc_marks
  /\ UNCHANGED <<memVars, ref, gc_phase, gc_curr, gc_prev>>

EndMark ==
  /\ gc_phase = "Mark"
  /\ gc_addr >= ram_top
  /\ gc_phase' = "Sweep"
  /\ UNCHANGED <<memVars, ref, gc_addr, gc_curr, gc_prev, gc_marks>>

SweepCell ==
  /\ gc_phase = "Sweep"
  /\ gc_addr > RamBase
  /\ LET addr == gc_addr - 1
     IN  IF gc_marks[addr] = gc_prev
           THEN Release(addr, addr)
           ELSE gc_addr' = addr /\ UNCHANGED <<ref, free, ram_free, gc_marks>>
  /\ UNCHANGED <<ram_top, gc_phase, gc_curr, gc_prev>>

(* Mutant of EndSweep: the first cell of the heap is never swept. *)
EndSweepEarly ==
  /\ gc_phase = "Sweep"
  /\ gc_addr <= RamBase + 1
  /\ gc_phase' = "Idle"
  /\ UNCHANGED <<memVars, ref, gc_addr, gc_curr, gc_prev, gc_marks>>

EndSweep ==
  /\ gc_phase = "Sweep"
  /\ gc_addr <= RamBase
  /\ gc_phase' = "Idle"
  /\ UNCHANGED <<memVars, ref, gc_addr, gc_curr, gc_prev, gc_marks>>

(* Mutant of Increment: one step too many. *)
IncrementMore ==
  IF count < GcStride
  THEN count' = count + 1 /\ UNCHANGED mode
  ELSE count' = 0 /\ mode' = IF mode = "gc" THEN "burst" ELSE mode

(***************************************************************************)
(* After GcStride steps gc_increment() returns: to the run-loop, or to     *)
(* gc_collect_all(), which repeats it until the collector is idle.         *)
(***************************************************************************)
Increment ==
  IF count + 1 < GcStride
  THEN count' = count + 1 /\ UNCHANGED mode
  ELSE /\ count' = 0
       /\ mode' = IF mode = "gc" THEN "burst"
                  ELSE IF gc_phase' # "Idle" THEN "collect"
                  ELSE IF waiting = {} THEN "idle" ELSE "suspended"

GcStep ==
  /\ mode \in {"gc", "collect"}
  /\ StartCycle \/ Prep \/ MarkCell \/ EndMark \/ SweepCell \/ EndSweep
  /\ Increment
  /\ UNCHANGED <<stubs, queue, waiting, held>>

-----------------------------------------------------------------------------
Mutate ==
  \/ \E c \in Cell : Load(c) \/ Free(c) \/ Suspend(c)
  \/ \E c \in Cell, R \in SUBSET Cell : Store(c, R) \/ Reserve(c, R)
  \/ \E Q \in SUBSET Cell : SetQueue(Q) \/ SetStubs(Q)

Control == EndBurst \/ GoIdle \/ HostCall \/ Resume \/ HostGcRun

Next == Mutate \/ Control \/ GcStep

Spec == Init /\ [][Next]_vars

(***************************************************************************)
(* A burst is a finite piece of straight-line code, and gc_increment() a   *)
(* bounded loop: both end.  Nothing makes the host call again.             *)
(***************************************************************************)
FairSpec == Spec /\ WF_vars(EndBurst) /\ WF_vars(GcStep)

-----------------------------------------------------------------------------
(* Properties *)

TypeOK ==
  /\ ram_top \in RamBase .. RamMax
  /\ free \subseteq RamBase .. ram_top - 1
  /\ ram_free \in Nat
  /\ ref \in [Cell -> SUBSET Cell]
  /\ stubs \subseteq Cell /\ queue \subseteq Cell
  /\ waiting \subseteq Cell /\ held \subseteq Cell
  /\ mode \in {"burst", "gc", "collect", "idle", "suspended"}
  /\ count \in 0 .. GcStride - 1
  /\ gc_phase \in Phase
  /\ gc_addr \in RamBase .. ram_top
  /\ gc_curr \in Gen /\ gc_prev \in Gen /\ gc_curr # gc_prev
  /\ gc_marks \in [Cell -> Color]

(***************************************************************************)
(* Nothing the program can still reach is on the free-list: whatever the   *)
(* interleaving of ram_mut, reserve and root updates with the marking and  *)
(* sweeping steps, the sweep releases garbage only.                        *)
(***************************************************************************)
NoDangling == Reachable \cap free = {}

(***************************************************************************)
(* The three records of which cells are free agree: the free-list, its     *)
(* length in MEMORY.y (reserve() asserts it positive) and the colour the   *)
(* collector gives a free cell, so that no cell is freed twice and the     *)
(* sweep never releases a cell that is already on the list.                *)
(***************************************************************************)
FreeListSound ==
  /\ ram_free = Cardinality(free)
  /\ \A c \in Cell : gc_marks[c] = "Free" <=> (c \in free \/ c >= ram_top)

(***************************************************************************)
(* The scan pointer never passes a cell that is still to be scanned, so    *)
(* when it meets ram_top the marking is complete and the sweep may start.  *)
(***************************************************************************)
ScanAhead ==
  \A c \in Cell : gc_marks[c] = "Scan" => (gc_phase = "Mark" /\ gc_addr <= c)

(***************************************************************************)
(* The cells the marking has still to visit: those reached from a Scan     *)
(* cell through cells that have not been marked.                           *)
(***************************************************************************)
ToVisit(m, prev, r) ==
  {c \in Cell : \A S \in SUBSET Cell :
     (/\ \A d \in Cell : m[d] = "Scan" => d \in S
      /\ \A d \in S : m[d] \in {"Scan", prev} => r[d] \subseteq S) => c \in S}

(***************************************************************************)
(* The deletion barrier protects the snapshot: while marking, a live cell  *)
(* that is not marked yet is still on the collector's path, even though    *)
(* the mutator may have moved the only pointer to it into a marked cell.   *)
(* Outside marking every live cell belongs to the current generation.      *)
(***************************************************************************)
LiveProtected ==
  \A c \in Reachable :
     \/ gc_marks[c] = gc_curr
     \/ gc_phase = "Mark" /\ c \in ToVisit(gc_marks, gc_prev, ref)

(***************************************************************************)
(* The inductive invariant.  Besides the properties above it says which    *)
(* generations exist in which phase, that a free cell points to nothing in *)
(* the heap, that no live cell has the colour of a free one, and that the  *)
(* collector runs only while nothing is held in locals and (h_gc_run not   *)
(* being called then) no event waits with the root sponsor.                *)
(***************************************************************************)
Generations ==
  \A c \in Cell : gc_marks[c] = gc_prev =>
    gc_phase = "Mark" \/ (gc_phase = "Sweep" /\ c < gc_addr)

FreeIsEmpty == \A c \in Cell : gc_marks[c] = "Free" => ref[c] = {}

LiveNotFree == \A c \in Reachable : gc_marks[c] # "Free"

Quiescent ==
  /\ mode # "burst" => held = {}
  /\ mode \in {"gc", "collect", "idle"} => waiting = {}

IInv ==
  /\ TypeOK
  /\ FreeListSound
  /\ ScanAhead
  /\ Generations
  /\ FreeIsEmpty
  /\ LiveNotFree
  /\ LiveProtected
  /\ Quiescent

(* A cell that has been reserved, is not free and that nothing leads to. *)
Garbage(c) == c < ram_top /\ c \notin free /\ c \notin Reachable

(***************************************************************************)
(* As long as the run-loop keeps running, every garbage cell is returned   *)
(* to the free-list, floating garbage by the next cycle at the latest.     *)
(***************************************************************************)
GarbageCollected ==
  []<>(mode = "gc") => \A c \in Cell : Garbage(c) ~> c \in free

(***************************************************************************)
(* sponsor.md: "If the Sponsor is reactivated, suspended Events are        *)
(* retried": the event a suspended root sponsor waits with is kept until   *)
(* the host resumes it.                                                    *)
(***************************************************************************)
WaitingKept == waiting \cap free = {}
=============================================================================
