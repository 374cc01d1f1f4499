------------------------------- MODULE FsDevice -------------------------------
(***************************************************************************)
(* The filesystem device (vm/js/fs_dev.js) over either filesystem of the   *)
(* repository: in memory (fs_memory.js), where an operation ends before    *)
(* its requestor returns, or of the platform (fs_deno.js), where it ends   *)
(* later.  What files hold is left out.                                    *)
(***************************************************************************)
EXTENDS HostCalls

VARIABLE dev

(* memory  : the filesystem is fs_memory                                   *)
(* files   : by file_nr.  cap: the capability exists; pairFirst: the sweep *)
(*           meets the pair with the routing key before the proxy; told:   *)
(*           on_drop_proxy was called; open: files[file_nr] is defined;    *)
(*           locked, dropped: the handle is in the weak map of that name;  *)
(*           closes: times the handle was closed                           *)
(* pending : requests the filesystem is working on                         *)
(* orphans : handles opened that the device never saw                      *)
NewFile(pairFirst) ==
    [cap |-> TRUE, pairFirst |-> pairFirst, told |-> FALSE, open |-> TRUE,
     locked |-> FALSE, dropped |-> FALSE, closes |-> 0]

Init ==
    /\ \E eager \in BOOLEAN : core = NewCore(eager)
    /\ \E memory \in BOOLEAN :
         dev = [memory |-> memory, files |-> <<>>, pending |-> {}, orphans |-> 0]

vars == <<core, dev>>

FileKinds == {"read", "write", "seek"}
Kinds == FileKinds \cup {"open", "stat", "bad"}

-----------------------------------------------------------------------------
Ask(r) ==
    /\ CanAsk(core, r)
    /\ \E q \in   [kind : {"open", "stat", "bad"}, on : {0}]
             \cup [kind : FileKinds, on : {f \in DOMAIN dev.files : dev.files[f].cap}] :
         core' = Asked(core, r, q)
    /\ UNCHANGED dev

Handle ==
    /\ CanHandle(core)
    /\ core' = IF core.asked[Next1(core)].kind = "bad" THEN Rejected(core)
               ELSE Accepted(core, <<Callback(Next1(core))>>)
    /\ UNCHANGED dev

(* u_close                                                                 *)
Close(d, f) ==
    IF d.files[f].open
    THEN [d EXCEPT !.files[f].open = FALSE, !.files[f].closes = @ + 1]
    ELSE d

Unavailable(f) == ~dev.files[f].open \/ dev.files[f].locked

Answer(k, r) == Reply(Release(k, r), r)

(* What an operation does to the device when it ends.                      *)
Ended(d, q, r) ==
    LET d1 == [d EXCEPT !.pending = @ \ {r}]
        d2 == [d1 EXCEPT !.files[q.on].locked = FALSE]
    IN  CASE q.kind \in FileKinds ->
               {IF d1.files[q.on].dropped THEN Close(d2, q.on) ELSE d2}
          [] q.kind = "open" -> {d1} \cup {[d1 EXCEPT !.files = Append(@, NewFile(first))] : first \in BOOLEAN}
          [] OTHER -> {d1}

(* The deferred callbacks.                                                 *)
Begun(q, r) ==
    IF q.kind \in FileKinds
    THEN [dev EXCEPT !.pending = @ \cup {r}, !.files[q.on].locked = TRUE]
    ELSE [dev EXCEPT !.pending = @ \cup {r}]

Call ==
    /\ CanCall(core)
    /\ LET r == NextCallback(core).id
           q == core.asked[r]
           k == CallbackTaken(core)
       IN  IF q.kind \in FileKinds /\ Unavailable(q.on)
           THEN core' = Answer(k, r) /\ UNCHANGED dev
           ELSE IF dev.memory
           THEN core' = Answer(k, r) /\ dev' \in Ended(Begun(q, r), q, r)
           ELSE core' = k /\ dev' = Begun(q, r)

(* An operation of the platform ends.  Disposing of the core cancelled     *)
(* those that are sequences, whose callbacks are no longer called: what    *)
(* such an open opens, nobody closes.  A read is a single promise, which   *)
(* cannot be cancelled.                                                    *)
Complete(r) ==
    /\ Outside(core)
    /\ r \in dev.pending
    /\ LET q == core.asked[r]
       IN  IF ~core.disposed
           THEN core' = Answer(core, r) /\ dev' \in Ended(dev, q, r)
           ELSE IF q.kind = "read"
           THEN /\ core' = [Release(core, r) EXCEPT !.answers[r] = @ + 1]
                /\ dev' = [dev EXCEPT !.pending = @ \ {r}, !.files[q.on].locked = FALSE]
           ELSE /\ dev' = [dev EXCEPT !.pending = @ \ {r},
                                      !.orphans = IF q.kind = "open" THEN @ + 1 ELSE @]
                /\ UNCHANGED core

\* Mutant of Drop: the file is only marked, whether it is in use or not.
DropMarks(f) ==
    /\ core.wasm
    /\ dev.files[f].cap
    /\ ~InUse(core, FileKinds, f)
    /\ dev' = [dev EXCEPT !.files[f].cap = FALSE, !.files[f].dropped = TRUE,
                          !.files[f].told = ~dev.files[f].pairFirst]
    /\ UNCHANGED core

(* The collector frees a proxy nothing refers to.  The device is told, in  *)
(* on_drop_proxy, unless the pair of the proxy was swept before it: see    *)
(* TcpDevice.                                                              *)
Drop(f) ==
    /\ core.wasm
    /\ dev.files[f].cap
    /\ ~InUse(core, FileKinds, f)
    /\ dev' = IF dev.files[f].pairFirst
              THEN [dev EXCEPT !.files[f].cap = FALSE]
              ELSE LET d == [dev EXCEPT !.files[f].cap = FALSE, !.files[f].told = TRUE]
                   IN  IF d.files[f].locked THEN [d EXCEPT !.files[f].dropped = TRUE]
                       ELSE Close(d, f)
    /\ UNCHANGED core

Enter ==
    /\ Outside(core) /\ ~core.disposed
    /\ core' = RunLoop(core)
    /\ UNCHANGED dev

Return ==
    /\ core.wasm
    /\ core' = Returned(core)
    /\ UNCHANGED dev

Dispose ==
    /\ Outside(core) /\ ~core.disposed
    /\ core' = [core EXCEPT !.disposed = TRUE]
    /\ dev' = [dev EXCEPT !.files = [f \in DOMAIN dev.files |->
                  [dev.files[f] EXCEPT !.open = FALSE,
                               !.closes = IF dev.files[f].open THEN @ + 1 ELSE @]]]

Next ==
    \/ \E r \in Reqs : Ask(r)
    \/ Handle
    \/ Call
    \/ \E r \in Reqs : Complete(r)
    \/ \E f \in DOMAIN dev.files : Drop(f)
    \/ Enter
    \/ Return
    \/ Dispose

-----------------------------------------------------------------------------
TypeOK ==
    /\ IsCore(core, Kinds)
    /\ dev.memory \in BOOLEAN
    /\ dev.files \in Seq([cap : BOOLEAN, pairFirst : BOOLEAN, told : BOOLEAN,
                          open : BOOLEAN, locked : BOOLEAN, dropped : BOOLEAN,
                          closes : Nat])
    /\ dev.pending \subseteq Reqs /\ dev.orphans \in Nat

PendingOn(f) ==
    {r \in dev.pending : core.asked[r].kind \in FileKinds /\ core.asked[r].on = f}

(* A file has one operation under way at most, and is locked while it has, *)
(* and only then; no operation is begun on a file that was closed.         *)
OneOperation ==
    \A f \in DOMAIN dev.files :
        /\ Cardinality(PendingOn(f)) <= 1
        /\ ~core.disposed => (dev.files[f].locked <=> PendingOn(f) # {})
        /\ PendingOn(f) # {} /\ ~core.disposed => dev.files[f].closes = 0

(* Each handle the device holds is closed once, either when the device is  *)
(* told that its capability is gone or when the core is disposed of: never *)
(* while an actor can still use it, never by both, and never left open     *)
(* after the core.                                                         *)
ClosedOnce ==
    \A f \in DOMAIN dev.files :
        LET file == dev.files[f]
        IN  /\ file.closes = IF file.told \/ core.disposed THEN 1 ELSE 0
            /\ file.told => ~file.cap

(* fs_dev.md: the resources of a file are released once it is garbage      *)
(* collected and all requests to it have ended.                            *)
ForgottenClosed ==
    \A f \in DOMAIN dev.files : dev.files[f].cap \/ dev.files[f].closes > 0

(* Every request the device answers has its event stub released, and only  *)
(* it, once.                                                               *)
AnsweredReleased ==
    \A r \in Reqs :
        /\ core.stub[r] \in {0, 1} /\ core.answers[r] \in {0, 1}
        /\ core.answers[r] = 1 => core.stub[r] = 0
=============================================================================
