------------------------------ MODULE TcpDevice ------------------------------
(***************************************************************************)
(* The TCP device (vm/js/tcp_dev.js): requests to connect and to listen,   *)
(* to read and write connections, and to stop a listener.  The transport   *)
(* is any that keeps its interface: an operation under way succeeds, fails *)
(* or, for a read, ends the stream, at any time; what the chunks hold is   *)
(* left out.                                                               *)
(***************************************************************************)
EXTENDS HostCalls

CONSTANT MaxOpens         \* connections the transport accepts

VARIABLE dev

(* conns     : connections, by conn_nr.  cap: the capability exists;       *)
(*             pairFirst: the sweep meets the pair with the routing key    *)
(*             before the proxy; told: on_drop_proxy was called            *)
(* listeners : by listener_nr; stub is that of on_open                     *)
(* leaked    : stubs of on_open that nothing will release                  *)
(* pending   : requests the transport is working on                        *)
NewConn(pairFirst) ==
    [cap |-> TRUE, pairFirst |-> pairFirst, told |-> FALSE, referenced |-> TRUE,
     reading |-> "undefined", writing |-> FALSE, disposals |-> 0]

Init ==
    /\ \E eager \in BOOLEAN : core = NewCore(eager)
    /\ dev = [conns |-> <<>>, listeners |-> <<>>, leaked |-> 0, pending |-> {},
              opens |-> 0]

vars == <<core, dev>>

ConnKinds == {"read", "write"}
Kinds == ConnKinds \cup {"connect", "listen", "stop", "bad"}

-----------------------------------------------------------------------------
CheckForgotten(d, c) ==
    IF /\ ~d.conns[c].referenced
       /\ d.conns[c].reading = "undefined"
       /\ ~d.conns[c].writing
    THEN [d EXCEPT !.conns[c].disposals = @ + 1]
    ELSE d

(* h_register: whether the pair of the new proxy lies above the proxy in   *)
(* memory, where the sweep meets it first, depends on the free list.       *)
Register(d, pairFirst) == [d EXCEPT !.conns = Append(@, NewConn(pairFirst))]

(* Requests actors can make: of connections and listeners only those they  *)
(* hold.  A bad request is one the device rejects.                         *)
Ask(r) ==
    /\ CanAsk(core, r)
    /\ \E q \in   [kind : {"connect", "listen", "bad"}, on : {0}]
             \cup [kind : ConnKinds, on : {c \in DOMAIN dev.conns : dev.conns[c].cap}]
             \cup [kind : {"stop"}, on : DOMAIN dev.listeners] :
         core' = Asked(core, r, q)
    /\ UNCHANGED dev

(* on_event_stub: every request but stop defers its work.  Stop releases   *)
(* the listener's stub, once, and never the stub of its own event.         *)
Handle ==
    /\ CanHandle(core)
    /\ LET r == Next1(core)
           q == core.asked[r]
       IN  CASE q.kind = "bad" -> core' = Rejected(core) /\ UNCHANGED dev
             [] q.kind = "stop" ->
                  IF dev.listeners[q.on].active
                  THEN /\ core' = Accepted(core, <<ReleaseOf(q.on)>>)
                       /\ dev' = [dev EXCEPT !.listeners[q.on].active = FALSE]
                  ELSE core' = Accepted(core, <<>>) /\ UNCHANGED dev
             [] OTHER -> core' = Accepted(core, <<Callback(r)>>) /\ UNCHANGED dev

(* The deferred callbacks.                                                 *)
Busy(q) == \/ q.kind = "read" /\ dev.conns[q.on].reading = "true"
           \/ q.kind = "write" /\ dev.conns[q.on].writing

Fails(k, r) == Reply(Release(k, r), r)

\* Mutant of StartOn: the write lock is not taken.
StartOnUnlocked(q, r) ==
    IF q.kind = "read"
    THEN [dev EXCEPT !.conns[q.on].reading = "true", !.pending = @ \cup {r}]
    ELSE [dev EXCEPT !.pending = @ \cup {r}]

StartOn(q, r) ==
    IF q.kind = "read"
    THEN [dev EXCEPT !.conns[q.on].reading = "true", !.pending = @ \cup {r}]
    ELSE [dev EXCEPT !.conns[q.on].writing = TRUE, !.pending = @ \cup {r}]

CallRequest(r) ==
    LET q == core.asked[r]
        k == CallbackTaken(core)
    IN  CASE q.kind \in ConnKinds ->
               IF Busy(q)
               THEN core' = Fails(k, r) /\ UNCHANGED dev
               ELSE core' = k /\ dev' = StartOn(q, r)
          [] q.kind = "connect" ->
               core' = k /\ dev' = [dev EXCEPT !.pending = @ \cup {r}]
          [] q.kind = "listen" ->
               /\ core' = Fails(k, r)
               /\ \/ dev' = [dev EXCEPT !.listeners = Append(@, [active |-> TRUE, stub |-> 1])]
                  \/ dev' = [dev EXCEPT !.leaked = @ + 1]

Call ==
    /\ CanCall(core)
    /\ IF NextCallback(core).do = "request"
       THEN CallRequest(NextCallback(core).id)
       ELSE /\ core' = CallbackTaken(core)
            /\ dev' = [dev EXCEPT !.listeners[NextCallback(core).id].stub = @ - 1]

-----------------------------------------------------------------------------
(* The transport calls back; nothing happens once the core is disposed.    *)
Completed(d, q, r) ==
    LET d1 == [d EXCEPT !.pending = @ \ {r}]
    IN  IF q.kind = "read"
        THEN CheckForgotten([d1 EXCEPT !.conns[q.on].reading = "false"], q.on)
        ELSE CheckForgotten([d1 EXCEPT !.conns[q.on].writing = FALSE], q.on)

Complete(r) ==
    /\ Outside(core)
    /\ r \in dev.pending
    /\ LET q == core.asked[r]
       IN  IF core.disposed
           THEN dev' = [dev EXCEPT !.pending = @ \ {r}] /\ UNCHANGED core
           ELSE /\ core' = Fails(core, r)
                /\ IF q.kind \in ConnKinds
                   THEN dev' = Completed(dev, q, r)
                   ELSE \/ dev' = [dev EXCEPT !.pending = @ \ {r}]
                        \/ \E first \in BOOLEAN :
                             dev' = Register([dev EXCEPT !.pending = @ \ {r}], first)

OnOpen(l) ==
    /\ Outside(core) /\ ~core.disposed
    /\ dev.opens < MaxOpens
    /\ dev.listeners[l].active
    /\ core' = Wakeup(core)
    /\ \E first \in BOOLEAN :
         dev' = [Register(dev, first) EXCEPT !.opens = @ + 1]

(* The collector frees a proxy nothing refers to.  The host device reads   *)
(* the key that routes the call from the pair of the proxy: a pair swept   *)
(* before is no pair any more, and no device is told.                      *)
Drop(c) ==
    /\ core.wasm
    /\ dev.conns[c].cap
    /\ ~InUse(core, ConnKinds, c)
    /\ dev' = IF dev.conns[c].pairFirst
              THEN [dev EXCEPT !.conns[c].cap = FALSE]
              ELSE CheckForgotten([dev EXCEPT !.conns[c].cap = FALSE,
                                              !.conns[c].told = TRUE,
                                              !.conns[c].referenced = FALSE], c)
    /\ UNCHANGED core

Enter ==
    /\ Outside(core) /\ ~core.disposed
    /\ core' = RunLoop(core)
    /\ UNCHANGED dev

Return ==
    /\ core.wasm
    /\ core' = Returned(core)
    /\ UNCHANGED dev

Dispose ==
    /\ Outside(core) /\ ~core.disposed
    /\ core' = [core EXCEPT !.disposed = TRUE]
    /\ dev' = [dev EXCEPT !.conns = [c \in DOMAIN dev.conns |->
                              [dev.conns[c] EXCEPT !.disposals = @ + 1]],
                          !.listeners = [l \in DOMAIN dev.listeners |->
                              [dev.listeners[l] EXCEPT !.active = FALSE]]]

Next ==
    \/ \E r \in Reqs : Ask(r)
    \/ Handle
    \/ Call
    \/ \E r \in Reqs : Complete(r)
    \/ \E l \in DOMAIN dev.listeners : OnOpen(l)
    \/ \E c \in DOMAIN dev.conns : Drop(c)
    \/ Enter
    \/ Return
    \/ Dispose

-----------------------------------------------------------------------------
TypeOK ==
    /\ IsCore(core, Kinds)
    /\ dev.conns \in Seq([cap : BOOLEAN, pairFirst : BOOLEAN, told : BOOLEAN,
                          referenced : BOOLEAN, writing : BOOLEAN,
                          reading : {"undefined", "true", "false"}, disposals : Nat])
    /\ dev.listeners \in Seq([active : BOOLEAN, stub : Int])
    /\ dev.pending \subseteq Reqs /\ dev.leaked \in Nat /\ dev.opens \in 0..MaxOpens

PendingOn(kind, c) ==
    {r \in dev.pending : core.asked[r].kind = kind /\ core.asked[r].on = c}

(* The transport never has two reads, or two writes, of a connection at    *)
(* once, nor one of a connection the device has disposed of.               *)
OneOperation ==
    \A c \in DOMAIN dev.conns, kind \in ConnKinds :
        /\ Cardinality(PendingOn(kind, c)) <= 1
        /\ PendingOn(kind, c) # {} /\ ~core.disposed => dev.conns[c].disposals = 0

(* A connection that was never read from is disposed of, once, when its    *)
(* capability has been dropped, with the device told.                      *)
NeverReadDisposed ==
    \A c \in DOMAIN dev.conns :
        LET conn == dev.conns[c]
        IN  ~core.disposed /\ conn.reading = "undefined" =>
              conn.disposals = IF conn.told THEN 1 ELSE 0

(* tcp_dev.md: the connection is disposed once its capability has been     *)
(* garbage collected and has no pending requests.                          *)
ForgottenDisposed ==
    \A c \in DOMAIN dev.conns : dev.conns[c].told => dev.conns[c].disposals > 0

(* host_dev.md: on_drop_proxy is called whenever a proxy of the device is  *)
(* garbage collected.                                                      *)
DropTold == \A c \in DOMAIN dev.conns : dev.conns[c].cap \/ dev.conns[c].told

(* host_dev.md: a request that is accepted has its event stub released.    *)
(* Every request the device answers has been, and only it.                 *)
AnsweredReleased ==
    \A r \in Reqs :
        /\ core.stub[r] \in {0, 1} /\ core.answers[r] \in {0, 1}
        /\ core.answers[r] = 1 => core.stub[r] = 0
=============================================================================
