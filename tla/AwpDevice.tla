------------------------------ MODULE AwpDevice ------------------------------
(***************************************************************************)
(* The AWP device (vm/js/awp_dev.js) of two parties and the transport      *)
(* between them.  An actor asks its device for an introduction to the      *)
(* other party; the device puts the request in an outbox, opens a          *)
(* connection if there is none, and sends it; the greeter at the other end *)
(* answers with a message to the callback, which comes back over whatever  *)
(* connection there is by then.  Connections fail, are opened from both    *)
(* ends at once, replace one another, and are closed by a party that stops *)
(* listening.                                                              *)
(*                                                                         *)
(* Every party has one store with itself and its peer as acquaintances, so *)
(* it has a single conversation key, and the maps the device indexes by    *)
(* that key are single values here.  The transport is one of the three of  *)
(* the repository: in memory (unordered, with latency), TLS (ordered) and  *)
(* WebRTC (unordered and lossy).                                           *)
(***************************************************************************)
EXTENDS Naturals, Sequences, FiniteSets, SequencesExt

CONSTANTS
    Party,        \* the two parties
    Intros,       \* introduction requests, 1..n, in the order they are made
    Conns,        \* connections that may be opened, 1..n
    Transports,   \* the transports considered, of "memory", "tls", "webrtc"
    Publics,      \* the possible sets of parties that listen at an address
                  \* the other party knows
    MaxFaults,    \* connections that fail by themselves
    MaxStops,     \* times a party stops listening
    None,
    Connecting    \* an attempt whose handshake has not ended

ASSUME AwpAssumption ==
    /\ \E p, q \in Party : p # q /\ Party = {p, q}
    /\ Intros = 1..Cardinality(Intros)
    /\ Conns = 1..Cardinality(Conns)
    /\ Transports \subseteq {"memory", "tls", "webrtc"}
    /\ Publics \subseteq SUBSET Party
    /\ MaxFaults \in Nat /\ MaxStops \in Nat
    /\ {None, Connecting} \cap (Party \cup Conns) = {} /\ None # Connecting

VARIABLES
    transport,    \* the transport of this run
    public,       \* the parties with bind_info whose address is known
    node,         \* [Party -> the state of its device and its core's events]
    conn,         \* [Conns -> a connection of the transport]
    by,           \* [Intros -> the party that asked, or None]
    called,       \* [Intros -> calls of the intro_callback]: history
    got,          \* [Frame -> times it arrived]: history
    faults, stops \* what is left of MaxFaults and MaxStops

vars == <<transport, public, node, conn, by, called, got, faults, stops>>

Peer(p) == CHOOSE q \in Party : q # p

(* A frame without a target is an introduction request, and carries the    *)
(* callback; the reply is addressed to the swiss number of that callback.  *)
Frame == [kind : {"intro", "reply"}, i : Intros]
IntroFrame(i) == [kind |-> "intro", i |-> i]
ReplyFrame(i) == [kind |-> "reply", i |-> i]

(* Events of the core: a request to the greeter, or a message to the       *)
(* once_fwd actor in front of an intro_callback.                           *)
GreeterEvent(i) == [to |-> "greeter", i |-> i]
ForwardEvent(i, ok) == [to |-> "fwd", i |-> i, ok |-> ok]
Event == [to : {"greeter"}, i : Intros] \cup [to : {"fwd"}, i : Intros, ok : BOOLEAN]

NewNode == [connections |-> None, opening |-> FALSE, attempt |-> None,
            outbox |-> <<>>, lost |-> <<>>, stubs |-> {},
            listen |-> FALSE, listeners |-> FALSE, events |-> <<>>, sunk |-> {},
            twice |-> FALSE]   \* history, see CloseAgain

(* An end is "severed" from when its consumer destroys the socket until    *)
(* the socket says that it is closed.                                      *)
NoConn == [init |-> None, down |-> FALSE,
           end |-> [p \in Party |-> "closed"], wire |-> [p \in Party |-> <<>>],
           held |-> [p \in Party |-> 0]]

Init ==
    /\ transport \in Transports
    /\ public \in Publics
    /\ node = [p \in Party |-> NewNode]
    /\ conn = [c \in Conns |-> NoConn]
    /\ by = [i \in Intros |-> None]
    /\ called = [i \in Intros |-> 0]
    /\ got = [f \in Frame |-> 0]
    /\ faults = MaxFaults
    /\ stops = MaxStops

-----------------------------------------------------------------------------
(* The helpers of the device work on the pair of both variables, because   *)
(* sending, connecting and closing reach from a device into the transport. *)

World == [node |-> node, conn |-> conn]
Become(w) == node' = w.node /\ conn' = w.conn

(* Closing an end is silent at that end: its on_close is not called.       *)
CloseEnd(w, c, p) ==
    [w EXCEPT !.conn[c] = [@ EXCEPT !.end[p] = "closed", !.wire[p] = <<>>, !.held[p] = 0]]

(* lose(): one failure event per pending introduction, which the caller    *)
(* may or may not hand to the core.                                        *)
FailureEvents(w, p) ==
    [k \in DOMAIN w.node[p].lost |-> ForwardEvent(w.node[p].lost[k], FALSE)]

Lose(w, p, wakeup) ==
    LET n == w.node[p]
    IN  [w EXCEPT !.node[p] =
            [n EXCEPT !.lost = <<>>,
                      !.events = IF wakeup THEN @ \o FailureEvents(w, p) ELSE @]]

Unregister(w, p, wakeup) ==
    Lose([w EXCEPT !.node[p] = [@ EXCEPT !.outbox = <<>>, !.connections = None]], p, wakeup)

(* flush(): the frames go out on the connection, or wait for the one being *)
(* opened, or a connection is opened.  Without an address the TLS          *)
(* transport fails before connect() returns, and only then is opening set. *)
Send(w, p, c) ==
    IF w.conn[c].end[p] = "open"
    THEN [w EXCEPT !.node[p].outbox = <<>>,
                   !.conn[c].wire[Peer(p)] = @ \o w.node[p].outbox]
    ELSE IF transport = "tls"
    THEN [w EXCEPT !.node[p].outbox = <<>>]     \* written to a dead socket
    ELSE w                                      \* connection.send() throws

(* What throws in connection.send() leaves the function that is deferred,  *)
(* and its outbox as it was.                                               *)
SendThrows(p) ==
    LET c == node[p].connections
    IN  c # None /\ conn[c].end[p] # "open" /\ transport # "tls"

Connect(w, p) ==
    IF transport = "tls" /\ Peer(p) \notin public
    THEN [Lose(w, p, TRUE) EXCEPT !.node[p].opening = TRUE]
    ELSE [w EXCEPT !.node[p] = [@ EXCEPT !.opening = TRUE, !.attempt = Connecting]]

\* Mutant of Flush: the outbox is not emptied once its messages are sent.
FlushKeepsOutbox(w, p) ==
    LET n == w.node[p]
    IN  IF n.outbox = <<>> THEN w
        ELSE IF n.connections # None
        THEN [Send(w, p, n.connections) EXCEPT !.node[p].outbox = n.outbox]
        ELSE IF n.opening THEN w
        ELSE Connect(w, p)

Flush(w, p) ==
    LET n == w.node[p]
    IN  IF n.outbox = <<>> THEN w
        ELSE IF n.connections # None THEN Send(w, p, n.connections)
        ELSE IF n.opening THEN w
        ELSE Connect(w, p)

Enqueue(w, p, f) == Flush([w EXCEPT !.node[p].outbox = Append(@, f)], p)

(* The function in opening: it cancels the attempt, if there is one left.  *)
Cancel(w, p) ==
    LET a == w.node[p].attempt
        w1 == [w EXCEPT !.node[p] = [@ EXCEPT !.opening = FALSE, !.attempt = None]]
    IN  IF a \in Conns THEN CloseEnd(w1, a, p) ELSE w1

\* Mutant of Register: the connection that is replaced is left open.
RegisterLeavesOld(w, p, c) ==
    LET w1 == IF w.node[p].opening THEN Cancel(w, p) ELSE w
        w2 == [w1 EXCEPT !.node[p].connections = c]
    IN  IF w.node[p].connections = None THEN Flush(w2, p) ELSE w2

Register(w, p, c) ==
    LET w1 == IF w.node[p].opening THEN Cancel(w, p) ELSE w
        old == w.node[p].connections
        w2 == [w1 EXCEPT !.node[p].connections = c]
    IN  IF old = None THEN Flush(w2, p) ELSE CloseEnd(w2, old, p)

(* receive(): an introduction needs a greeter, and the connection object   *)
(* to ask for the name of the peer.  The end that connected is given the   *)
(* name instead of the object, and fails with a TypeError.                 *)
Receive(w, p, c, f) ==
    IF f.kind = "intro"
    THEN IF w.node[p].listeners /\ w.conn[c].init # p
         THEN [w EXCEPT !.node[p].events = Append(@, GreeterEvent(f.i))]
         ELSE w
    ELSE IF f.i \in w.node[p].stubs
         THEN [w EXCEPT !.node[p].events = Append(@, ForwardEvent(f.i, TRUE))]
         ELSE w

-----------------------------------------------------------------------------
(* What actors ask of the device.  The callback a request defers runs in   *)
(* the same turn, so that a request is one step.                           *)

(* #intro: the callback is marshalled, which gives it a stub.  The request *)
(* is put in the outbox before its customer is entered in lost: if sending *)
(* throws it stays in the one and never comes to the other.                *)
\* Mutant of Intro: the introduction is not entered in lost.
IntroNotInLost(p, i) ==
    /\ by[i] = None
    /\ \A j \in Intros : j < i => by[j] # None
    /\ by' = [by EXCEPT ![i] = p]
    /\ Become(Enqueue([World EXCEPT !.node[p].stubs = @ \cup {i}], p, IntroFrame(i)))
    /\ UNCHANGED <<transport, public, called, got, faults, stops>>

Intro(p, i) ==
    /\ by[i] = None
    /\ \A j \in Intros : j < i => by[j] # None
    /\ by' = [by EXCEPT ![i] = p]
    /\ LET w == Enqueue([World EXCEPT !.node[p].stubs = @ \cup {i}], p, IntroFrame(i))
       IN  Become(IF SendThrows(p) THEN w ELSE [w EXCEPT !.node[p].lost = Append(@, i)])
    /\ UNCHANGED <<transport, public, called, got, faults, stops>>

(* #listen, and the transport's answer to it.                              *)
Listen(p) ==
    /\ p \in public
    /\ ~node[p].listen /\ ~node[p].listeners
    /\ node' = [node EXCEPT ![p].listen = TRUE]
    /\ UNCHANGED <<transport, public, conn, by, called, got, faults, stops>>

Listening(p) ==
    /\ node[p].listen
    /\ \E ok \in BOOLEAN :
         node' = [node EXCEPT ![p].listen = FALSE, ![p].listeners = ok]
    /\ UNCHANGED <<transport, public, conn, by, called, got, faults, stops>>

(* The stop capability: the transport closes the connections it accepted,  *)
(* without a call of on_close.  A TLS handshake under way is not affected; *)
(* an end that is severed will not report again.                           *)
StopListening(p) ==
    /\ stops > 0
    /\ node[p].listeners
    /\ node' = [node EXCEPT ![p].listeners = FALSE]
    /\ conn' = [c \in Conns |->
          IF \/ conn[c].init # Peer(p)
             \/ transport = "tls" /\ conn[c].end[p] = "ready"
          THEN conn[c]
          ELSE CloseEnd(World, c, p).conn[c]]
    /\ stops' = stops - 1
    /\ UNCHANGED <<transport, public, by, called, got, faults>>

(* The core runs its next event.  The greeter answers the callback through *)
(* its proxy, which the device enqueues; once_fwd passes on its first      *)
(* message only.                                                           *)
Greet(p) ==
    /\ node[p].events # <<>>
    /\ Head(node[p].events).to = "greeter"
    /\ Become(Enqueue([World EXCEPT !.node[p].events = Tail(@)], p,
                      ReplyFrame(Head(node[p].events).i)))
    /\ UNCHANGED <<transport, public, by, called, got, faults, stops>>

\* Mutant of Forward: the actor does not become the sink.
ForwardAll(p) ==
    /\ node[p].events # <<>>
    /\ Head(node[p].events).to = "fwd"
    /\ called' = [called EXCEPT ![Head(node[p].events).i] = @ + 1]
    /\ node' = [node EXCEPT ![p].events = Tail(@)]
    /\ UNCHANGED <<transport, public, conn, by, got, faults, stops>>

Forward(p) ==
    /\ node[p].events # <<>>
    /\ Head(node[p].events).to = "fwd"
    /\ LET i == Head(node[p].events).i
       IN  /\ called' = [called EXCEPT ![i] = IF i \in node[p].sunk THEN @ ELSE @ + 1]
           /\ node' = [node EXCEPT ![p].events = Tail(@), ![p].sunk = @ \cup {i}]
    /\ UNCHANGED <<transport, public, conn, by, got, faults, stops>>

-----------------------------------------------------------------------------
(* What the transport does.                                                *)

Gone(c, p) == conn[c].down \/ conn[c].end[Peer(p)] \in {"severed", "closed"}

(* The handshake succeeds; neither party has been told yet.                *)
Establish(p, c) ==
    /\ node[p].attempt = Connecting
    /\ node[Peer(p)].listeners
    /\ conn[c].init = None
    /\ \A d \in Conns : d < c => conn[d].init # None
    /\ conn' = [conn EXCEPT ![c] = [NoConn EXCEPT !.init = p,
                                                  !.end = [x \in Party |-> "ready"]]]
    /\ node' = [node EXCEPT ![p].attempt = c]
    /\ UNCHANGED <<transport, public, by, called, got, faults, stops>>

(* connected_callback with a connection.                                   *)
Connected(p) ==
    /\ node[p].attempt \in Conns
    /\ LET c == node[p].attempt
       IN  /\ ~Gone(c, p)
           /\ Become(Register([World EXCEPT
                    !.node[p] = [@ EXCEPT !.opening = FALSE, !.attempt = None],
                    !.conn[c].end[p] = "open"], p, c))
    /\ UNCHANGED <<transport, public, by, called, got, faults, stops>>

(* connected_callback without one: the outbox is kept.                     *)
ConnectFailed(p) ==
    /\ \/ node[p].attempt = Connecting
       \/ node[p].attempt \in Conns /\ Gone(node[p].attempt, p)
    /\ LET c == node[p].attempt
           w == [World EXCEPT !.node[p] = [@ EXCEPT !.opening = FALSE, !.attempt = None]]
       IN  Become(Lose(IF c \in Conns THEN CloseEnd(w, c, p) ELSE w, p, TRUE))
    /\ UNCHANGED <<transport, public, by, called, got, faults, stops>>

(* on_open at the listening party, or a handshake that comes to nothing.   *)
OnOpen(p, c) ==
    /\ conn[c].init = Peer(p)
    /\ conn[c].end[p] = "ready"
    /\ IF Gone(c, p)
       THEN Become(CloseEnd(World, c, p))
       ELSE Become(Register([World EXCEPT !.conn[c].end[p] = "open"], p, c))
    /\ UNCHANGED <<transport, public, by, called, got, faults, stops>>

(* on_receive, called with a frame that leaves the wire.  In memory nothing *)
(* arrives once the accepting end has closed.                              *)
OnReceive(p, c, k, held) ==
    LET e == conn[c]
        f == e.wire[p][k]
        w == [World EXCEPT !.conn[c] = [e EXCEPT !.wire[p] = RemoveAt(@, k), !.held[p] = held]]
    IN  /\ got' = [got EXCEPT ![f] = @ + 1]
        /\ Become(Receive(w, p, c, f))
        /\ UNCHANGED <<transport, public, by, called, faults, stops>>

OnFrame(p, c) ==
    /\ transport # "tls"
    /\ conn[c].end[p] = "open"
    /\ transport = "memory" => conn[c].end[Peer(conn[c].init)] = "open"
    /\ \E k \in DOMAIN conn[c].wire[p] : OnReceive(p, c, k, 0)

(* A chunk of the TLS stream, which ends n frames and may begin another.   *)
(* The consumer decodes the first frame of what it has, and keeps the      *)
(* others, whole as they may be, until the next chunk.                     *)
OnData(p, c) ==
    LET held == conn[c].held[p]
        coming == Len(conn[c].wire[p]) - held
    IN  /\ transport = "tls"
        /\ conn[c].end[p] = "open"
        /\ coming > 0
        /\ \E n \in 0..coming :
             /\ held + n > 0
             /\ OnReceive(p, c, 1, held + n - 1)

(* A chunk that ends within the size of the first frame, where this takes  *)
(* several octets: the frame does not decode, with another error than that *)
(* there are too few octets.  The socket is destroyed and on_close called. *)
Sever(p, c) ==
    /\ transport = "tls"
    /\ conn[c].end[p] = "open"
    /\ conn[c].held[p] = 0
    /\ conn[c].wire[p] # <<>>
    /\ LET w == CloseEnd(World, c, p)
       IN  Become(Unregister([w EXCEPT !.conn[c].end[p] = "severed"], p, conn[c].init = p))
    /\ UNCHANGED <<transport, public, by, called, got, faults, stops>>

(* The socket is closed: as destroyed was not set, on_close is called for  *)
(* the second time, and unregisters what is registered by now.             *)
CloseAgain(p, c) ==
    /\ transport = "tls"
    /\ conn[c].end[p] = "severed"
    /\ LET w == [World EXCEPT !.node[p].twice = @ \/ node[p].connections # None]
       IN  Become(Unregister(CloseEnd(w, c, p), p, conn[c].init = p))
    /\ UNCHANGED <<transport, public, by, called, got, faults, stops>>

LoseFrame(p, c) ==
    /\ transport = "webrtc"
    /\ \E k \in DOMAIN conn[c].wire[p] :
         conn' = [conn EXCEPT ![c].wire[p] = RemoveAt(@, k)]
    /\ UNCHANGED <<transport, public, node, by, called, got, faults, stops>>

Fault(c) ==
    /\ faults > 0
    /\ ~conn[c].down
    /\ \E p \in Party : conn[c].end[p] # "closed"
    /\ conn' = [conn EXCEPT ![c].down = TRUE]
    /\ faults' = faults - 1
    /\ UNCHANGED <<transport, public, node, by, called, got, stops>>

(* on_close, at an end that did not close the connection itself.  The      *)
(* connecting party hands the failure events to the core; the listening    *)
(* party only returns them.                                                *)
\* Mutant of OnClose: the connecting party does not wake the core either.
OnCloseSilent(p, c) ==
    /\ conn[c].end[p] = "open"
    /\ Gone(c, p)
    /\ Become(Unregister(CloseEnd(World, c, p), p, FALSE))
    /\ UNCHANGED <<transport, public, by, called, got, faults, stops>>

OnClose(p, c) ==
    /\ conn[c].end[p] = "open"
    /\ Gone(c, p)
    /\ Become(Unregister(CloseEnd(World, c, p), p, conn[c].init = p))
    /\ UNCHANGED <<transport, public, by, called, got, faults, stops>>

(* The connection state of WebRTC becomes "failed" before the channel says *)
(* that it is closed: on_close is taken away and the connection destroyed, *)
(* and the device goes on with a connection that is dead.                  *)
FailSilently(p, c) ==
    /\ transport = "webrtc"
    /\ conn[c].end[p] = "open"
    /\ Gone(c, p)
    /\ Become(CloseEnd(World, c, p))
    /\ UNCHANGED <<transport, public, by, called, got, faults, stops>>

Next ==
    \/ \E p \in Party :
         \/ \E i \in Intros : Intro(p, i)
         \/ Listen(p)
         \/ Listening(p)
         \/ StopListening(p)
         \/ Greet(p)
         \/ Forward(p)
         \/ \E c \in Conns : Establish(p, c)
         \/ Connected(p)
         \/ ConnectFailed(p)
         \/ \E c \in Conns : OnOpen(p, c)
         \/ \E c \in Conns : OnFrame(p, c)
         \/ \E c \in Conns : OnData(p, c)
         \/ \E c \in Conns : Sever(p, c)
         \/ \E c \in Conns : CloseAgain(p, c)
         \/ \E c \in Conns : LoseFrame(p, c)
         \/ \E c \in Conns : OnClose(p, c)
         \/ \E c \in Conns : FailSilently(p, c)
    \/ \E c \in Conns : Fault(c)

Spec == Init /\ [][Next]_vars

(* The core runs its events, and the transport ends what it has begun: it  *)
(* answers a connect request, opens both ends, delivers what is in flight  *)
(* on a connection that stays up, and reports a connection that is gone,   *)
(* or lets it fail where it does not report it.                            *)
Fairness ==
    \A p \in Party :
      /\ WF_vars(Greet(p))
      /\ WF_vars(Forward(p))
      /\ WF_vars(Connected(p))
      /\ WF_vars(ConnectFailed(p))
      /\ \A c \in Conns :
           /\ WF_vars(OnOpen(p, c))
           /\ WF_vars(OnFrame(p, c))
           /\ WF_vars(OnData(p, c))
           /\ WF_vars(CloseAgain(p, c))
           /\ WF_vars(OnClose(p, c) \/ FailSilently(p, c))

FairSpec == Spec /\ Fairness

-----------------------------------------------------------------------------
(* Properties.                                                             *)

TypeOK ==
    /\ transport \in Transports
    /\ public \in Publics
    /\ node \in [Party -> [connections : Conns \cup {None}, opening : BOOLEAN,
                           attempt : Conns \cup {None, Connecting},
                           outbox : Seq(Frame), lost : Seq(Intros),
                           stubs : SUBSET Intros,
                           listen : BOOLEAN, listeners : BOOLEAN,
                           events : Seq(Event), sunk : SUBSET Intros,
                           twice : BOOLEAN]]
    /\ conn \in [Conns -> [init : Party \cup {None}, down : BOOLEAN,
                           end : [Party -> {"ready", "open", "severed", "closed"}],
                           wire : [Party -> Seq(Frame)], held : [Party -> Nat]]]
    /\ by \in [Intros -> Party \cup {None}]
    /\ called \in [Intros -> Nat]
    /\ got \in [Frame -> Nat]
    /\ faults \in 0..MaxFaults
    /\ stops \in 0..MaxStops

(* Of the connections a party was told about and has neither closed nor    *)
(* been told the loss of, there is one at most and it is the registered    *)
(* one: register() closes what it replaces (awp_dev.js:443-453), so that   *)
(* the first on_close of a connection never unregisters another one.  Only *)
(* the second on_close of a TLS connection that was severed does, and a    *)
(* party is held to this until it had one.                                 *)
OneLiveConnection ==
    \A p \in Party, c \in Conns :
        conn[c].end[p] = "open" => node[p].connections = c \/ node[p].twice

(* awp_dev.md:55-56: "Once closed or cancelled, the `on_receive`, and      *)
(* `on_close` functions are not called again."  The device has heard that  *)
(* a severed connection is closed, so when its socket closes the outbox    *)
(* and the connection that are there by then stay.                         *)
ClosedOnce ==
    [][\A p \in Party, c \in Conns :
         conn[c].end[p] = "severed" /\ conn'[c].end[p] = "closed"
             => /\ node'[p].connections = node[p].connections
                /\ node'[p].outbox = node[p].outbox]_vars

(* However connections come and go, no frame arrives twice: a message      *)
(* leaves the outbox when it is sent (awp_dev.js:356-363).                 *)
AtMostOnce == \A f \in Frame : got[f] <= 1

(* An introduction may be reported lost and still be answered later, since *)
(* its message may stay in the outbox; its callback is called once all the *)
(* same (once_fwd, awp_dev.js:40-58).                                      *)
CallbackOnce == \A i \in Intros : called[i] <= 1

(* lose(), awp_dev.js:271: an introduction that is no longer waited for    *)
(* has been answered, or the answer is among the events of the core.       *)
Informed(i) ==
    LET n == node[by[i]]
    IN  \/ called[i] > 0
        \/ \E k \in DOMAIN n.lost : n.lost[k] = i
        \/ \E k \in DOMAIN n.events : n.events[k].to = "fwd" /\ n.events[k].i = i

InformedOfLoss == \A i \in Intros : by[i] # None => Informed(i)

(* A request that could not be sent, since sending threw, on a WebRTC      *)
(* connection that failed without the device being told: it is in the      *)
(* outbox as long as that connection is registered (awp_dev.js:359).       *)
Unsent(i) ==
    LET n == node[by[i]]
    IN  /\ transport = "webrtc"
        /\ n.connections # None /\ conn[n.connections].end[by[i]] = "closed"
        /\ IntroFrame(i) \in ToSet(n.outbox)

(* An introduction asked for by a party that only connects, and never      *)
(* accepts, is informed as above, or is one of those that could not be     *)
(* sent: no other is forgotten.  A party that accepts is not told of a     *)
(* loss (awp_dev.js:668), see InformedOfLoss.                              *)
DialerInformed ==
    \A i \in Intros : by[i] \in Party \ public => Informed(i) \/ Unsent(i)

(* awp_dev.md:48-49: on_close is "called when the connection closes", so   *)
(* that the device has no connection registered that is closed at its own  *)
(* end, unless it closed that end itself by no longer listening.           *)
CloseReported ==
    \A p \in Party : LET c == node[p].connections
                      IN  c # None /\ conn[c].init = p => conn[c].end[p] # "closed"

(* awp.md:16-17: a message without a swiss number that arrives where a     *)
(* greeter is registered is forwarded to the greeter.                      *)
GreeterReached ==
    [][\A i \in Intros :
         LET q == Peer(by[i])
         IN  got'[IntroFrame(i)] > got[IntroFrame(i)] /\ node[q].listeners
             => Contains(node'[q].events, GreeterEvent(i))]_vars

(* An introduction asked for by a party that only connects is answered, by *)
(* the greeter or with a failure, as long as the other party keeps its     *)
(* greeter once it has one.  This needs a transport that hands over every  *)
(* frame of a connection that stays up; of the three only the transport in *)
(* memory does, even with connections failing.                             *)
DialerAnswered ==
    \A i \in Intros :
        (by[i] \in Party \ public /\ transport = "memory")
            ~> (called[i] > 0 \/ ~node[Peer(by[i])].listeners \/ stops < MaxStops)

(* awp_dev.md:30-31: on_receive is called for each frame that arrives over *)
(* the connection.                                                         *)
ArrivedFrameHandled ==
    \A p \in Party, c \in Conns : conn[c].held[p] > 0 ~> conn[c].held[p] = 0
=============================================================================
