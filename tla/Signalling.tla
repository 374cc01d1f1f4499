------------------------------- MODULE Signalling -------------------------------
(***************************************************************************)
(* How two WebRTC transports find each other: the connecting and listening *)
(* sides of vm/js/webrtc_transport.js, the signaller they use              *)
(* (websockets_signaller.js) and the server between them                   *)
(* (websockets_signalling_server.js).  All listeners have the name that    *)
(* the callers ask for.  A signal is an offer, an answer or an ICE         *)
(* candidate; each side of a session gathers one candidate.                *)
(***************************************************************************)
EXTENDS Integers, Sequences, FiniteSets

CONSTANTS
    Callers,        \* one connect_requestor each, which is one session
    Listeners,      \* one listen_requestor each
    Stayers,        \* the listeners that are never stopped
    Lossy,          \* whether sockets fail after they have opened
    None

Sockets == Callers \cup Listeners

VARIABLES
    sock,           \* "none", "opening", "requested", "accepted", "open", "closing", "closed"
    registered,     \* the members of `sockets` on the server
    undelivered,    \* as on the server: [to, from, sig]
    up, down,       \* what a socket carries to and from the server
    call,           \* "idle", "signalling", "connector", "open", "failed", "cancelled"
    backlog,        \* of a caller's candidate: "none", "kept" (candidates), "sent"
    answers,        \* the answers peer.setRemoteDescription is working on
    remote,         \* peer.remoteDescription of a caller: whose answer it is
    peer,           \* peers[session]: "none", "new", "answered", "connected", "destroyed"
    checking        \* the <<l, c>> whose peer at l has had a candidate of c

server == <<registered, undelivered>>
wires == <<up, down>>
caller == <<call, backlog, answers, remote>>
listener == <<peer, checking>>
vars == <<sock, server, wires, caller, listener>>

Init ==
    /\ sock = [s \in Sockets |-> "none"] /\ registered = {} /\ undelivered = <<>>
    /\ up = [s \in Sockets |-> <<>>] /\ down = [s \in Sockets |-> <<>>]
    /\ call = [c \in Callers |-> "idle"] /\ backlog = [c \in Callers |-> "none"]
    /\ answers = [c \in Callers |-> <<>>] /\ remote = [c \in Callers |-> None]
    /\ peer = [l \in Listeners |-> [c \in Callers |-> "none"]] /\ checking = {}

Signal(kind, c, l) == [kind |-> kind, session |-> c, from |-> l]
Become(s, state) == sock' = [sock EXCEPT ![s] = state]
Close(s) == IF sock[s] \in {"none", "closed"} THEN UNCHANGED sock ELSE Become(s, "closing")
Send(s, sigs) ==
    up' = IF sock[s] = "open" THEN [up EXCEPT ![s] = @ \o sigs] ELSE up

-----------------------------------------------------------------------------
(* The server.  A socket that the other end has closed may be taken for an *)
(* open one until its onclose is called: what is sent to it is lost.       *)
Group(id) == IF id \in Callers THEN {id} ELSE Listeners

Deliver(id, from, sig, reg) ==
    \E taken \in SUBSET {s \in Group(id) \cap reg : sock[s] = "closing"} :
        LET live == {s \in Group(id) \cap reg : sock[s] \in {"accepted", "open"}}
        IN  /\ down' = [s \in Sockets |-> IF s \in live THEN Append(down[s], sig) ELSE down[s]]
            /\ undelivered' = IF live \cup taken = {}
                              THEN Append(undelivered, [to |-> Group(id), from |-> from, sig |-> sig])
                              ELSE undelivered

(* The request of a caller carries its offer: it is registered, so that    *)
(* answers to it are kept, and the offer is delivered.                     *)
Request(c) ==
    /\ sock[c] = "opening"
    /\ Become(c, "requested")
    /\ registered' = registered \cup {c}
    /\ Deliver(None, c, Signal("offer", c, None), registered')
    /\ UNCHANGED <<up, caller, listener>>

Sigs(entries) == [i \in DOMAIN entries |-> entries[i].sig]

(* Mutant of Accept: onopen does not register the socket a second time.    *)
AcceptOnly(s) ==
    /\ sock[s] = "requested"
    /\ Become(s, "accepted")
    /\ registered' = registered \cup {s}
    /\ UNCHANGED <<undelivered, up, down, caller, listener>>

(* socket.onopen: register, which sends what was kept for the socket.      *)
Accept(s) ==
    /\ sock[s] = "requested"
    /\ Become(s, "accepted")
    /\ registered' = registered \cup {s}
    /\ LET mine(e) == s \in e.to
           others(e) == s \notin e.to
       IN  /\ down' = [down EXCEPT ![s] = @ \o Sigs(SelectSeq(undelivered, mine))]
           /\ undelivered' = SelectSeq(undelivered, others)
    /\ UNCHANGED <<up, caller, listener>>

(* socket.onmessage; a signal to a session that has ended is ignored.      *)
Forward(s) ==
    /\ up[s] # <<>>
    /\ up' = [up EXCEPT ![s] = Tail(@)]
    /\ LET sig == Head(up[s]) IN
       IF s \in Callers THEN Deliver(None, s, sig, registered)
       ELSE IF sig.session \in registered THEN Deliver(sig.session, s, sig, registered)
       ELSE UNCHANGED <<undelivered, down>>
    /\ UNCHANGED <<sock, registered, caller, listener>>

(* socket.onclose: unregister, and forget what it had sent.                *)
OnClose(s) ==
    /\ sock[s] = "closing" /\ up[s] = <<>>
    /\ Become(s, "closed")
    /\ registered' = registered \ {s}
    /\ LET kept(e) == e.from # s IN undelivered' = SelectSeq(undelivered, kept)
    /\ down' = [down EXCEPT ![s] = <<>>]
    /\ UNCHANGED <<up, caller, listener>>

-----------------------------------------------------------------------------
(* The connecting side.                                                    *)
Pending(c) == call[c] \in {"signalling", "connector"}
Ends(c, how) ==         \* destroy, and resolve unless the call is cancelled
    /\ call' = [call EXCEPT ![c] = how]
    /\ answers' = [answers EXCEPT ![c] = <<>>]
    /\ Close(c)

Call(c) ==
    /\ call[c] = "idle"
    /\ call' = [call EXCEPT ![c] = "signalling"]
    /\ Become(c, "opening")
    /\ UNCHANGED <<server, wires, backlog, answers, remote, listener>>

Candidate(c) == Signal("candidate", c, None)

Gather(c) ==            \* peer.onicecandidate
    /\ Pending(c) /\ backlog[c] = "none"
    /\ IF call[c] = "connector"
       THEN Send(c, <<Candidate(c)>>) /\ backlog' = [backlog EXCEPT ![c] = "sent"]
       ELSE UNCHANGED up /\ backlog' = [backlog EXCEPT ![c] = "kept"]
    /\ UNCHANGED <<sock, server, down, call, answers, remote, listener>>

(* onopen in the browser: the signaller's connection is the connector, and *)
(* the candidates that were kept are sent.                                 *)
Opened(c) ==
    /\ sock[c] = "accepted" /\ Become(c, "open")
    /\ call' = [call EXCEPT ![c] = "connector"]
    /\ up' = IF backlog[c] = "kept" THEN [up EXCEPT ![c] = Append(@, Candidate(c))] ELSE up
    /\ backlog' = [backlog EXCEPT ![c] = IF @ = "kept" THEN "sent" ELSE @]
    /\ UNCHANGED <<server, down, answers, remote, listener>>

(* on_receive_signal: whether an answer is a duplicate is decided by the   *)
(* remote description, which an earlier answer may still be setting.       *)
Answered(c) ==
    /\ sock[c] = "open" /\ down[c] # <<>>
    /\ down' = [down EXCEPT ![c] = Tail(@)]
    /\ LET sig == Head(down[c]) IN
       answers' = IF sig.kind = "answer" /\ remote[c] = None
                  THEN [answers EXCEPT ![c] = Append(@, sig.from)] ELSE answers
    /\ UNCHANGED <<sock, server, up, call, backlog, remote, listener>>

SetRemote(c) ==         \* a second answer is refused: the call fails
    /\ Pending(c) /\ answers[c] # <<>>
    /\ IF remote[c] = None
       THEN /\ remote' = [remote EXCEPT ![c] = Head(answers[c])]
            /\ answers' = [answers EXCEPT ![c] = Tail(@)]
            /\ UNCHANGED <<sock, call>>
       ELSE Ends(c, "failed") /\ UNCHANGED remote
    /\ UNCHANGED <<server, wires, backlog, listener>>

ChannelOpens(c) ==      \* channel.onopen: the signaller is not needed any more
    /\ call[c] = "connector" /\ remote[c] # None /\ answers[c] = <<>>
    /\ peer[remote[c]][c] = "connected"
    /\ Ends(c, "open")
    /\ UNCHANGED <<server, wires, backlog, remote, listener>>

IceFails(c) ==          \* connectionState "failed"
    /\ Pending(c) /\ remote[c] # None
    /\ peer[remote[c]][c] = "destroyed"
    /\ Ends(c, "failed")
    /\ UNCHANGED <<server, wires, backlog, remote, listener>>

(* cancel: the signalling is cancelled, or everything destroyed.           *)
Cancel(c) ==
    /\ Pending(c)
    /\ Ends(c, "cancelled")
    /\ UNCHANGED <<server, wires, backlog, remote, listener>>

(* The signalling server goes away.  A caller hears of it while its socket *)
(* opens; afterwards the signaller has nobody to tell.                     *)
SocketFails(s) ==
    /\ sock[s] \in {"opening", "requested", "accepted", "open"}
    /\ \/ /\ s \in Callers /\ call[s] = "signalling" /\ Ends(s, "failed")
       \/ /\ Lossy /\ sock[s] = "open" /\ Become(s, "closing") /\ UNCHANGED <<call, answers>>
    /\ UNCHANGED <<server, wires, backlog, remote, listener>>

-----------------------------------------------------------------------------
(* The listening side.                                                     *)
Active(l, c) == peer[l][c] \in {"new", "answered", "connected"}
Peer(l, c, state) == peer' = [peer EXCEPT ![l][c] = state]

Listen(l) ==
    /\ sock[l] = "none" /\ Become(l, "requested")
    /\ UNCHANGED <<server, wires, caller, listener>>

Listening(l) ==
    /\ sock[l] = "accepted" /\ Become(l, "open")
    /\ UNCHANGED <<server, wires, caller, listener>>

(* on_receive_signal: an offer makes a peer, a candidate is for one.       *)
Receive(l) ==
    /\ sock[l] = "open" /\ down[l] # <<>>
    /\ down' = [down EXCEPT ![l] = Tail(@)]
    /\ LET sig == Head(down[l])
           c == sig.session
       IN  \/ sig.kind = "offer" /\ ~Active(l, c) /\ Peer(l, c, "new") /\ UNCHANGED checking
           \/ sig.kind = "offer" /\ Active(l, c) /\ UNCHANGED listener
           \/ sig.kind = "candidate" /\ UNCHANGED peer
              /\ checking' = IF Active(l, c) THEN checking \cup {<<l, c>>} ELSE checking
    /\ UNCHANGED <<sock, server, up, caller>>

Answer(l, c) ==         \* with the candidate of this side
    /\ peer[l][c] = "new" /\ Peer(l, c, "answered")
    /\ Send(l, <<Signal("answer", c, l), Signal("candidate", c, l)>>)
    /\ UNCHANGED <<sock, server, down, caller, checking>>

(* connectionState is "new" after ice_time_limit, which is longer than an  *)
(* answer takes.                                                           *)
IceTimesOut(l, c) ==
    /\ peer[l][c] = "answered" /\ <<l, c>> \notin checking
    /\ Peer(l, c, "destroyed")
    /\ UNCHANGED <<sock, server, wires, caller, checking>>

PeerConnects(l, c) ==
    /\ peer[l][c] = "answered" /\ <<l, c>> \in checking
    /\ call[c] = "connector" /\ remote[c] = l
    /\ Peer(l, c, "connected")
    /\ UNCHANGED <<sock, server, wires, caller, checking>>

(* The other side has gone, or took the answer of another listener.        *)
PeerFails(l, c) ==
    /\ peer[l][c] \in {"answered", "connected"} /\ <<l, c>> \in checking
    /\ call[c] \in {"failed", "cancelled"} \/ remote[c] \notin {l, None}
    /\ Peer(l, c, "destroyed")
    /\ UNCHANGED <<sock, server, wires, caller, checking>>

Stop(l) ==
    /\ l \notin Stayers /\ sock[l] = "open"
    /\ peer' = [peer EXCEPT ![l] = [c \in Callers |-> IF Active(l, c) THEN "destroyed" ELSE @[c]]]
    /\ Close(l)
    /\ UNCHANGED <<server, wires, caller, checking>>

-----------------------------------------------------------------------------
Works(s) == Accept(s) \/ Forward(s) \/ OnClose(s)
Calls(c) == Request(c) \/ Gather(c) \/ Opened(c) \/ Answered(c) \/ SetRemote(c)
            \/ ChannelOpens(c) \/ IceFails(c)
Meets(l, c) == Answer(l, c) \/ IceTimesOut(l, c) \/ PeerConnects(l, c) \/ PeerFails(l, c)

Next ==
    \/ \E s \in Sockets : Works(s) \/ SocketFails(s)
    \/ \E c \in Callers : Calls(c) \/ Call(c) \/ Cancel(c)
    \/ \E l \in Listeners : Listen(l) \/ Listening(l) \/ Receive(l) \/ Stop(l)
    \/ \E l \in Listeners, c \in Callers : Meets(l, c)

(* Events come, messages arrive, timers fire and listeners come up; nobody *)
(* has to call, cancel, or stop.                                           *)
FairSpec ==
    /\ Init /\ [][Next]_vars
    /\ \A s \in Sockets : WF_vars(Accept(s)) /\ WF_vars(Forward(s)) /\ WF_vars(OnClose(s))
    /\ \A c \in Callers : WF_vars(Calls(c))
    /\ \A l \in Listeners : WF_vars(Listen(l)) /\ WF_vars(Listening(l)) /\ WF_vars(Receive(l))
    /\ \A l \in Listeners, c \in Callers : WF_vars(Meets(l, c))

-----------------------------------------------------------------------------
(* Every call ends: it opens, fails or is cancelled.  A call made while a  *)
(* listener that stays is listening always does; one made earlier too,     *)
(* unless a listener that took its signals has stopped.  And no listener   *)
(* keeps a peer of a call that is not open with it.                        *)
Settled(c) == ~Pending(c)
Settles ==
    /\ \A c \in Callers, l \in Stayers :
          (sock[c] = "opening" /\ sock[l] = "open") ~> Settled(c)
    /\ \A c \in Callers :
          Pending(c) ~> (Settled(c) \/ \E l \in Listeners : sock[l] \in {"closing", "closed"})
    /\ \A c \in Callers, l \in Listeners :
          Active(l, c) ~> (~Active(l, c) \/ (call[c] = "open" /\ remote[c] = l))

(* Violated if Lossy: a call whose socket fails after it has opened ends   *)
(* all the same ("Requestors are required to report their failure thru the *)
(* callback.", parseq.js:181).  resolve() of websockets_signaller.js has   *)
(* unset the callback when the socket opened, and nobody else is told.     *)
LossSettles ==
    \A c \in Callers :
        (call[c] = "connector" /\ sock[c] \in {"closing", "closed"}) ~> Settled(c)

(* Violated with two listeners: a second answer of the same name is meant  *)
(* to be ignored ("duplicate answer").                                     *)
SecondAnswerHarmless ==
    [][\A c \in Callers : call[c] = "connector" /\ call'[c] = "failed" => answers[c] = <<>>]_vars
=============================================================================
