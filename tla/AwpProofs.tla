------------------------------ MODULE AwpProofs ------------------------------
(***************************************************************************)
(* Theorems about the AWP device, for any number of introductions and      *)
(* connections, over any of its transports, however often connections fail *)
(* and listeners stop.                                                     *)
(***************************************************************************)
EXTENDS AwpDevice, SequenceFacts

(* The state of a device, of a connection, and of both of them.            *)
NodeType ==
  [connections : Conns \cup {None}, opening : BOOLEAN,
   attempt : Conns \cup {None, Connecting}, outbox : Seq(Frame), lost : Seq(Intros),
   stubs : SUBSET Intros, listen : BOOLEAN, listeners : BOOLEAN,
   events : Seq(Event), sunk : SUBSET Intros, twice : BOOLEAN]
EndType == {"ready", "open", "severed", "closed"}
ConnType ==
  [init : Party \cup {None}, down : BOOLEAN, end : [Party -> EndType],
   wire : [Party -> Seq(Frame)], held : [Party -> Nat]]
WorldType == [node : [Party -> NodeType], conn : [Conns -> ConnType]]

(***************************************************************************)
(* The invariant, in terms of the pair w of both variables where a helper  *)
(* of the device has to keep it.                                           *)
(***************************************************************************)

(* The only connection open at a party is the registered one, until a      *)
(* connection that was severed reports for the second time.                *)
Live(w) ==
  \A p \in Party, c \in Conns :
    w.conn[c].end[p] = "open" => w.node[p].connections = c \/ w.node[p].twice

(* The frames on their way: in the outbox of a party, where there is no    *)
(* connection, and on the wire of a connection to it.                      *)
Box(w, c, p) == IF c = None THEN w.node[p].outbox ELSE w.conn[c].wire[p]
Place == Conns \cup {None}
Apart(w) ==
  \A c, d \in Place, p, q \in Party :
    \A k \in DOMAIN Box(w, c, p), l \in DOMAIN Box(w, d, q) :
      Box(w, c, p)[k] = Box(w, d, q)[l] => c = d /\ p = q /\ k = l
Within(w, f) == \E c \in Place, p \in Party : f \in ToSet(Box(w, c, p))

(* The greeter is asked once for an introduction.                          *)
Single(N) ==
  \A p, q \in Party : \A k \in DOMAIN N[p].events, l \in DOMAIN N[q].events :
    N[p].events[k] = N[q].events[l] /\ N[p].events[k].to = "greeter" => p = q /\ k = l

(* An introduction is sent, arrives and is answered, in this order.        *)
Course ==
  /\ \A f \in Frame : got[f] <= 1 /\ (Within(World, f) => got[f] = 0)
  /\ \A i \in Intros :
       /\ by[i] = None => ~Within(World, IntroFrame(i)) /\ got[IntroFrame(i)] = 0
       /\ got[IntroFrame(i)] = 0 =>
            /\ ~Within(World, ReplyFrame(i)) /\ got[ReplyFrame(i)] = 0
            /\ \A p \in Party : GreeterEvent(i) \notin ToSet(node[p].events)
       /\ \A p \in Party : GreeterEvent(i) \in ToSet(node[p].events) =>
            ~Within(World, ReplyFrame(i)) /\ got[ReplyFrame(i)] = 0
  /\ Single(node)

(* What a party waits for: to be told of a loss, or an event to happen.    *)
Forwarded(n) == {e.i : e \in {e \in ToSet(n.events) : e.to = "fwd"}}
Waits(n) == ToSet(n.lost) \cup Forwarded(n)

(* The callback of an introduction belongs to the party that asked for it, *)
(* and once_fwd is a sink once it was called.                              *)
Callbacks ==
  /\ \A p \in Party : \A i \in Waits(node[p]) \cup node[p].stubs : by[i] = p
  /\ \A i \in Intros : called[i] <= 1 /\ (called[i] > 0 => by[i] \in Party /\ i \in node[by[i]].sunk)
  /\ \A p \in Party : \A i \in node[p].sunk : called[i] > 0

(* A party that does not listen accepts no connection.                     *)
Dialers ==
  /\ \A p \in Party : node[p].listen \/ node[p].listeners => p \in public
  /\ \A c \in Conns :
       /\ conn[c].init \in Party => Peer(conn[c].init) \in public
       /\ conn[c].init = None => \A p \in Party : conn[c].end[p] = "closed"

(* What a dialer was told of, or waits for, stays so.                      *)
Told(i) == called[i] > 0 \/ i \in Waits(node[by[i]])
Kept == \A i \in Intros : by[i] \in Party \ public /\ Told(i) => Told(i)'

AwpInv == TypeOK /\ Live(World) /\ Apart(World) /\ Course /\ Callbacks /\ Dialers

-----------------------------------------------------------------------------
(* Parties and sequences *)

(* Of two parties each is the peer of the other.                           *)
LEMMA Peers ==
  /\ \A p \in Party : Peer(p) \in Party /\ Peer(p) # p /\ Peer(Peer(p)) = p
  /\ \A p, q \in Party : q # p => q = Peer(p)
<1>1. PICK a, b \in Party : a # b /\ Party = {a, b}
  BY AwpAssumption
<1>2. ASSUME NEW p \in Party PROVE Peer(p) \in Party /\ Peer(p) # p
  BY <1>1 DEF Peer
<1>3. \A p, q \in Party : q # p => q = Peer(p)
  BY <1>1, <1>2
<1> QED BY <1>2, <1>3

(* None is neither a party nor a connection, and both differ from the      *)
(* attempt that goes on.                                                   *)
LEMMA Marks == None \notin Party /\ None \notin Conns /\ Connecting \notin Conns /\ None # Connecting
BY AwpAssumption

-----------------------------------------------------------------------------
(***************************************************************************)
(* What the helpers of the device have in common: from a world w they make *)
(* a world x in which no frame is new and none is doubled (Thins), ends    *)
(* may be closed but not opened (Ends), and a party waits for no more      *)
(* introductions (Carries), and mostly for no fewer (Tells).               *)
(***************************************************************************)
Thins(w, x) ==
  /\ Apart(w) => Apart(x)
  /\ \A f \in Frame : Within(x, f) => Within(w, f)
Ends(w, x) ==
  \A c \in Conns :
    /\ x.conn[c].init = w.conn[c].init
    /\ \A p \in Party : x.conn[c].end[p] \in {w.conn[c].end[p], "closed"}
Holds(n, m) ==
  /\ m.stubs = n.stubs /\ m.sunk = n.sunk /\ (n.twice => m.twice)
  /\ Waits(m) \subseteq Waits(n)
  /\ \A k \in DOMAIN m.events :
       m.events[k].to = "greeter" => k \in DOMAIN n.events /\ m.events[k] = n.events[k]
Carries(n, m) == Holds(n, m) /\ m.listen = n.listen /\ m.listeners = n.listeners
Tame(w, x) ==
  /\ x \in WorldType
  /\ Thins(w, x) /\ Ends(w, x)
  /\ \A p \in Party : Carries(w.node[p], x.node[p])
Tells(w, x) == \A p \in Party : Waits(w.node[p]) \subseteq Waits(x.node[p])
Stays(w, x) == \A p \in Party : x.node[p].connections = w.node[p].connections

(* No step at all is tame.                                                 *)
LEMMA TameItself == ASSUME NEW w \in WorldType PROVE Tame(w, w) /\ Tells(w, w) /\ Stays(w, w)
BY DEF Tame, Thins, Ends, Carries, Holds, Tells, Stays

(* These are kept by one helper after the other.                           *)
LEMMA TameTwice ==
  ASSUME NEW w, NEW x, NEW y, Tame(w, x), Tame(x, y)
  PROVE  /\ Tame(w, y)
         /\ Tells(w, x) /\ Tells(x, y) => Tells(w, y)
         /\ Stays(w, x) /\ Stays(x, y) => Stays(w, y)
<1>1. Thins(w, y)
  BY DEF Tame, Thins
<1>2. Ends(w, y)
  BY DEF Tame, Ends
<1>3. ASSUME NEW p \in Party PROVE Carries(w.node[p], y.node[p])
  <2>1. Carries(w.node[p], x.node[p]) /\ Carries(x.node[p], y.node[p])
    BY DEF Tame
  <2> QED BY <2>1 DEF Carries, Holds
<1> QED BY <1>1, <1>2, <1>3 DEF Tame, Tells, Stays

(* While the only open ends stay registered, closing some changes nothing. *)
LEMMA LiveStays ==
  ASSUME NEW w, NEW x, Live(w), Tame(w, x), Stays(w, x)
  PROVE  Live(x)
BY DEF Live, Tame, Ends, Stays, Carries, Holds

(* What a world is made of.                                                *)
LEMMA WorldParts ==
  ASSUME NEW w \in WorldType
  PROVE  /\ \A p \in Party : w.node[p] \in NodeType
         /\ \A c \in Conns : w.conn[c] \in ConnType
         /\ \A c \in Place, p \in Party : Box(w, c, p) \in Seq(Frame)
BY Marks DEF WorldType, NodeType, ConnType, Box, Place

SetNode(w, p, n) == [w EXCEPT !.node[p] = n]
SetConn(w, c, k) == [w EXCEPT !.conn[c] = k]

(* A device changes its own state only.                                    *)
LEMMA NodeChanged ==
  ASSUME NEW w \in WorldType, NEW p \in Party, NEW n \in NodeType
  PROVE  LET x == SetNode(w, p, n)
         IN  /\ x \in WorldType /\ x.conn = w.conn /\ x.node[p] = n
             /\ \A q \in Party : q # p => x.node[q] = w.node[q]
             /\ \A c \in Place, q \in Party :
                  Box(x, c, q) = IF c = None /\ q = p THEN n.outbox ELSE Box(w, c, q)
BY Marks DEF WorldType, Box, Place, SetNode

(* So does a connection.                                                   *)
LEMMA ConnChanged ==
  ASSUME NEW w \in WorldType, NEW c \in Conns, NEW k \in ConnType
  PROVE  LET x == SetConn(w, c, k)
         IN  /\ x \in WorldType /\ x.node = w.node /\ x.conn[c] = k
             /\ \A d \in Conns : d # c => x.conn[d] = w.conn[d]
             /\ \A d \in Place, q \in Party :
                  Box(x, d, q) = IF d = c THEN k.wire[q] ELSE Box(w, d, q)
BY Marks DEF WorldType, Box, Place, SetConn

(* No frame is new or doubled where boxes are as they were, or empty.      *)
LEMMA ThinBoxes ==
  ASSUME NEW w, NEW x,
         \A c \in Place, p \in Party : Box(x, c, p) \in {Box(w, c, p), <<>>}
  PROVE  Thins(w, x)
<1>1. \A c \in Place, p \in Party : \A k \in DOMAIN Box(x, c, p) :
        k \in DOMAIN Box(w, c, p) /\ Box(x, c, p)[k] = Box(w, c, p)[k]
  OBVIOUS
<1>2. Apart(w) => Apart(x)
  BY <1>1 DEF Apart
<1>3. \A f \in Frame : Within(x, f) => Within(w, f)
  BY <1>1 DEF Within, ToSet
<1> QED BY <1>2, <1>3 DEF Thins

-----------------------------------------------------------------------------
(* The helpers of the device *)

(* CloseEnd leaves the parties as they are.                                *)
LEMMA Closing ==
  ASSUME NEW w \in WorldType, NEW c \in Conns, NEW p \in Party
  PROVE  LET x == CloseEnd(w, c, p)
         IN  /\ Tame(w, x) /\ Tells(w, x) /\ Stays(w, x)
             /\ x.node = w.node /\ x.conn[c].end[p] = "closed"
             /\ \A d \in Place, q \in Party : Box(x, d, q) \in {Box(w, d, q), <<>>}
<1> DEFINE k == [w.conn[c] EXCEPT !.end[p] = "closed", !.wire[p] = <<>>, !.held[p] = 0]
<1>1. PICK x : x = CloseEnd(w, c, p)
  OBVIOUS
<1>2. w.conn[c] \in ConnType
  BY WorldParts
<1>3. /\ k \in ConnType /\ k.init = w.conn[c].init /\ k.end[p] = "closed"
      /\ \A q \in Party : k.end[q] \in {w.conn[c].end[q], "closed"} /\ k.wire[q] \in {w.conn[c].wire[q], <<>>}
  <2>1. PICK e : e = [w.conn[c].end EXCEPT ![p] = "closed"]
    OBVIOUS
  <2>2. PICK v : v = [w.conn[c].wire EXCEPT ![p] = <<>>]
    OBVIOUS
  <2>3. PICK h : h = [w.conn[c].held EXCEPT ![p] = 0]
    OBVIOUS
  <2>c. "closed" \in EndType
    BY DEF EndType
  <2>4. /\ e \in [Party -> EndType] /\ v \in [Party -> Seq(Frame)] /\ h \in [Party -> Nat]
        /\ e[p] = "closed"
        /\ \A q \in Party : e[q] \in {w.conn[c].end[q], "closed"} /\ v[q] \in {w.conn[c].wire[q], <<>>}
    BY <1>2, <2>1, <2>2, <2>3, <2>c, EmptySeq DEF ConnType
  <2>5. k = [w.conn[c] EXCEPT !.end = e, !.wire = v, !.held = h]
    BY <2>1, <2>2, <2>3
  <2> HIDE DEF k
  <2> QED BY <1>2, <2>4, <2>5 DEF ConnType
<1>4. x = SetConn(w, c, k)
  BY <1>1 DEF CloseEnd, SetConn
<1> HIDE DEF k
<1>5. /\ x \in WorldType /\ x.node = w.node /\ x.conn[c] = k
      /\ \A d \in Conns : d # c => x.conn[d] = w.conn[d]
      /\ \A d \in Place, q \in Party : Box(x, d, q) = IF d = c THEN k.wire[q] ELSE Box(w, d, q)
  BY <1>3, <1>4, ConnChanged
<1>6. \A d \in Place, q \in Party : Box(x, d, q) \in {Box(w, d, q), <<>>}
  BY <1>3, <1>5, Marks DEF Box
<1>7. Thins(w, x)
  BY <1>6, ThinBoxes
<1>8. Ends(w, x)
  BY <1>3, <1>5 DEF Ends
<1>9. Tame(w, x) /\ Tells(w, x) /\ Stays(w, x)
  BY <1>5, <1>7, <1>8 DEF Tame, Carries, Holds, Tells, Stays
<1> QED BY <1>1, <1>3, <1>5, <1>6, <1>9

(* The failure events of a party are about what it waits for.              *)
LEMMA Failures ==
  ASSUME NEW w \in WorldType, NEW p \in Party
  PROVE  /\ FailureEvents(w, p) \in Seq(Event)
         /\ \A e \in ToSet(FailureEvents(w, p)) : e.to = "fwd"
         /\ {e.i : e \in ToSet(FailureEvents(w, p))} = ToSet(w.node[p].lost)
<1>1. PICK l : l = w.node[p].lost /\ l \in Seq(Intros)
  BY WorldParts DEF NodeType
<1>2. Len(l) \in Nat /\ DOMAIN l = 1 .. Len(l) /\ \A k \in 1 .. Len(l) : l[k] \in Intros
  BY <1>1, LenProperties, ElementOfSeq
<1>3. PICK s : s = FailureEvents(w, p) /\ s = [k \in DOMAIN l |-> ForwardEvent(l[k], FALSE)]
  BY <1>1 DEF FailureEvents
<1>4. \A k \in 1 .. Len(l) : s[k] = [to |-> "fwd", i |-> l[k], ok |-> FALSE]
  BY <1>2, <1>3 DEF ForwardEvent
<1>5. s \in [1 .. Len(l) -> Event]
  BY <1>2, <1>3 DEF ForwardEvent, Event
<1>6. s \in Seq(Event)
  BY <1>2, <1>5, IsASeq
<1>d. DOMAIN s = 1 .. Len(l)
  BY <1>2, <1>3
<1>7. \A e \in ToSet(s) : e.to = "fwd"
  BY <1>d, <1>4 DEF ToSet
<1>8. {e.i : e \in ToSet(s)} = ToSet(l)
  <2>1. ASSUME NEW k \in 1 .. Len(l) PROVE s[k].i = l[k]
    <3>1. s[k] = [to |-> "fwd", i |-> l[k], ok |-> FALSE]
      BY <1>4
    <3> QED BY <3>1
  <2> QED BY <1>2, <1>d, <2>1 DEF ToSet
<1> QED BY <1>1, <1>3, <1>6, <1>7, <1>8

(* What Lose does to a party.                                              *)
LEMMA LosingNode ==
  ASSUME NEW w \in WorldType, NEW p \in Party, NEW wakeup \in BOOLEAN, NEW n,
         n = [w.node[p] EXCEPT !.lost = <<>>,
                !.events = IF wakeup THEN w.node[p].events \o FailureEvents(w, p) ELSE w.node[p].events]
  PROVE  n \in NodeType /\ Carries(w.node[p], n) /\ (wakeup => Waits(w.node[p]) \subseteq Waits(n))
<1> DEFINE m == w.node[p]
           g == FailureEvents(w, p)
<1>1. m \in NodeType /\ m.events \in Seq(Event) /\ m.lost \in Seq(Intros)
  BY WorldParts DEF NodeType
<1>2. /\ g \in Seq(Event) /\ \A e \in ToSet(g) : e.to = "fwd"
      /\ {e.i : e \in ToSet(g)} = ToSet(m.lost)
  BY Failures
<1> HIDE DEF m, g
<1>3. n = [m EXCEPT !.lost = <<>>, !.events = IF wakeup THEN m.events \o g ELSE m.events]
  BY DEF m, g
<1>4. /\ m.events \o g \in Seq(Event)
      /\ ToSet(m.events \o g) = ToSet(m.events) \cup ToSet(g)
      /\ \A k \in DOMAIN (m.events \o g) :
           \/ k \in DOMAIN m.events /\ (m.events \o g)[k] = m.events[k]
           \/ (m.events \o g)[k] \in ToSet(g)
  <2>1. /\ Len(m.events) \in Nat /\ Len(g) \in Nat
        /\ DOMAIN m.events = 1 .. Len(m.events) /\ DOMAIN g = 1 .. Len(g)
        /\ DOMAIN (m.events \o g) = 1 .. Len(m.events) + Len(g)
        /\ \A k \in 1 .. Len(m.events) : (m.events \o g)[k] = m.events[k]
        /\ \A k \in 1 .. Len(m.events) + Len(g) :
             k \in 1 .. Len(m.events) \/ (k - Len(m.events) \in 1 .. Len(g) /\ (m.events \o g)[k] = g[k - Len(m.events)])
        /\ m.events \o g \in Seq(Event)
        /\ ToSet(m.events \o g) = ToSet(m.events) \cup ToSet(g)
    BY <1>1, <1>2, Joined
  <2> QED BY <2>1 DEF ToSet
<1>5. /\ n.lost = <<>> /\ n.events = IF wakeup THEN m.events \o g ELSE m.events
      /\ n.stubs = m.stubs /\ n.sunk = m.sunk /\ n.listen = m.listen /\ n.listeners = m.listeners
      /\ n.twice = m.twice
  BY <1>1, <1>3 DEF NodeType
<1>6. n \in NodeType
  BY <1>1, <1>3, <1>4, EmptySeq, ZenonT(60) DEF NodeType
<1>7. ToSet(n.lost) = {}
  BY <1>5 DEF ToSet
<1>8. CASE wakeup
  <2>1. ToSet(n.events) = ToSet(m.events) \cup ToSet(g)
    BY <1>4, <1>5, <1>8
  <2>2. Forwarded(n) = Forwarded(m) \cup ToSet(m.lost)
    BY <2>1, <1>2 DEF Forwarded
  <2>3. Waits(n) = Waits(m)
    BY <2>2, <1>7 DEF Waits
  <2>4. \A k \in DOMAIN n.events :
          n.events[k].to = "greeter" => k \in DOMAIN m.events /\ n.events[k] = m.events[k]
    BY <1>2, <1>4, <1>5, <1>8
  <2> QED BY <1>5, <1>6, <2>3, <2>4 DEF Carries, Holds, m
<1>9. CASE ~wakeup
  <2>1. n.events = m.events
    BY <1>5, <1>9
  <2>2. Waits(n) \subseteq Waits(m)
    BY <2>1, <1>7 DEF Waits, Forwarded
  <2> QED BY <1>5, <1>6, <1>9, <2>1, <2>2 DEF Carries, Holds, m
<1> QED BY <1>8, <1>9

(* A party that changes, but keeps what it carries and sends nothing.      *)
LEMMA NodeTame ==
  ASSUME NEW w \in WorldType, NEW p \in Party, NEW n \in NodeType, NEW x,
         x = SetNode(w, p, n), Carries(w.node[p], n), n.outbox \in {w.node[p].outbox, <<>>}
  PROVE  /\ Tame(w, x)
         /\ Waits(w.node[p]) \subseteq Waits(n) => Tells(w, x)
         /\ n.connections = w.node[p].connections => Stays(w, x)
         /\ x \in WorldType /\ x.conn = w.conn /\ x.node[p] = n
         /\ \A q \in Party : q # p => x.node[q] = w.node[q]
<1>1. /\ x \in WorldType /\ x.conn = w.conn /\ x.node[p] = n
      /\ \A q \in Party : q # p => x.node[q] = w.node[q]
      /\ \A c \in Place, q \in Party :
           Box(x, c, q) = IF c = None /\ q = p THEN n.outbox ELSE Box(w, c, q)
  BY NodeChanged
<1>2. \A c \in Place, q \in Party : Box(x, c, q) \in {Box(w, c, q), <<>>}
  BY <1>1 DEF Box
<1>3. Thins(w, x)
  BY <1>2, ThinBoxes
<1>4. Ends(w, x)
  BY <1>1 DEF Ends
<1>5. \A q \in Party : Carries(w.node[q], x.node[q])
  BY <1>1 DEF Carries, Holds
<1>6. Waits(w.node[p]) \subseteq Waits(n) => Tells(w, x)
  BY <1>1 DEF Tells
<1>7. n.connections = w.node[p].connections => Stays(w, x)
  BY <1>1 DEF Stays
<1> QED BY <1>1, <1>3, <1>4, <1>5, <1>6, <1>7 DEF Tame

(* The frames of an outbox go to a wire.                                   *)
Moved(w, x, c, p, r) ==
  \A d \in Place, q \in Party :
    Box(x, d, q) = IF d = None /\ q = p THEN <<>>
                   ELSE IF d = c /\ q = r THEN Box(w, c, r) \o Box(w, None, p)
                   ELSE Box(w, d, q)

(* No frame is new or doubled then.                                        *)
LEMMA ThinSent ==
  ASSUME NEW w \in WorldType, NEW x, NEW c \in Conns, NEW p \in Party, NEW r \in Party,
         Moved(w, x, c, p, r)
  PROVE  Thins(w, x)
<1> USE DEF Moved
<1> DEFINE n == Len(Box(w, c, r))
           New(d, q, k) == d = c /\ q = r /\ k \notin 1 .. n
<1>1. c \in Place /\ None \in Place /\ c # None
  BY Marks DEF Place
<1>2. Box(w, c, r) \in Seq(Frame) /\ Box(w, None, p) \in Seq(Frame)
  BY <1>1, WorldParts
<1>3. PICK u : u = Box(x, c, r) /\ u = Box(w, c, r) \o Box(w, None, p)
  BY <1>1
<1>4. /\ n \in Nat /\ DOMAIN Box(w, c, r) = 1 .. n
      /\ \A k \in DOMAIN u :
           IF k \in 1 .. n THEN u[k] = Box(w, c, r)[k]
           ELSE k \in Int /\ k - n \in DOMAIN Box(w, None, p) /\ u[k] = Box(w, None, p)[k - n]
  <2>1. /\ n \in Nat /\ Len(Box(w, None, p)) \in Nat /\ DOMAIN Box(w, c, r) = 1 .. n
        /\ DOMAIN Box(w, None, p) = 1 .. Len(Box(w, None, p))
        /\ DOMAIN u = 1 .. n + Len(Box(w, None, p))
        /\ \A k \in 1 .. n : u[k] = Box(w, c, r)[k]
        /\ \A k \in 1 .. n + Len(Box(w, None, p)) :
             k \in 1 .. n \/ (k - n \in 1 .. Len(Box(w, None, p)) /\ u[k] = Box(w, None, p)[k - n])
    BY <1>2, <1>3, Joined
  <2> QED BY <2>1
<1> HIDE DEF n
<1>5. ASSUME NEW d \in Place, NEW q \in Party, NEW k \in DOMAIN Box(x, d, q), New(d, q, k)
      PROVE  k \in Int /\ k - n \in DOMAIN Box(w, None, p) /\ Box(x, d, q)[k] = Box(w, None, p)[k - n]
  BY <1>3, <1>4, <1>5
<1>6. ASSUME NEW d \in Place, NEW q \in Party, NEW k \in DOMAIN Box(x, d, q), ~New(d, q, k)
      PROVE  k \in DOMAIN Box(w, d, q) /\ Box(x, d, q)[k] = Box(w, d, q)[k] /\ ~(d = None /\ q = p)
  BY <1>1, <1>3, <1>4, <1>6
<1> HIDE DEF New
<1>7. ASSUME Apart(w) PROVE Apart(x)
  <2> SUFFICES ASSUME NEW d \in Place, NEW e \in Place, NEW q \in Party, NEW s \in Party,
                      NEW k \in DOMAIN Box(x, d, q), NEW l \in DOMAIN Box(x, e, s),
                      Box(x, d, q)[k] = Box(x, e, s)[l]
               PROVE  d = e /\ q = s /\ k = l
    BY DEF Apart
  <2>1. CASE New(d, q, k) /\ New(e, s, l)
    <3>1. k \in Int /\ l \in Int /\ k - n = l - n
      BY <1>1, <1>5, <1>7, <2>1 DEF Apart
    <3> QED BY <3>1, <2>1, <1>4 DEF New
  <2>2. CASE New(d, q, k) /\ ~New(e, s, l)
    BY <1>1, <1>5, <1>6, <1>7, <2>2 DEF Apart
  <2>3. CASE ~New(d, q, k) /\ New(e, s, l)
    BY <1>1, <1>5, <1>6, <1>7, <2>3 DEF Apart
  <2>4. CASE ~New(d, q, k) /\ ~New(e, s, l)
    BY <1>6, <1>7, <2>4 DEF Apart
  <2> QED BY <2>1, <2>2, <2>3, <2>4
<1>8. ASSUME NEW f \in Frame, Within(x, f) PROVE Within(w, f)
  <2>1. PICK d \in Place, q \in Party : \E k \in DOMAIN Box(x, d, q) : Box(x, d, q)[k] = f
    BY <1>8 DEF Within, ToSet
  <2>2. PICK k \in DOMAIN Box(x, d, q) : Box(x, d, q)[k] = f
    BY <2>1
  <2>3. \E e \in Place, s \in Party : \E l \in DOMAIN Box(w, e, s) : Box(w, e, s)[l] = f
    BY <1>1, <1>5, <1>6, <2>2
  <2> QED BY <2>3 DEF Within, ToSet
<1> QED BY <1>7, <1>8 DEF Thins

(* Nor when one leaves a wire.                                             *)
LEMMA ThinRemoved ==
  ASSUME NEW w \in WorldType, NEW x, NEW c \in Conns, NEW p \in Party, NEW n \in DOMAIN Box(w, c, p),
         \A d \in Place, q \in Party :
           Box(x, d, q) = IF d = c /\ q = p THEN RemoveAt(Box(w, c, p), n) ELSE Box(w, d, q)
  PROVE  Thins(w, x) /\ Within(w, Box(w, c, p)[n]) /\ (Apart(w) => ~Within(x, Box(w, c, p)[n]))
<1> DEFINE b == Box(w, c, p)
           From(d, q, k) == IF d = c /\ q = p /\ ~(k < n) THEN k + 1 ELSE k
<1>1. c \in Place /\ b \in Seq(Frame)
  BY WorldParts DEF Place
<1>2. PICK u : u = Box(x, c, p) /\ u = RemoveAt(b, n)
  BY <1>1
<1>3. /\ Len(b) \in Nat \ {0} /\ n \in 1 .. Len(b) /\ DOMAIN u = 1 .. Len(b) - 1 /\ DOMAIN b = 1 .. Len(b)
      /\ \A j \in 1 .. Len(b) - 1 : u[j] = IF j < n THEN b[j] ELSE b[j + 1]
  BY <1>1, <1>2, Removed, LenProperties
<1>4. ASSUME NEW d \in Place, NEW q \in Party, NEW k \in DOMAIN Box(x, d, q)
      PROVE  /\ From(d, q, k) \in DOMAIN Box(w, d, q) /\ Box(x, d, q)[k] = Box(w, d, q)[From(d, q, k)]
             /\ d = c /\ q = p => k \in Int /\ From(d, q, k) # n
  <2>1. CASE d = c /\ q = p
    <3>1. k \in 1 .. Len(b) - 1
      BY <1>2, <1>3, <2>1
    <3>2. k \in Int /\ n \in Int /\ From(d, q, k) \in 1 .. Len(b) /\ From(d, q, k) # n
      BY <1>3, <2>1, <3>1
    <3>3. u[k] = b[From(d, q, k)]
      BY <1>3, <2>1, <3>1
    <3> QED BY <1>2, <1>3, <2>1, <3>2, <3>3
  <2>2. CASE ~(d = c /\ q = p)
    BY <2>2
  <2> QED BY <2>1, <2>2
<1>5. ASSUME NEW k \in Int, NEW l \in Int, From(c, p, k) = From(c, p, l) PROVE k = l
  BY <1>3, <1>5
<1>6. ASSUME Apart(w) PROVE Apart(x)
  <2> SUFFICES ASSUME NEW d \in Place, NEW e \in Place, NEW q \in Party, NEW s \in Party,
                      NEW k \in DOMAIN Box(x, d, q), NEW l \in DOMAIN Box(x, e, s),
                      Box(x, d, q)[k] = Box(x, e, s)[l]
               PROVE  d = e /\ q = s /\ k = l
    BY DEF Apart
  <2>1. d = e /\ q = s /\ From(d, q, k) = From(e, s, l)
    BY <1>4, <1>6 DEF Apart
  <2>2. CASE d = c /\ q = p
    BY <1>4, <1>5, <2>1, <2>2
  <2>3. CASE ~(d = c /\ q = p)
    BY <2>1, <2>3
  <2> QED BY <2>1, <2>2, <2>3
<1> HIDE DEF From
<1>7. ASSUME NEW f \in Frame, Within(x, f) PROVE Within(w, f)
  BY <1>4, <1>7 DEF Within, ToSet
<1>8. Within(w, b[n])
  BY <1>1 DEF Within, ToSet
<1>9. ASSUME Apart(w), Within(x, b[n]) PROVE FALSE
  <2>1. PICK d \in Place, q \in Party : \E k \in DOMAIN Box(x, d, q) : Box(x, d, q)[k] = b[n]
    BY <1>9 DEF Within, ToSet
  <2>2. PICK k \in DOMAIN Box(x, d, q) : Box(x, d, q)[k] = b[n]
    BY <2>1
  <2>3. Box(w, d, q)[From(d, q, k)] = Box(w, c, p)[n] /\ From(d, q, k) \in DOMAIN Box(w, d, q)
    BY <1>4, <2>2
  <2>4. d = c /\ q = p /\ From(d, q, k) = n
    BY <1>1, <1>9, <2>3 DEF Apart
  <2> QED BY <1>4, <2>4
<1> QED BY <1>6, <1>7, <1>8, <1>9 DEF Thins

(* A frame that is nowhere yet is put in an outbox.                        *)
LEMMA OneMore ==
  ASSUME NEW w \in WorldType, NEW x, NEW p \in Party, NEW f \in Frame,
         \A d \in Place, q \in Party :
           Box(x, d, q) = IF d = None /\ q = p THEN Append(Box(w, None, p), f) ELSE Box(w, d, q)
  PROVE  /\ Apart(w) /\ ~Within(w, f) => Apart(x)
         /\ \A g \in Frame : Within(x, g) => Within(w, g) \/ g = f
<1> DEFINE b == Box(w, None, p)
           New(d, q, k) == d = None /\ q = p /\ k = Len(b) + 1
<1>1. None \in Place /\ b \in Seq(Frame)
  BY WorldParts DEF Place
<1>2. PICK u : u = Box(x, None, p) /\ u = Append(b, f)
  BY <1>1
<1>3. /\ Len(b) \in Nat /\ DOMAIN b = 1 .. Len(b) /\ DOMAIN u = 1 .. Len(b) + 1
      /\ \A k \in 1 .. Len(b) : u[k] = b[k]
      /\ u[Len(b) + 1] = f
  BY <1>1, <1>2, Added
<1>4. ASSUME NEW d \in Place, NEW q \in Party, NEW k \in DOMAIN Box(x, d, q)
      PROVE  IF New(d, q, k) THEN Box(x, d, q)[k] = f
             ELSE k \in DOMAIN Box(w, d, q) /\ Box(x, d, q)[k] = Box(w, d, q)[k]
  <2>1. CASE d = None /\ q = p
    <3>1. k \in 1 .. Len(b) + 1
      BY <1>2, <1>3, <2>1
    <3>2. k = Len(b) + 1 \/ k \in 1 .. Len(b)
      BY <1>3, <3>1
    <3> QED BY <1>2, <1>3, <2>1, <3>2
  <2>2. CASE ~(d = None /\ q = p)
    BY <2>2
  <2> QED BY <2>1, <2>2
<1>5. ASSUME NEW d \in Place, NEW q \in Party, NEW k \in DOMAIN Box(w, d, q) PROVE Within(w, Box(w, d, q)[k])
  BY DEF Within, ToSet
<1>6. ASSUME Apart(w), ~Within(w, f) PROVE Apart(x)
  <2> SUFFICES ASSUME NEW d \in Place, NEW e \in Place, NEW q \in Party, NEW s \in Party,
                      NEW k \in DOMAIN Box(x, d, q), NEW l \in DOMAIN Box(x, e, s),
                      Box(x, d, q)[k] = Box(x, e, s)[l]
               PROVE  d = e /\ q = s /\ k = l
    BY DEF Apart
  <2>1. CASE New(d, q, k) /\ New(e, s, l)
    BY <2>1
  <2>2. CASE ~New(d, q, k) /\ ~New(e, s, l)
    <3> HIDE DEF New
    <3> QED BY <1>4, <1>6, <2>2 DEF Apart
  <2>3. CASE New(d, q, k) /\ ~New(e, s, l)
    <3> HIDE DEF New
    <3> QED BY <1>4, <1>5, <1>6, <2>3
  <2>4. CASE ~New(d, q, k) /\ New(e, s, l)
    <3> HIDE DEF New
    <3> QED BY <1>4, <1>5, <1>6, <2>4
  <2> QED BY <2>1, <2>2, <2>3, <2>4
<1> HIDE DEF New
<1>7. ASSUME NEW g \in Frame, Within(x, g) PROVE Within(w, g) \/ g = f
  BY <1>4, <1>7 DEF Within, ToSet
<1> QED BY <1>6, <1>7

(* What a party has to offer to the lemmas that follow.                    *)
LEMMA NodeKept ==
  ASSUME NEW n \in NodeType, NEW m,
         m.stubs = n.stubs, m.sunk = n.sunk, m.listen = n.listen, m.listeners = n.listeners,
         m.lost = n.lost, m.events = n.events, m.twice = n.twice
  PROVE  Carries(n, m) /\ Waits(m) = Waits(n)
BY DEF Carries, Holds, Waits, Forwarded

(* Lose takes what is in lost, and tells the core if it is to wake up.     *)
LEMMA Losing ==
  ASSUME NEW w \in WorldType, NEW p \in Party, NEW wakeup \in BOOLEAN
  PROVE  LET x == Lose(w, p, wakeup)
         IN  /\ Tame(w, x) /\ (wakeup => Tells(w, x)) /\ Stays(w, x)
             /\ \A q \in Party : q # p => x.node[q] = w.node[q]
<1> DEFINE n == [w.node[p] EXCEPT !.lost = <<>>,
                   !.events = IF wakeup THEN w.node[p].events \o FailureEvents(w, p) ELSE w.node[p].events]
<1>1. PICK x : x = Lose(w, p, wakeup)
  OBVIOUS
<1>2. x = SetNode(w, p, n)
  BY <1>1 DEF Lose, SetNode
<1>3. n \in NodeType /\ Carries(w.node[p], n) /\ (wakeup => Waits(w.node[p]) \subseteq Waits(n))
  BY LosingNode
<1>4. n.outbox = w.node[p].outbox /\ n.connections = w.node[p].connections
  BY WorldParts DEF NodeType
<1> HIDE DEF n
<1>5. /\ Tame(w, x) /\ (wakeup => Tells(w, x)) /\ Stays(w, x)
      /\ \A q \in Party : q # p => x.node[q] = w.node[q]
  BY <1>2, <1>3, <1>4, NodeTame
<1> QED BY <1>1, <1>5

(* Unregister also drops the outbox and the registered connection.         *)
LEMMA Unregistering ==
  ASSUME NEW w \in WorldType, NEW p \in Party, NEW wakeup \in BOOLEAN
  PROVE  LET x == Unregister(w, p, wakeup)
         IN  /\ Tame(w, x) /\ (wakeup => Tells(w, x)) /\ x.conn = w.conn
             /\ \A q \in Party : q # p => x.node[q] = w.node[q]
<1> DEFINE n == [w.node[p] EXCEPT !.outbox = <<>>, !.connections = None]
<1>1. PICK y : y = SetNode(w, p, n)
  OBVIOUS
<1>2. PICK x : x = Unregister(w, p, wakeup)
  OBVIOUS
<1>3. x = Lose(y, p, wakeup)
  BY <1>1, <1>2 DEF Unregister, SetNode
<1>4. w.node[p] \in NodeType
  BY WorldParts
<1>5. n \in NodeType /\ n.outbox = <<>>
  BY <1>4, EmptySeq DEF NodeType
<1>6. Carries(w.node[p], n) /\ Waits(w.node[p]) = Waits(n)
  BY <1>4, NodeKept DEF NodeType
<1> HIDE DEF n
<1>7. /\ Tame(w, y) /\ Tells(w, y) /\ y \in WorldType /\ y.conn = w.conn
      /\ \A q \in Party : q # p => y.node[q] = w.node[q]
  BY <1>1, <1>5, <1>6, NodeTame
<1>8. /\ Tame(y, x) /\ (wakeup => Tells(y, x)) /\ Stays(y, x)
      /\ \A q \in Party : q # p => x.node[q] = y.node[q]
  BY <1>3, <1>7, Losing
<1>9. x.conn = y.conn
  BY <1>3 DEF Lose
<1>10. Tame(w, x) /\ (wakeup => Tells(w, x))
  BY <1>7, <1>8, TameTwice
<1> QED BY <1>2, <1>7, <1>8, <1>9, <1>10

(* Send moves the frames of the outbox to the wire, or drops them.         *)
LEMMA Sending ==
  ASSUME NEW w \in WorldType, NEW p \in Party, NEW c \in Conns
  PROVE  LET x == Send(w, p, c) IN Tame(w, x) /\ Tells(w, x) /\ Stays(w, x)
<1> DEFINE r == Peer(p)
           n == [w.node[p] EXCEPT !.outbox = <<>>]
           k == [w.conn[c] EXCEPT !.wire[r] = @ \o w.node[p].outbox]
<1>1. PICK x : x = Send(w, p, c)
  OBVIOUS
<1>r. r \in Party /\ c # None
  BY Peers, Marks
<1>s. r = Peer(p)
  OBVIOUS
<1> HIDE DEF r
<1>2. w.node[p] \in NodeType /\ w.conn[c] \in ConnType /\ w.node[p].outbox \in Seq(Frame)
  BY WorldParts DEF NodeType
<1>3. n \in NodeType /\ n.outbox = <<>> /\ n.connections = w.node[p].connections
  BY <1>2, EmptySeq DEF NodeType
<1>4. Carries(w.node[p], n) /\ Waits(w.node[p]) = Waits(n)
  BY <1>2, NodeKept DEF NodeType
<1>5. /\ k \in ConnType /\ k.init = w.conn[c].init /\ k.end = w.conn[c].end
      /\ \A q \in Party : k.wire[q] = IF q = r THEN w.conn[c].wire[r] \o w.node[p].outbox ELSE w.conn[c].wire[q]
  <2>1. PICK v : v = [w.conn[c].wire EXCEPT ![r] = @ \o w.node[p].outbox]
    OBVIOUS
  <2>2. w.conn[c].wire \in [Party -> Seq(Frame)]
    BY <1>2 DEF ConnType
  <2>3. w.conn[c].wire[r] \o w.node[p].outbox \in Seq(Frame)
    BY <1>2, <1>r, <2>2, ConcatProperties
  <2>4. /\ v \in [Party -> Seq(Frame)]
        /\ \A q \in Party : v[q] = IF q = r THEN w.conn[c].wire[r] \o w.node[p].outbox ELSE w.conn[c].wire[q]
    BY <1>r, <2>1, <2>2, <2>3
  <2>5. k = [w.conn[c] EXCEPT !.wire = v]
    BY <2>1
  <2> HIDE DEF k
  <2> QED BY <1>2, <2>4, <2>5 DEF ConnType
<1> HIDE DEF n, k
<1>6. PICK y : y = SetNode(w, p, n)
  OBVIOUS
<1>7. /\ Tame(w, y) /\ Tells(w, y) /\ Stays(w, y) /\ y \in WorldType /\ y.conn = w.conn /\ y.node[p] = n
      /\ \A q \in Party : q # p => y.node[q] = w.node[q]
  BY <1>3, <1>4, <1>6, NodeTame
<1>8. CASE w.conn[c].end[p] = "open"
  <2>1. x = [w EXCEPT !.node[p].outbox = <<>>, !.conn[c].wire[r] = @ \o w.node[p].outbox]
    BY <1>1, <1>s, <1>8 DEF Send
  <2>2. x = SetConn(y, c, k)
    BY <1>6, <2>1 DEF SetConn, SetNode, n, k, WorldType
  <2>3. /\ x \in WorldType /\ x.node = y.node /\ x.conn[c] = k
        /\ \A d \in Conns : d # c => x.conn[d] = y.conn[d]
        /\ \A d \in Place, q \in Party : Box(x, d, q) = IF d = c THEN k.wire[q] ELSE Box(y, d, q)
    BY <1>5, <1>7, <2>2, ConnChanged
  <2>4. Moved(w, x, c, p, r)
    BY <1>r, <1>3, <1>5, <1>7, <2>3 DEF Moved, Box
  <2>5. Thins(w, x)
    BY <1>r, <2>4, ThinSent
  <2>6. Ends(w, x)
    BY <1>5, <1>7, <2>3 DEF Ends
  <2>7. \A q \in Party : Carries(w.node[q], x.node[q])
    BY <1>7, <2>3 DEF Tame
  <2> QED BY <1>1, <1>7, <2>3, <2>5, <2>6, <2>7 DEF Tame, Tells, Stays
<1>9. CASE ~(w.conn[c].end[p] = "open") /\ transport = "tls"
  <2>1. x = y
    BY <1>1, <1>6, <1>9 DEF Send, SetNode, n
  <2> QED BY <1>1, <1>7, <2>1
<1>10. CASE ~(w.conn[c].end[p] = "open") /\ transport # "tls"
  <2>1. x = w
    BY <1>1, <1>10 DEF Send
  <2> QED BY <1>1, <2>1, TameItself
<1> QED BY <1>8, <1>9, <1>10

(* Connect fails at once, or begins an attempt.                            *)
LEMMA Dialling ==
  ASSUME NEW w \in WorldType, NEW p \in Party
  PROVE  LET x == Connect(w, p) IN Tame(w, x) /\ Tells(w, x) /\ Stays(w, x)
<1>1. PICK x : x = Connect(w, p)
  OBVIOUS
<1>2. CASE transport = "tls" /\ Peer(p) \notin public
  <2> DEFINE y == Lose(w, p, TRUE)
             n == [y.node[p] EXCEPT !.opening = TRUE]
  <2>1. x = SetNode(y, p, n)
    BY <1>1, <1>2 DEF Connect, SetNode
  <2>2. Tame(w, y) /\ Tells(w, y) /\ Stays(w, y) /\ y \in WorldType
    BY Losing DEF Tame
  <2> HIDE DEF y
  <2>3. y.node[p] \in NodeType
    BY <2>2, WorldParts
  <2>4. n \in NodeType /\ n.outbox = y.node[p].outbox /\ n.connections = y.node[p].connections
    BY <2>3 DEF NodeType
  <2>5. Carries(y.node[p], n) /\ Waits(y.node[p]) = Waits(n)
    BY <2>3, NodeKept DEF NodeType
  <2> HIDE DEF n
  <2>6. Tame(y, x) /\ Tells(y, x) /\ Stays(y, x)
    BY <2>1, <2>2, <2>4, <2>5, NodeTame
  <2> QED BY <1>1, <2>2, <2>6, TameTwice
<1>3. CASE ~(transport = "tls" /\ Peer(p) \notin public)
  <2> DEFINE n == [w.node[p] EXCEPT !.opening = TRUE, !.attempt = Connecting]
  <2>1. x = SetNode(w, p, n)
    BY <1>1, <1>3 DEF Connect, SetNode
  <2>3. w.node[p] \in NodeType
    BY WorldParts
  <2>4. n \in NodeType /\ n.outbox = w.node[p].outbox /\ n.connections = w.node[p].connections
    BY <2>3 DEF NodeType
  <2>5. Carries(w.node[p], n) /\ Waits(w.node[p]) = Waits(n)
    BY <2>3, NodeKept DEF NodeType
  <2> HIDE DEF n
  <2> QED BY <1>1, <2>1, <2>4, <2>5, NodeTame
<1> QED BY <1>2, <1>3

(* Flush is one of the two, or leaves everything as it is.                 *)
LEMMA Flushing ==
  ASSUME NEW w \in WorldType, NEW p \in Party
  PROVE  LET x == Flush(w, p) IN Tame(w, x) /\ Tells(w, x) /\ Stays(w, x)
<1>1. w.node[p].connections \in Conns \cup {None}
  BY WorldParts DEF NodeType
<1>2. \/ Flush(w, p) = w
      \/ w.node[p].connections \in Conns /\ Flush(w, p) = Send(w, p, w.node[p].connections)
      \/ Flush(w, p) = Connect(w, p)
  BY <1>1 DEF Flush
<1> QED BY <1>2, TameItself, Sending, Dialling

(* Cancel ends the attempt, and closes what it has established.            *)
LEMMA Cancelling ==
  ASSUME NEW w \in WorldType, NEW p \in Party
  PROVE  LET x == Cancel(w, p) IN Tame(w, x) /\ Tells(w, x) /\ Stays(w, x)
<1> DEFINE n == [w.node[p] EXCEPT !.opening = FALSE, !.attempt = None]
<1>1. PICK y : y = SetNode(w, p, n)
  OBVIOUS
<1>2. w.node[p] \in NodeType
  BY WorldParts
<1>3. n \in NodeType /\ n.outbox = w.node[p].outbox /\ n.connections = w.node[p].connections
  BY <1>2 DEF NodeType
<1>4. Carries(w.node[p], n) /\ Waits(w.node[p]) = Waits(n)
  BY <1>2, NodeKept DEF NodeType
<1>5. \/ Cancel(w, p) = y
      \/ w.node[p].attempt \in Conns /\ Cancel(w, p) = CloseEnd(y, w.node[p].attempt, p)
  BY <1>1 DEF Cancel, SetNode
<1> HIDE DEF n
<1>6. Tame(w, y) /\ Tells(w, y) /\ Stays(w, y) /\ y \in WorldType
  BY <1>1, <1>3, <1>4, NodeTame
<1> QED BY <1>5, <1>6, Closing, TameTwice

(* Enqueue puts one frame on its way, and does nothing else.               *)
Sends(w, x, f) ==
  /\ x \in WorldType
  /\ Apart(w) /\ ~Within(w, f) => Apart(x)
  /\ \A g \in Frame : Within(x, g) => Within(w, g) \/ g = f
  /\ Ends(w, x) /\ Stays(w, x) /\ Tells(w, x)
  /\ \A p \in Party : Carries(w.node[p], x.node[p])

LEMMA Enqueueing ==
  ASSUME NEW w \in WorldType, NEW p \in Party, NEW f \in Frame
  PROVE  Sends(w, Enqueue(w, p, f), f)
<1> DEFINE n == [w.node[p] EXCEPT !.outbox = Append(@, f)]
<1>1. PICK y : y = SetNode(w, p, n)
  OBVIOUS
<1>2. PICK x : x = Enqueue(w, p, f)
  OBVIOUS
<1>3. x = Flush(y, p)
  BY <1>1, <1>2 DEF Enqueue, SetNode
<1>4. w.node[p] \in NodeType /\ w.node[p].outbox \in Seq(Frame)
  BY WorldParts DEF NodeType
<1>5. Append(w.node[p].outbox, f) \in Seq(Frame)
  BY <1>4, AppendProperties
<1>6. /\ n \in NodeType /\ n.outbox = Append(w.node[p].outbox, f)
      /\ n.connections = w.node[p].connections
  BY <1>4, <1>5 DEF NodeType
<1>7. Carries(w.node[p], n) /\ Waits(w.node[p]) = Waits(n)
  BY <1>4, NodeKept DEF NodeType
<1> HIDE DEF n
<1>8. /\ y \in WorldType /\ y.conn = w.conn /\ y.node[p] = n
      /\ \A q \in Party : q # p => y.node[q] = w.node[q]
      /\ \A c \in Place, q \in Party :
           Box(y, c, q) = IF c = None /\ q = p THEN n.outbox ELSE Box(w, c, q)
  BY <1>1, <1>6, NodeChanged
<1>9. \A d \in Place, q \in Party :
        Box(y, d, q) = IF d = None /\ q = p THEN Append(Box(w, None, p), f) ELSE Box(w, d, q)
  BY <1>6, <1>8 DEF Box
<1>10. /\ Apart(w) /\ ~Within(w, f) => Apart(y)
       /\ \A g \in Frame : Within(y, g) => Within(w, g) \/ g = f
  BY <1>9, OneMore
<1>11. Ends(w, y) /\ Stays(w, y) /\ Tells(w, y)
  BY <1>6, <1>7, <1>8 DEF Ends, Stays, Tells
<1>12. \A q \in Party : Carries(w.node[q], y.node[q])
  BY <1>7, <1>8 DEF Carries, Holds
<1>13. Tame(y, x) /\ Tells(y, x) /\ Stays(y, x)
  BY <1>3, <1>8, Flushing
<1>14. /\ Apart(w) /\ ~Within(w, f) => Apart(x)
       /\ \A g \in Frame : Within(x, g) => Within(w, g) \/ g = f
  BY <1>10, <1>13 DEF Tame, Thins
<1>15. Ends(w, x) /\ Stays(w, x) /\ Tells(w, x)
  BY <1>11, <1>13 DEF Tame, Ends, Stays, Tells
<1>16. ASSUME NEW q \in Party PROVE Carries(w.node[q], x.node[q])
  <2>1. Carries(w.node[q], y.node[q]) /\ Carries(y.node[q], x.node[q])
    BY <1>12, <1>13 DEF Tame
  <2> QED BY <2>1 DEF Carries, Holds
<1> QED BY <1>2, <1>13, <1>14, <1>15, <1>16 DEF Sends, Tame

(* Register may be called when every open end but the new one is the       *)
(* registered one; then the new one is the only open end of its party.     *)
LEMMA Registering ==
  ASSUME NEW w \in WorldType, NEW p \in Party, NEW c \in Conns,
         \A q \in Party, d \in Conns :
           w.conn[d].end[q] = "open" /\ ~(d = c /\ q = p) =>
             w.node[q].connections = d \/ w.node[q].twice
  PROVE  LET x == Register(w, p, c) IN Tame(w, x) /\ Tells(w, x) /\ Live(x)
<1>1. PICK x : x = Register(w, p, c)
  OBVIOUS
<1>2. PICK v : v = IF w.node[p].opening THEN Cancel(w, p) ELSE w
  OBVIOUS
<1>3. PICK old : old = w.node[p].connections
  OBVIOUS
<1>4. Tame(w, v) /\ Tells(w, v) /\ Stays(w, v)
  BY <1>2, Cancelling, TameItself
<1>5. v \in WorldType
  BY <1>4 DEF Tame
<1> DEFINE n == [v.node[p] EXCEPT !.connections = c]
<1>6. PICK y : y = SetNode(v, p, n)
  OBVIOUS
<1>7. v.node[p] \in NodeType
  BY <1>5, WorldParts
<1>8. n \in NodeType /\ n.outbox = v.node[p].outbox /\ n.connections = c
  BY <1>7 DEF NodeType
<1>9. Carries(v.node[p], n) /\ Waits(v.node[p]) = Waits(n)
  BY <1>7, NodeKept DEF NodeType
<1>10. y = [v EXCEPT !.node[p].connections = c]
  BY <1>6 DEF SetNode
<1>11. x = IF old = None THEN Flush(y, p) ELSE CloseEnd(y, old, p)
  BY <1>1, <1>2, <1>3, <1>10 DEF Register
<1> HIDE DEF n
<1>12. /\ Tame(v, y) /\ Tells(v, y) /\ y \in WorldType /\ y.conn = v.conn /\ y.node[p] = n
       /\ \A q \in Party : q # p => y.node[q] = v.node[q]
  BY <1>5, <1>6, <1>8, <1>9, NodeTame
<1>13. Tame(w, y) /\ Tells(w, y)
  BY <1>4, <1>12, TameTwice
<1>14. ASSUME NEW q \in Party, NEW d \in Conns, y.conn[d].end[q] = "open"
       PROVE  \/ y.node[q].connections = d \/ y.node[q].twice
              \/ q = p /\ d = old
  <2>1. w.conn[d].end[q] = "open"
    BY <1>13, <1>14 DEF Tame, Ends
  <2>t. w.node[q].twice => y.node[q].twice
    BY <1>13 DEF Tame, Carries, Holds
  <2>2. CASE q = p /\ d # c
    BY <1>3, <2>1, <2>2, <2>t
  <2>3. CASE q = p /\ d = c
    BY <1>8, <1>12, <2>3
  <2>4. CASE q # p
    BY <1>4, <1>12, <2>1, <2>4, <2>t DEF Stays
  <2> QED BY <2>2, <2>3, <2>4
<1>15. CASE old = None
  <2>1. Live(y)
    BY <1>14, <1>15, Marks DEF Live
  <2>2. Tame(y, x) /\ Tells(y, x) /\ Stays(y, x)
    BY <1>11, <1>12, <1>15, Flushing
  <2>3. Live(x)
    BY <2>1, <2>2, LiveStays
  <2>4. Tame(w, x) /\ Tells(w, x)
    BY <1>13, <2>2, TameTwice
  <2> QED BY <1>1, <2>3, <2>4
<1>16. CASE old # None
  <2>1. old \in Conns
    <3>1. w.node[p] \in NodeType
      BY WorldParts
    <3> QED BY <3>1, <1>3, <1>16 DEF NodeType
  <2>2. x = CloseEnd(y, old, p)
    BY <1>11, <1>16
  <2>3. Tame(y, x) /\ Tells(y, x) /\ x.node = y.node /\ x.conn[old].end[p] = "closed"
    BY <1>12, <2>1, <2>2, Closing
  <2>4. ASSUME NEW q \in Party, NEW d \in Conns, x.conn[d].end[q] = "open"
        PROVE  x.node[q].connections = d \/ x.node[q].twice
    <3>1. y.conn[d].end[q] = "open"
      BY <2>3, <2>4 DEF Tame, Ends
    <3>2. ~(q = p /\ d = old)
      BY <2>3, <2>4
    <3> QED BY <1>14, <2>3, <3>1, <3>2
  <2>5. Live(x)
    BY <2>4 DEF Live
  <2>6. Tame(w, x) /\ Tells(w, x)
    BY <1>13, <2>3, TameTwice
  <2> QED BY <1>1, <2>5, <2>6
<1> QED BY <1>15, <1>16

-----------------------------------------------------------------------------
(* The steps *)

(* A step may also open an end of a connection, once it is established.    *)
Settled(w, x) ==
  \A c \in Conns :
    /\ x.conn[c].init = w.conn[c].init
    /\ w.conn[c].init = None /\ (\A p \in Party : w.conn[c].end[p] = "closed") =>
         \A p \in Party : x.conn[c].end[p] = "closed"
Alters(w, x) ==
  /\ x \in WorldType
  /\ Thins(w, x) /\ Settled(w, x)
  /\ \A p \in Party : Carries(w.node[p], x.node[p])

(* What a helper may do, a step may do.                                    *)
LEMMA AltersTame ==
  ASSUME NEW w, NEW x, Tame(w, x)
  PROVE  Alters(w, x)
BY DEF Alters, Tame, Settled, Ends

(* A step may go on with what a helper does,                               *)
LEMMA AltersTwice ==
  ASSUME NEW w, NEW x, NEW y, Alters(w, x), Tame(x, y)
  PROVE  Alters(w, y)
<1>1. Thins(w, y)
  BY DEF Alters, Tame, Thins
<1>2. Settled(w, y)
  BY DEF Alters, Tame, Settled, Ends
<1>3. ASSUME NEW p \in Party PROVE Carries(w.node[p], y.node[p])
  <2>1. Carries(w.node[p], x.node[p]) /\ Carries(x.node[p], y.node[p])
    BY DEF Alters, Tame
  <2> QED BY <2>1 DEF Carries, Holds
<1> QED BY <1>1, <1>2, <1>3 DEF Alters, Tame

(* or begin with it.                                                       *)
LEMMA AltersThree ==
  ASSUME NEW w, NEW x, NEW y, Tame(w, x), Alters(x, y)
  PROVE  Alters(w, y)
<1>1. Thins(w, y)
  BY DEF Alters, Tame, Thins
<1>2. Settled(w, y)
  BY DEF Alters, Tame, Settled, Ends
<1>3. ASSUME NEW p \in Party PROVE Carries(w.node[p], y.node[p])
  <2>1. Carries(w.node[p], x.node[p]) /\ Carries(x.node[p], y.node[p])
    BY DEF Alters, Tame
  <2> QED BY <2>1 DEF Carries, Holds
<1> QED BY <1>1, <1>2, <1>3 DEF Alters, Tame

(* Opening one end of an established connection is such a step, and so is  *)
(* severing it.                                                            *)
LEMMA Opening ==
  ASSUME NEW w \in WorldType, NEW c \in Conns, NEW p \in Party, w.conn[c].init # None,
         NEW t \in EndType
  PROVE  LET x == [w EXCEPT !.conn[c].end[p] = t]
         IN  /\ Alters(w, x) /\ x.node = w.node
             /\ \A d \in Conns, q \in Party :
                  x.conn[d].end[q] = IF d = c /\ q = p THEN t ELSE w.conn[d].end[q]
<1> DEFINE k == [w.conn[c] EXCEPT !.end[p] = t]
<1>x. PICK x : x = [w EXCEPT !.conn[c].end[p] = t]
  OBVIOUS
<1>1. w.conn[c] \in ConnType
  BY WorldParts
<1>2. /\ k \in ConnType /\ k.init = w.conn[c].init /\ k.wire = w.conn[c].wire
      /\ \A q \in Party : k.end[q] = IF q = p THEN t ELSE w.conn[c].end[q]
  <2>1. PICK e : e = [w.conn[c].end EXCEPT ![p] = t]
    OBVIOUS
  <2>2. /\ e \in [Party -> EndType]
        /\ \A q \in Party : e[q] = IF q = p THEN t ELSE w.conn[c].end[q]
    BY <1>1, <2>1 DEF ConnType
  <2>3. k = [w.conn[c] EXCEPT !.end = e]
    BY <2>1
  <2> HIDE DEF k
  <2> QED BY <1>1, <2>2, <2>3 DEF ConnType
<1>3. x = SetConn(w, c, k)
  BY <1>x DEF SetConn
<1> HIDE DEF k
<1>4. /\ x \in WorldType /\ x.node = w.node /\ x.conn[c] = k
      /\ \A d \in Conns : d # c => x.conn[d] = w.conn[d]
      /\ \A d \in Place, q \in Party : Box(x, d, q) = IF d = c THEN k.wire[q] ELSE Box(w, d, q)
  BY <1>2, <1>3, ConnChanged
<1>5. \A d \in Place, q \in Party : Box(x, d, q) \in {Box(w, d, q), <<>>}
  BY <1>2, <1>4, Marks DEF Box
<1>6. Thins(w, x)
  BY <1>5, ThinBoxes
<1>7. Settled(w, x)
  BY <1>2, <1>4 DEF Settled
<1>8. Alters(w, x)
  BY <1>4, <1>6, <1>7 DEF Alters, Carries, Holds
<1>9. \A d \in Conns, q \in Party :
        x.conn[d].end[q] = IF d = c /\ q = p THEN t ELSE w.conn[d].end[q]
  BY <1>2, <1>4
<1> QED BY <1>x, <1>4, <1>8, <1>9

(* The two variables, as a world and back.                                 *)
LEMMA WorldIs == ASSUME TypeOK PROVE World \in WorldType /\ World.node = node /\ World.conn = conn
BY DEF TypeOK, World, WorldType, NodeType, ConnType, EndType

(* Become makes a world the next one.                                      *)
LEMMA WorldBecomes ==
  ASSUME NEW x \in WorldType, Become(x)
  PROVE  World' = x /\ node' = x.node /\ conn' = x.conn
<1>1. [node |-> x.node, conn |-> x.conn] = x
  BY DEF WorldType
<1>2. node' = x.node /\ conn' = x.conn
  BY DEF Become
<1> QED BY <1>1, <1>2 DEF World

(* The parts of the invariant that a step keeps which changes the world as *)
(* the helpers of the device do.                                           *)
LEMMA TypeKept ==
  ASSUME TypeOK, World' \in WorldType, UNCHANGED <<transport, public>>,
         by' \in [Intros -> Party \cup {None}], called' \in [Intros -> Nat], got' \in [Frame -> Nat],
         faults' \in 0 .. MaxFaults, stops' \in 0 .. MaxStops
  PROVE  TypeOK'
BY DEF TypeOK, World, WorldType, NodeType, ConnType, EndType

(* No frame is new, and no request reaches the greeter.                    *)
LEMMA CourseKept ==
  ASSUME Course, Thins(World, World'), UNCHANGED <<by, got>>, Single(node'),
         \A i \in Intros, p \in Party :
           GreeterEvent(i) \in ToSet(node'[p].events) => GreeterEvent(i) \in ToSet(node[p].events)
  PROVE  Course'
<1>1. \A f \in Frame : Within(World', f) => Within(World, f)
  BY DEF Thins
<1>2. \A i \in Intros : IntroFrame(i) \in Frame /\ ReplyFrame(i) \in Frame
  BY DEF IntroFrame, ReplyFrame, Frame
<1>3. \A f \in Frame : got'[f] <= 1 /\ (Within(World', f) => got'[f] = 0)
  BY <1>1 DEF Course
<1>4. ASSUME NEW i \in Intros
      PROVE  /\ by'[i] = None => ~Within(World', IntroFrame(i)) /\ got'[IntroFrame(i)] = 0
             /\ got'[IntroFrame(i)] = 0 =>
                  /\ ~Within(World', ReplyFrame(i)) /\ got'[ReplyFrame(i)] = 0
                  /\ \A p \in Party : GreeterEvent(i) \notin ToSet(node'[p].events)
             /\ \A p \in Party : GreeterEvent(i) \in ToSet(node'[p].events) =>
                  ~Within(World', ReplyFrame(i)) /\ got'[ReplyFrame(i)] = 0
  BY <1>1, <1>2 DEF Course
<1> QED BY <1>3, <1>4 DEF Course

Elsewhere(N, M, p) == \A q \in Party : q # p => M[q].events = N[q].events
Fresh(N, e) == e.to = "greeter" => \A q \in Party : e \notin ToSet(N[q].events)

(* Events in front of the greeter stay single when failures are added, the *)
(* first one is taken, or one is added that is not there yet.              *)
LEMMA EventsKept ==
  ASSUME NEW N, NEW M, Single(N), \A p \in Party : Holds(N[p], M[p])
  PROVE  /\ Single(M)
         /\ \A i \in Intros, p \in Party :
              GreeterEvent(i) \in ToSet(M[p].events) => GreeterEvent(i) \in ToSet(N[p].events)
<1>1. \A p \in Party : \A k \in DOMAIN M[p].events :
        M[p].events[k].to = "greeter" => k \in DOMAIN N[p].events /\ M[p].events[k] = N[p].events[k]
  BY DEF Holds
<1>2. \A i \in Intros : GreeterEvent(i).to = "greeter"
  BY DEF GreeterEvent
<1>3. Single(M)
  BY <1>1 DEF Single
<1> QED BY <1>1, <1>2, <1>3 DEF ToSet

(* The first event is taken.                                               *)
LEMMA FirstEvent ==
  ASSUME NEW N, NEW M, NEW p \in Party, Single(N), N[p].events \in Seq(Event), N[p].events # <<>>,
         M[p].events = Tail(N[p].events), Elsewhere(N, M, p)
  PROVE  /\ Single(M)
         /\ Head(N[p].events).to = "greeter" =>
              \A q \in Party : Head(N[p].events) \notin ToSet(M[q].events)
         /\ \A q \in Party : ToSet(M[q].events) \subseteq ToSet(N[q].events)
<1> USE DEF Elsewhere
<1> DEFINE s == N[p].events
           From(q, k) == IF q = p THEN k + 1 ELSE k
<1>1. PICK t : t = Tail(s)
  OBVIOUS
<1>2. /\ Len(s) \in Nat \ {0} /\ DOMAIN s = 1 .. Len(s) /\ DOMAIN t = 1 .. Len(s) - 1
      /\ \A k \in 1 .. Len(s) - 1 : t[k] = s[k + 1]
      /\ Head(s) = s[1] /\ ToSet(s) = {Head(s)} \cup ToSet(t)
  BY <1>1, Shortened
<1> HIDE DEF s
<1>3. M[p].events = t
  BY <1>1 DEF s
<1>4. ASSUME NEW q \in Party, NEW k \in DOMAIN M[q].events
      PROVE  /\ From(q, k) \in DOMAIN N[q].events /\ M[q].events[k] = N[q].events[From(q, k)]
             /\ q = p => k \in Int /\ From(q, k) # 1
  <2>1. CASE q = p
    <3>1. k \in 1 .. Len(s) - 1
      BY <1>2, <1>3, <2>1
    <3>2. k \in Int /\ k + 1 \in 1 .. Len(s) /\ k + 1 # 1
      BY <1>2, <3>1
    <3> QED BY <1>2, <1>3, <2>1, <3>1, <3>2 DEF s
  <2>2. CASE q # p
    BY <2>2
  <2> QED BY <2>1, <2>2
<1>5. ASSUME NEW q \in Party, NEW k \in DOMAIN M[q].events, NEW l \in DOMAIN M[q].events, From(q, k) = From(q, l)
      PROVE  k = l
  <2>1. CASE q = p
    <3>1. k \in Int /\ l \in Int /\ k + 1 = l + 1
      BY <1>4, <1>5, <2>1
    <3> QED BY <3>1
  <2>2. CASE q # p
    BY <1>5, <2>2
  <2> QED BY <2>1, <2>2
<1>6. ASSUME Head(s).to = "greeter", NEW q \in Party, NEW k \in DOMAIN M[q].events, M[q].events[k] = Head(s)
      PROVE  FALSE
  <2>1. 1 \in DOMAIN N[p].events /\ N[p].events[1] = Head(s)
    BY <1>2 DEF s
  <2>2. From(q, k) \in DOMAIN N[q].events /\ N[q].events[From(q, k)] = Head(s)
    BY <1>4, <1>6
  <2>3. q = p /\ From(q, k) = 1
    BY <1>6, <2>1, <2>2 DEF Single
  <2> QED BY <1>4, <2>3
<1> HIDE DEF From
<1>7. Single(M)
  <2> SUFFICES ASSUME NEW q \in Party, NEW r \in Party, NEW k \in DOMAIN M[q].events, NEW l \in DOMAIN M[r].events,
                      M[q].events[k] = M[r].events[l], M[q].events[k].to = "greeter"
               PROVE  q = r /\ k = l
    BY DEF Single
  <2>1. q = r /\ From(q, k) = From(r, l)
    BY <1>4 DEF Single
  <2> QED BY <1>5, <2>1
<1>8. \A q \in Party : ToSet(M[q].events) \subseteq ToSet(N[q].events)
  BY <1>4 DEF ToSet
<1> QED BY <1>6, <1>7, <1>8 DEF ToSet, s

(* An event is added that the greeter was not sent before.                 *)
LEMMA LastEvent ==
  ASSUME NEW N, NEW M, NEW p \in Party, NEW e \in Event, Single(N), N[p].events \in Seq(Event),
         M[p].events = Append(N[p].events, e), Elsewhere(N, M, p),
         Fresh(N, e)
  PROVE  /\ Single(M)
         /\ \A q \in Party : ToSet(M[q].events) \subseteq ToSet(N[q].events) \cup {e}
<1> USE DEF Elsewhere, Fresh
<1> DEFINE s == N[p].events
           New(q, k) == q = p /\ k = Len(s) + 1
<1>1. PICK t : t = Append(s, e)
  OBVIOUS
<1>2. /\ Len(s) \in Nat /\ DOMAIN s = 1 .. Len(s) /\ DOMAIN t = 1 .. Len(s) + 1
      /\ \A k \in 1 .. Len(s) : t[k] = s[k]
      /\ t[Len(s) + 1] = e /\ ToSet(t) = ToSet(s) \cup {e}
  BY <1>1, Added
<1> HIDE DEF s
<1>3. M[p].events = t
  BY <1>1 DEF s
<1>4. ASSUME NEW q \in Party, NEW k \in DOMAIN M[q].events
      PROVE  IF New(q, k) THEN M[q].events[k] = e
             ELSE k \in DOMAIN N[q].events /\ M[q].events[k] = N[q].events[k]
  <2>1. CASE q = p
    <3>1. k \in 1 .. Len(s) + 1
      BY <1>2, <1>3, <2>1
    <3>2. k = Len(s) + 1 \/ k \in 1 .. Len(s)
      BY <1>2, <3>1
    <3> QED BY <1>2, <1>3, <2>1, <3>2 DEF s
  <2>2. CASE q # p
    BY <2>2
  <2> QED BY <2>1, <2>2
<1>5. \A q \in Party : \A k \in DOMAIN N[q].events : N[q].events[k] \in ToSet(N[q].events)
  BY DEF ToSet
<1>6. Single(M)
  <2> SUFFICES ASSUME NEW q \in Party, NEW r \in Party, NEW k \in DOMAIN M[q].events, NEW l \in DOMAIN M[r].events,
                      M[q].events[k] = M[r].events[l], M[q].events[k].to = "greeter"
               PROVE  q = r /\ k = l
    BY DEF Single
  <2>1. CASE New(q, k) /\ New(r, l)
    BY <2>1
  <2>2. CASE ~New(q, k) /\ ~New(r, l)
    <3> HIDE DEF New
    <3> QED BY <1>4, <2>2 DEF Single
  <2>3. CASE New(q, k) /\ ~New(r, l)
    <3> HIDE DEF New
    <3> QED BY <1>4, <1>5, <2>3
  <2>4. CASE ~New(q, k) /\ New(r, l)
    <3> HIDE DEF New
    <3> QED BY <1>4, <1>5, <2>4
  <2> QED BY <2>1, <2>2, <2>3, <2>4
<1>7. \A q \in Party : ToSet(M[q].events) \subseteq ToSet(N[q].events) \cup {e}
  BY <1>2, <1>3 DEF s
<1> QED BY <1>6, <1>7

Keeps(n, m) == m.stubs = n.stubs /\ m.sunk = n.sunk /\ Waits(m) \subseteq Waits(n)

(* No callback is called, and none is waited for anew.                     *)
LEMMA CallbacksKept ==
  ASSUME Callbacks, \A p \in Party : Keeps(node[p], node'[p]), UNCHANGED <<by, called>>
  PROVE  Callbacks'
<1>1. \A p \in Party : /\ Waits(node'[p]) \subseteq Waits(node[p])
                       /\ node'[p].stubs = node[p].stubs /\ node'[p].sunk = node[p].sunk
  BY DEF Keeps
<1>2. \A p \in Party : \A i \in Waits(node'[p]) \cup node'[p].stubs : by'[i] = p
  BY <1>1 DEF Callbacks
<1>3. \A i \in Intros : called'[i] <= 1 /\ (called'[i] > 0 => by'[i] \in Party /\ i \in node'[by'[i]].sunk)
  BY <1>1 DEF Callbacks
<1>4. \A p \in Party : \A i \in node'[p].sunk : called'[i] > 0
  BY <1>1 DEF Callbacks
<1> QED BY <1>2, <1>3, <1>4 DEF Callbacks

(* No greeter is registered, and no connection is established.             *)
LEMMA DialersKept ==
  ASSUME TypeOK, Dialers, Settled(World, World'), UNCHANGED <<public, by, called>>,
         \A p \in Party : node'[p].listen = node[p].listen /\ node'[p].listeners = node[p].listeners,
         \A p \in Party \ public : Waits(node[p]) \subseteq Waits(node'[p])
  PROVE  Dialers' /\ Kept
<1>1. \A p \in Party : node'[p].listen \/ node'[p].listeners => p \in public'
  BY DEF Dialers
<1>2. \A c \in Conns :
        /\ conn'[c].init = conn[c].init
        /\ conn[c].init = None /\ (\A p \in Party : conn[c].end[p] = "closed") =>
             \A p \in Party : conn'[c].end[p] = "closed"
  BY DEF Settled, World
<1>3. \A c \in Conns :
        /\ conn'[c].init \in Party => Peer(conn'[c].init) \in public'
        /\ conn'[c].init = None => \A p \in Party : conn'[c].end[p] = "closed"
  BY <1>2 DEF Dialers
<1>4. Kept
  BY DEF Kept, Told
<1> QED BY <1>1, <1>3, <1>4 DEF Dialers

(* What follows of the invariant when frames are thinned out.              *)
LEMMA MostKept ==
  ASSUME AwpInv, World' \in WorldType, Thins(World, World'),
         \A p \in Party : Holds(node[p], node'[p]),
         UNCHANGED <<transport, public, by, called, got>>,
         faults' \in 0 .. MaxFaults, stops' \in 0 .. MaxStops
  PROVE  TypeOK' /\ Apart(World)' /\ Course' /\ Callbacks'
<1>1. TypeOK /\ Course /\ Single(node) /\ Callbacks /\ Apart(World)
  BY DEF AwpInv, Course
<1>2. TypeOK'
  BY <1>1, TypeKept DEF TypeOK
<1>3. Apart(World)'
  BY <1>1 DEF Thins
<1>4. Course'
  BY <1>1, EventsKept, CourseKept
<1>5. \A p \in Party : Keeps(node[p], node'[p])
  BY DEF Holds, Keeps
<1> QED BY <1>1, <1>2, <1>3, <1>4, <1>5, CallbacksKept

(* All of it, when open ends stay registered too, and dialers informed.    *)
LEMMA Stepping ==
  ASSUME AwpInv, NEW x, Become(x), Alters(World, x), Live(x),
         \A p \in Party \ public : Waits(node[p]) \subseteq Waits(x.node[p]),
         UNCHANGED <<transport, public, by, called, got>>,
         faults' \in 0 .. MaxFaults, stops' \in 0 .. MaxStops
  PROVE  AwpInv' /\ Kept
<1>1. TypeOK /\ World.node = node /\ World.conn = conn
  BY WorldIs DEF AwpInv
<1>2. World' = x /\ node' = x.node /\ conn' = x.conn /\ x \in WorldType
  BY WorldBecomes DEF Alters
<1>3. \A p \in Party : /\ Holds(node[p], node'[p])
                       /\ node'[p].listen = node[p].listen /\ node'[p].listeners = node[p].listeners
  BY <1>1, <1>2 DEF Alters, Carries
<1>4. TypeOK' /\ Apart(World)' /\ Course' /\ Callbacks'
  BY <1>2, <1>3, MostKept DEF Alters
<1>5. Live(World)'
  BY <1>2
<1>6. Dialers' /\ Kept
  BY <1>2, <1>3, DialersKept DEF AwpInv, Alters
<1> QED BY <1>4, <1>5, <1>6 DEF AwpInv

(* The connecting party is told of its connection.                         *)
LEMMA OnConnected == ASSUME AwpInv, NEW p \in Party, Connected(p) PROVE AwpInv' /\ Kept
<1> DEFINE c == node[p].attempt
           n == [World.node[p] EXCEPT !.opening = FALSE, !.attempt = None]
<1>1. World \in WorldType /\ World.node = node /\ World.conn = conn
  BY WorldIs DEF AwpInv
<1>2. PICK y : y = SetNode(World, p, n)
  OBVIOUS
<1>3. PICK w : w = [y EXCEPT !.conn[c].end[p] = "open"]
  OBVIOUS
<1>4. PICK x : x = Register(w, p, c)
  OBVIOUS
<1>5. c \in Conns /\ ~Gone(c, p) /\ UNCHANGED <<transport, public, by, called, got, faults, stops>>
  BY DEF Connected
<1>6. Become(x)
  BY <1>2, <1>3, <1>4 DEF Connected, SetNode
<1> HIDE DEF c
<1>7. conn[c].init # None
  BY <1>5, Peers DEF Gone, AwpInv, Dialers
<1>8. World.node[p] \in NodeType
  BY <1>1, WorldParts
<1>9. n \in NodeType /\ n.outbox = World.node[p].outbox /\ n.connections = World.node[p].connections
  BY <1>8 DEF NodeType
<1>10. Carries(World.node[p], n) /\ Waits(World.node[p]) = Waits(n)
  BY <1>8, NodeKept DEF NodeType
<1> HIDE DEF n
<1>11. Tame(World, y) /\ Tells(World, y) /\ Stays(World, y) /\ y \in WorldType /\ y.conn = conn
  BY <1>1, <1>2, <1>9, <1>10, NodeTame
<1>e. "open" \in EndType
  BY DEF EndType
<1>12. /\ Alters(y, w) /\ w.node = y.node
       /\ \A d \in Conns, q \in Party :
            w.conn[d].end[q] = IF d = c /\ q = p THEN "open" ELSE conn[d].end[q]
  BY <1>e, <1>3, <1>5, <1>7, <1>11, Opening
<1>13. \A q \in Party, d \in Conns :
         w.conn[d].end[q] = "open" /\ ~(d = c /\ q = p) =>
           w.node[q].connections = d \/ w.node[q].twice
  BY <1>1, <1>11, <1>12 DEF AwpInv, Live, Stays, Tame, Carries, Holds
<1>14. Tame(w, x) /\ Tells(w, x) /\ Live(x)
  BY <1>4, <1>5, <1>12, <1>13, Registering DEF Alters
<1>15. Alters(World, x)
  BY <1>11, <1>12, <1>14, AltersTame, AltersTwice, AltersThree
<1>16. \A q \in Party \ public : Waits(node[q]) \subseteq Waits(x.node[q])
  BY <1>1, <1>11, <1>12, <1>14 DEF Tells
<1>17. faults' \in 0 .. MaxFaults /\ stops' \in 0 .. MaxStops
  BY <1>5 DEF AwpInv, TypeOK
<1> QED BY <1>5, <1>6, <1>14, <1>15, <1>16, <1>17, Stepping

(* The connecting party is told that there is none.                        *)
LEMMA OnConnectFailed == ASSUME AwpInv, NEW p \in Party, ConnectFailed(p) PROVE AwpInv' /\ Kept
<1> DEFINE c == node[p].attempt
           n == [World.node[p] EXCEPT !.opening = FALSE, !.attempt = None]
<1>1. World \in WorldType /\ World.node = node /\ World.conn = conn
  BY WorldIs DEF AwpInv
<1>2. PICK y : y = SetNode(World, p, n)
  OBVIOUS
<1>3. PICK w : w = IF c \in Conns THEN CloseEnd(y, c, p) ELSE y
  OBVIOUS
<1>4. PICK x : x = Lose(w, p, TRUE)
  OBVIOUS
<1>5. UNCHANGED <<transport, public, by, called, got, faults, stops>>
  BY DEF ConnectFailed
<1>6. Become(x)
  BY <1>2, <1>3, <1>4 DEF ConnectFailed, SetNode
<1>8. World.node[p] \in NodeType
  BY <1>1, WorldParts
<1>9. n \in NodeType /\ n.outbox = World.node[p].outbox /\ n.connections = World.node[p].connections
  BY <1>8 DEF NodeType
<1>10. Carries(World.node[p], n) /\ Waits(World.node[p]) = Waits(n)
  BY <1>8, NodeKept DEF NodeType
<1> HIDE DEF n, c
<1>11. Tame(World, y) /\ Tells(World, y) /\ Stays(World, y) /\ y \in WorldType
  BY <1>1, <1>2, <1>9, <1>10, NodeTame
<1>12. Tame(y, w) /\ Tells(y, w) /\ Stays(y, w) /\ w \in WorldType
  BY <1>3, <1>11, Closing, TameItself DEF Tame
<1>13. Tame(w, x) /\ Tells(w, x) /\ Stays(w, x)
  BY <1>4, <1>12, Losing
<1>14. Tame(World, w) /\ Tells(World, w) /\ Stays(World, w)
  BY <1>11, <1>12, TameTwice
<1>15. Tame(World, x) /\ Tells(World, x) /\ Stays(World, x)
  BY <1>13, <1>14, TameTwice
<1>16. Live(x) /\ Alters(World, x)
  BY <1>15, LiveStays, AltersTame DEF AwpInv
<1>17. faults' \in 0 .. MaxFaults /\ stops' \in 0 .. MaxStops
  BY <1>5 DEF AwpInv, TypeOK
<1>18. \A q \in Party \ public : Waits(node[q]) \subseteq Waits(x.node[q])
  BY <1>1, <1>15 DEF Tells
<1> QED BY <1>5, <1>6, <1>16, <1>17, <1>18, Stepping

(* The listening party is told of its connection, or it comes to nothing.  *)
LEMMA OnOnOpen == ASSUME AwpInv, NEW p \in Party, NEW c \in Conns, OnOpen(p, c) PROVE AwpInv' /\ Kept
<1>1. World \in WorldType /\ World.node = node /\ World.conn = conn
  BY WorldIs DEF AwpInv
<1>2. /\ UNCHANGED <<transport, public, by, called, got, faults, stops>>
      /\ conn[c].init = Peer(p)
  BY DEF OnOpen
<1>3. faults' \in 0 .. MaxFaults /\ stops' \in 0 .. MaxStops
  BY <1>2 DEF AwpInv, TypeOK
<1>4. CASE Gone(c, p)
  <2>1. PICK x : x = CloseEnd(World, c, p)
    OBVIOUS
  <2>2. Become(x)
    BY <1>4, <2>1 DEF OnOpen
  <2>3. Tame(World, x) /\ Tells(World, x) /\ Stays(World, x)
    BY <1>1, <2>1, Closing
  <2>4. Live(x) /\ Alters(World, x)
    BY <2>3, LiveStays, AltersTame DEF AwpInv
  <2>5. \A q \in Party \ public : Waits(node[q]) \subseteq Waits(x.node[q])
    BY <1>1, <2>3 DEF Tells
  <2> QED BY <1>2, <1>3, <2>2, <2>4, <2>5, Stepping
<1>5. CASE ~Gone(c, p)
  <2>1. PICK w : w = [World EXCEPT !.conn[c].end[p] = "open"]
    OBVIOUS
  <2>2. PICK x : x = Register(w, p, c)
    OBVIOUS
  <2>3. Become(x)
    BY <1>5, <2>1, <2>2 DEF OnOpen
  <2>4. conn[c].init # None
    BY <1>2, Peers, Marks
  <2>e. "open" \in EndType
    BY DEF EndType
  <2>5. /\ Alters(World, w) /\ w.node = node
        /\ \A d \in Conns, q \in Party :
             w.conn[d].end[q] = IF d = c /\ q = p THEN "open" ELSE conn[d].end[q]
    BY <1>1, <2>1, <2>4, <2>e, Opening
  <2>6. \A q \in Party, d \in Conns :
          w.conn[d].end[q] = "open" /\ ~(d = c /\ q = p) =>
            w.node[q].connections = d \/ w.node[q].twice
    BY <1>1, <2>5 DEF AwpInv, Live
  <2>7. Tame(w, x) /\ Tells(w, x) /\ Live(x)
    BY <2>2, <2>5, <2>6, Registering DEF Alters
  <2>8. Alters(World, x)
    BY <2>5, <2>7, AltersTwice
  <2>9. \A q \in Party \ public : Waits(node[q]) \subseteq Waits(x.node[q])
    BY <2>5, <2>7 DEF Tells
  <2> QED BY <1>2, <1>3, <2>3, <2>7, <2>8, <2>9, Stepping
<1> QED BY <1>4, <1>5

(* A party that never listens has connected itself, so its core wakes up.  *)
LEMMA OnOnClose == ASSUME AwpInv, NEW p \in Party, NEW c \in Conns, OnClose(p, c) PROVE AwpInv' /\ Kept
<1>1. World \in WorldType /\ World.node = node /\ World.conn = conn
  BY WorldIs DEF AwpInv
<1>2. /\ UNCHANGED <<transport, public, by, called, got, faults, stops>>
      /\ conn[c].end[p] = "open"
  BY DEF OnClose
<1>3. faults' \in 0 .. MaxFaults /\ stops' \in 0 .. MaxStops
  BY <1>2 DEF AwpInv, TypeOK
<1>4. PICK w : w = CloseEnd(World, c, p)
  OBVIOUS
<1>5. PICK wakeup \in BOOLEAN : wakeup <=> conn[c].init = p
  OBVIOUS
<1>6. PICK x : x = Unregister(w, p, wakeup)
  OBVIOUS
<1>7. Become(x)
  BY <1>4, <1>5, <1>6 DEF OnClose
<1>8. Tame(World, w) /\ Tells(World, w) /\ w.node = node /\ w.conn[c].end[p] = "closed"
  BY <1>1, <1>4, Closing
<1>9. /\ Tame(w, x) /\ (wakeup => Tells(w, x)) /\ x.conn = w.conn
      /\ \A q \in Party : q # p => x.node[q] = w.node[q]
  BY <1>6, <1>8, Unregistering DEF Tame
<1>10. Tame(World, x) /\ Alters(World, x)
  BY <1>8, <1>9, TameTwice, AltersTame
<1>11. ASSUME NEW q \in Party, NEW d \in Conns, x.conn[d].end[q] = "open"
       PROVE  x.node[q].connections = d \/ x.node[q].twice
  <2>1. conn[d].end[q] = "open"
    BY <1>1, <1>10, <1>11 DEF Tame, Ends
  <2>2. node[q].connections = d \/ node[q].twice
    BY <1>1, <2>1 DEF AwpInv, Live
  <2>3. node[q].twice => x.node[q].twice
    BY <1>1, <1>10 DEF Tame, Carries, Holds
  <2>4. q = p => node[p].twice
    <3>1. node[p].connections = c \/ node[p].twice
      BY <1>1, <1>2 DEF AwpInv, Live
    <3> QED BY <1>8, <1>9, <1>11, <2>2, <3>1
  <2> QED BY <1>8, <1>9, <2>2, <2>3, <2>4
<1>12. Live(x)
  BY <1>11 DEF Live
<1>13. ~wakeup => p \in public
  <2>1. conn[c].init \in Party
    <3>1. conn[c].init \in Party \cup {None}
      BY <1>1, WorldParts DEF ConnType
    <3>2. conn[c].init # None
      BY <1>2 DEF AwpInv, Dialers
    <3> QED BY <3>1, <3>2
  <2>2. Peer(conn[c].init) \in public
    BY <2>1 DEF AwpInv, Dialers
  <2> QED BY <1>5, <2>1, <2>2, Peers
<1>14. \A q \in Party \ public : Waits(node[q]) \subseteq Waits(x.node[q])
  BY <1>8, <1>9, <1>13 DEF Tells
<1> QED BY <1>2, <1>3, <1>7, <1>10, <1>12, <1>14, Stepping

(* A party that did not connect itself listens.                            *)
LEMMA Accepting ==
  ASSUME AwpInv, NEW p \in Party, NEW c \in Conns, conn[c].end[p] # "closed", conn[c].init # p
  PROVE  p \in public
<1>1. World \in WorldType /\ World.conn = conn
  BY WorldIs DEF AwpInv
<1>2. conn[c].init \in Party \cup {None}
  BY <1>1, WorldParts DEF ConnType
<1>3. conn[c].init # None
  BY DEF AwpInv, Dialers
<1> QED BY <1>2, <1>3, Peers DEF AwpInv, Dialers

(* A connection is severed: its end is no longer open.                     *)
LEMMA OnSever == ASSUME AwpInv, NEW p \in Party, NEW c \in Conns, Sever(p, c) PROVE AwpInv' /\ Kept
<1>1. World \in WorldType /\ World.node = node /\ World.conn = conn
  BY WorldIs DEF AwpInv
<1>2. /\ UNCHANGED <<transport, public, by, called, got, faults, stops>>
      /\ conn[c].end[p] = "open"
  BY DEF Sever
<1>3. faults' \in 0 .. MaxFaults /\ stops' \in 0 .. MaxStops
  BY <1>2 DEF AwpInv, TypeOK
<1>4. PICK v : v = CloseEnd(World, c, p)
  OBVIOUS
<1>5. PICK w : w = [v EXCEPT !.conn[c].end[p] = "severed"]
  OBVIOUS
<1>6. PICK wakeup \in BOOLEAN : wakeup <=> conn[c].init = p
  OBVIOUS
<1>7. PICK x : x = Unregister(w, p, wakeup)
  OBVIOUS
<1>8. Become(x)
  BY <1>4, <1>5, <1>6, <1>7 DEF Sever
<1>9. Tame(World, v) /\ Tells(World, v) /\ v.node = node
  BY <1>1, <1>4, Closing
<1>10. v \in WorldType /\ v.conn[c].init # None
  BY <1>1, <1>2, <1>9 DEF AwpInv, Dialers, Tame, Ends
<1>e. "severed" \in EndType
  BY DEF EndType
<1>11. /\ Alters(v, w) /\ w.node = node
       /\ \A d \in Conns, q \in Party :
            w.conn[d].end[q] = IF d = c /\ q = p THEN "severed" ELSE v.conn[d].end[q]
  BY <1>e, <1>5, <1>9, <1>10, Opening
<1>12. /\ Tame(w, x) /\ (wakeup => Tells(w, x)) /\ x.conn = w.conn
       /\ \A q \in Party : q # p => x.node[q] = w.node[q]
  BY <1>7, <1>11, Unregistering DEF Alters
<1>13. Alters(World, x)
  BY <1>9, <1>11, <1>12, AltersTwice, AltersThree
<1>14. ASSUME NEW q \in Party, NEW d \in Conns, x.conn[d].end[q] = "open"
       PROVE  x.node[q].connections = d \/ x.node[q].twice
  <2>1. conn[d].end[q] = "open" /\ ~(d = c /\ q = p)
    BY <1>1, <1>9, <1>11, <1>12, <1>14 DEF Tame, Ends
  <2>2. node[q].connections = d \/ node[q].twice
    BY <1>1, <2>1 DEF AwpInv, Live
  <2>3. node[q].twice => x.node[q].twice
    BY <1>11, <1>12 DEF Tame, Carries, Holds
  <2>4. node[p].connections = c \/ node[p].twice
    BY <1>1, <1>2 DEF AwpInv, Live
  <2> QED BY <1>11, <1>12, <2>1, <2>2, <2>3, <2>4
<1>15. Live(x)
  BY <1>14 DEF Live
<1>16. ~wakeup => p \in public
  BY <1>2, <1>6, Accepting
<1>17. \A q \in Party \ public : Waits(node[q]) \subseteq Waits(x.node[q])
  BY <1>11, <1>12, <1>16 DEF Tells
<1> QED BY <1>2, <1>3, <1>8, <1>13, <1>15, <1>17, Stepping

(* It reports for the second time, when another one may be registered.     *)
LEMMA OnCloseAgain ==
  ASSUME AwpInv, NEW p \in Party, NEW c \in Conns, CloseAgain(p, c) PROVE AwpInv' /\ Kept
<1> DEFINE n == [node[p] EXCEPT !.twice = @ \/ node[p].connections # None]
<1>1. World \in WorldType /\ World.node = node /\ World.conn = conn
  BY WorldIs DEF AwpInv
<1>2. /\ UNCHANGED <<transport, public, by, called, got, faults, stops>>
      /\ conn[c].end[p] = "severed"
  BY DEF CloseAgain
<1>3. faults' \in 0 .. MaxFaults /\ stops' \in 0 .. MaxStops
  BY <1>2 DEF AwpInv, TypeOK
<1>4. PICK y : y = SetNode(World, p, n)
  OBVIOUS
<1>5. PICK w : w = CloseEnd(y, c, p)
  OBVIOUS
<1>6. PICK wakeup \in BOOLEAN : wakeup <=> conn[c].init = p
  OBVIOUS
<1>7. PICK x : x = Unregister(w, p, wakeup)
  OBVIOUS
<1>8. Become(x)
  <2>1. y = [World EXCEPT !.node[p].twice = @ \/ node[p].connections # None]
    BY <1>1, <1>4 DEF SetNode
  <2> QED BY <1>5, <1>6, <1>7, <2>1 DEF CloseAgain
<1>9. node[p] \in NodeType
  BY <1>1, WorldParts
<1>10. /\ n \in NodeType /\ n.outbox = node[p].outbox /\ n.connections = node[p].connections
       /\ n.stubs = node[p].stubs /\ n.sunk = node[p].sunk /\ n.lost = node[p].lost
       /\ n.events = node[p].events /\ n.listen = node[p].listen /\ n.listeners = node[p].listeners
       /\ (n.twice <=> node[p].twice \/ node[p].connections # None)
  BY <1>9, Zenon DEF NodeType
<1> HIDE DEF n
<1>11. Carries(node[p], n) /\ Waits(n) = Waits(node[p])
  BY <1>10 DEF Carries, Holds, Waits, Forwarded
<1>12. /\ Tame(World, y) /\ Tells(World, y) /\ y \in WorldType /\ y.node[p] = n
       /\ \A q \in Party : q # p => y.node[q] = node[q]
  BY <1>1, <1>4, <1>10, <1>11, NodeTame
<1>13. Tame(y, w) /\ Tells(y, w) /\ w.node = y.node /\ w \in WorldType
  BY <1>5, <1>12, Closing DEF Tame
<1>14. /\ Tame(w, x) /\ (wakeup => Tells(w, x))
       /\ \A q \in Party : q # p => x.node[q] = w.node[q]
  BY <1>7, <1>13, Unregistering
<1>15. Tame(World, w) /\ Tells(World, w)
  BY <1>12, <1>13, TameTwice
<1>16. Tame(World, x) /\ Alters(World, x)
  BY <1>14, <1>15, TameTwice, AltersTame
<1>17. ASSUME NEW q \in Party, NEW d \in Conns, x.conn[d].end[q] = "open"
       PROVE  x.node[q].connections = d \/ x.node[q].twice
  <2>1. conn[d].end[q] = "open"
    BY <1>1, <1>16, <1>17 DEF Tame, Ends
  <2>2. node[q].connections = d \/ node[q].twice
    BY <1>1, <2>1 DEF AwpInv, Live
  <2>3. n.twice => x.node[p].twice
    BY <1>12, <1>13, <1>14 DEF Tame, Carries, Holds
  <2> QED BY <1>10, <1>12, <1>13, <1>14, <2>2, <2>3, Marks
<1>18. Live(x)
  BY <1>17 DEF Live
<1>19. ~wakeup => p \in public
  BY <1>2, <1>6, Accepting
<1>20. \A q \in Party \ public : Waits(node[q]) \subseteq Waits(x.node[q])
  BY <1>1, <1>12, <1>13, <1>14, <1>15, <1>19 DEF Tells
<1> QED BY <1>2, <1>3, <1>8, <1>16, <1>18, <1>20, Stepping

(* A connection fails and the device is not told.                          *)
LEMMA OnFailSilently ==
  ASSUME AwpInv, NEW p \in Party, NEW c \in Conns, FailSilently(p, c) PROVE AwpInv' /\ Kept
<1>1. World \in WorldType /\ World.node = node
  BY WorldIs DEF AwpInv
<1>2. UNCHANGED <<transport, public, by, called, got, faults, stops>>
  BY DEF FailSilently
<1>3. faults' \in 0 .. MaxFaults /\ stops' \in 0 .. MaxStops
  BY <1>2 DEF AwpInv, TypeOK
<1>4. PICK x : x = CloseEnd(World, c, p)
  OBVIOUS
<1>5. Become(x)
  BY <1>4 DEF FailSilently
<1>6. Tame(World, x) /\ Tells(World, x) /\ Stays(World, x)
  BY <1>1, <1>4, Closing
<1>7. Live(x) /\ Alters(World, x)
  BY <1>6, LiveStays, AltersTame DEF AwpInv
<1>8. \A q \in Party \ public : Waits(node[q]) \subseteq Waits(x.node[q])
  BY <1>1, <1>6 DEF Tells
<1> QED BY <1>2, <1>3, <1>5, <1>7, <1>8, Stepping

(* A frame leaves a wire.                                                  *)
LEMMA Leaving ==
  ASSUME NEW w \in WorldType, NEW c \in Conns, NEW p \in Party, NEW k \in DOMAIN w.conn[c].wire[p],
         NEW e \in ConnType, e.init = w.conn[c].init, e.end = w.conn[c].end,
         \A q \in Party : e.wire[q] = IF q = p THEN RemoveAt(w.conn[c].wire[p], k) ELSE w.conn[c].wire[q],
         NEW x, x = SetConn(w, c, e)
  PROVE  /\ Tame(w, x) /\ Tells(w, x) /\ Stays(w, x) /\ x.node = w.node
         /\ \A d \in Conns : x.conn[d].init = w.conn[d].init
         /\ w.conn[c].wire[p][k] \in Frame /\ Within(w, w.conn[c].wire[p][k])
         /\ Apart(w) => ~Within(x, w.conn[c].wire[p][k])
<1>1. /\ x \in WorldType /\ x.node = w.node /\ x.conn[c] = e
      /\ \A d \in Conns : d # c => x.conn[d] = w.conn[d]
      /\ \A d \in Place, q \in Party : Box(x, d, q) = IF d = c THEN e.wire[q] ELSE Box(w, d, q)
  BY ConnChanged
<1>2. Box(w, c, p) = w.conn[c].wire[p]
  BY Marks DEF Box
<1>3. \A d \in Place, q \in Party :
        Box(x, d, q) = IF d = c /\ q = p THEN RemoveAt(Box(w, c, p), k) ELSE Box(w, d, q)
  BY <1>1, <1>2, Marks DEF Box
<1>4. Thins(w, x) /\ Within(w, Box(w, c, p)[k]) /\ (Apart(w) => ~Within(x, Box(w, c, p)[k]))
  BY <1>2, <1>3, ThinRemoved
<1>5. \A d \in Conns : x.conn[d].init = w.conn[d].init /\ x.conn[d].end = w.conn[d].end
  BY <1>1
<1>6. Ends(w, x)
  BY <1>5 DEF Ends
<1>7. Tame(w, x) /\ Tells(w, x) /\ Stays(w, x)
  BY <1>1, <1>4, <1>6 DEF Tame, Carries, Holds, Tells, Stays
<1>8. w.conn[c].wire[p][k] \in Frame
  <2>1. w.conn[c] \in ConnType
    BY WorldParts
  <2>2. PICK s : s = w.conn[c].wire[p] /\ s \in Seq(Frame)
    BY <2>1 DEF ConnType
  <2>3. k \in 1 .. Len(s)
    BY <2>2, LenProperties
  <2> QED BY <2>2, <2>3, ElementOfSeq
<1> QED BY <1>1, <1>2, <1>4, <1>5, <1>7, <1>8

(* A tame step of the transport.                                           *)
LEMMA TransportStep ==
  ASSUME AwpInv, NEW c \in Conns, NEW e, conn' = [conn EXCEPT ![c] = e],
         Tame(World, SetConn(World, c, e)), Stays(World, SetConn(World, c, e)),
         Tells(World, SetConn(World, c, e)),
         UNCHANGED <<transport, public, node, by, called, got>>,
         faults' \in 0 .. MaxFaults, stops' \in 0 .. MaxStops
  PROVE  AwpInv' /\ Kept
<1>1. World \in WorldType /\ World.node = node /\ World.conn = conn
  BY WorldIs DEF AwpInv
<1>2. PICK x : x = SetConn(World, c, e)
  OBVIOUS
<1>3. Become(x)
  BY <1>2 DEF Become, SetConn, World
<1>4. Tame(World, x) /\ Stays(World, x) /\ Tells(World, x)
  BY <1>2
<1>5. Live(x) /\ Alters(World, x)
  BY <1>4, LiveStays, AltersTame DEF AwpInv
<1>6. \A q \in Party \ public : Waits(node[q]) \subseteq Waits(x.node[q])
  BY <1>1, <1>4 DEF Tells
<1> QED BY <1>3, <1>5, <1>6, Stepping

(* A frame is lost on its way.                                             *)
LEMMA OnLoseFrame == ASSUME AwpInv, NEW p \in Party, NEW c \in Conns, LoseFrame(p, c) PROVE AwpInv' /\ Kept
<1>1. World \in WorldType /\ World.node = node /\ World.conn = conn
  BY WorldIs DEF AwpInv
<1>2. PICK k \in DOMAIN conn[c].wire[p] : conn' = [conn EXCEPT ![c].wire[p] = RemoveAt(@, k)]
  BY DEF LoseFrame
<1>3. UNCHANGED <<transport, public, node, by, called, got, faults, stops>>
  BY DEF LoseFrame
<1>4. faults' \in 0 .. MaxFaults /\ stops' \in 0 .. MaxStops
  BY <1>3 DEF AwpInv, TypeOK
<1>5. PICK v : v = [conn[c].wire EXCEPT ![p] = RemoveAt(@, k)]
  OBVIOUS
<1>6. PICK e : e = [conn[c] EXCEPT !.wire = v]
  OBVIOUS
<1>7. conn' = [conn EXCEPT ![c] = e]
  BY <1>2, <1>5, <1>6
<1>8. conn[c] \in ConnType
  BY <1>1, WorldParts
<1>9. conn[c].wire \in [Party -> Seq(Frame)] /\ RemoveAt(conn[c].wire[p], k) \in Seq(Frame)
  BY <1>8, Removed DEF ConnType
<1>10. /\ v \in [Party -> Seq(Frame)]
       /\ \A q \in Party : v[q] = IF q = p THEN RemoveAt(conn[c].wire[p], k) ELSE conn[c].wire[q]
  BY <1>5, <1>9
<1>11. e \in ConnType /\ e.init = conn[c].init /\ e.end = conn[c].end /\ e.wire = v
  BY <1>6, <1>8, <1>10 DEF ConnType
<1>12. PICK x : x = SetConn(World, c, e)
  OBVIOUS
<1>13. Tame(World, x) /\ Tells(World, x) /\ Stays(World, x)
  BY <1>1, <1>10, <1>11, <1>12, Leaving, SMTT(30)
<1> QED BY <1>3, <1>4, <1>7, <1>12, <1>13, TransportStep

(* A connection fails by itself.                                           *)
LEMMA OnFault == ASSUME AwpInv, NEW c \in Conns, Fault(c) PROVE AwpInv' /\ Kept
<1>1. World \in WorldType /\ World.node = node /\ World.conn = conn
  BY WorldIs DEF AwpInv
<1>2. UNCHANGED <<transport, public, node, by, called, got, stops>>
  BY DEF Fault
<1>3. PICK e : e = [conn[c] EXCEPT !.down = TRUE]
  OBVIOUS
<1>4. conn' = [conn EXCEPT ![c] = e]
  BY <1>3 DEF Fault
<1>5. conn[c] \in ConnType
  BY <1>1, WorldParts
<1>6. e \in ConnType /\ e.init = conn[c].init /\ e.end = conn[c].end /\ e.wire = conn[c].wire
  BY <1>3, <1>5 DEF ConnType
<1>7. PICK x : x = SetConn(World, c, e)
  OBVIOUS
<1>8. /\ x \in WorldType /\ x.node = node /\ x.conn[c] = e
      /\ \A d \in Conns : d # c => x.conn[d] = conn[d]
      /\ \A d \in Place, q \in Party : Box(x, d, q) = IF d = c THEN e.wire[q] ELSE Box(World, d, q)
  BY <1>1, <1>6, <1>7, ConnChanged
<1>9. \A d \in Place, q \in Party : Box(x, d, q) \in {Box(World, d, q), <<>>}
  BY <1>1, <1>6, <1>8, Marks DEF Box
<1>10. Thins(World, x) /\ Ends(World, x)
  BY <1>1, <1>6, <1>8, <1>9, ThinBoxes DEF Ends
<1>11. Tame(World, x) /\ Tells(World, x) /\ Stays(World, x)
  BY <1>1, <1>8, <1>10 DEF Tame, Carries, Holds, Tells, Stays
<1>12. faults' \in 0 .. MaxFaults /\ stops' \in 0 .. MaxStops
  <2>1. faults > 0 /\ faults' = faults - 1 /\ stops' = stops
    BY DEF Fault
  <2>2. faults \in 0 .. MaxFaults /\ stops \in 0 .. MaxStops
    BY DEF AwpInv, TypeOK
  <2> QED BY <2>1, <2>2, AwpAssumption
<1> QED BY <1>2, <1>4, <1>7, <1>11, <1>12, TransportStep

(* A party that changes without sending anything.                          *)
LEMMA NodeStep ==
  ASSUME AwpInv, NEW p \in Party, NEW n \in NodeType, node' = [node EXCEPT ![p] = n], UNCHANGED conn,
         n.outbox = node[p].outbox, n.connections = node[p].connections, n.twice = node[p].twice
  PROVE  /\ World' \in WorldType /\ Live(World)' /\ Thins(World, World')
         /\ node'[p] = n /\ \A q \in Party : q # p => node'[q] = node[q]
         /\ Holds(node[p], n) => \A q \in Party : Holds(node[q], node'[q])
<1>1. World \in WorldType /\ World.node = node /\ World.conn = conn
  BY WorldIs DEF AwpInv
<1>2. PICK x : x = SetNode(World, p, n)
  OBVIOUS
<1>3. World' = x /\ node' = x.node
  BY <1>2 DEF SetNode, World
<1>4. /\ x \in WorldType /\ x.conn = conn /\ x.node[p] = n
      /\ \A q \in Party : q # p => x.node[q] = node[q]
      /\ \A c \in Place, q \in Party : Box(x, c, q) = IF c = None /\ q = p THEN n.outbox ELSE Box(World, c, q)
  BY <1>1, <1>2, NodeChanged
<1>5. \A c \in Place, q \in Party : Box(x, c, q) \in {Box(World, c, q), <<>>}
  BY <1>1, <1>4 DEF Box
<1>6. Thins(World, x)
  BY <1>5, ThinBoxes
<1>7. Live(x)
  BY <1>1, <1>4 DEF AwpInv, Live
<1>8. Holds(node[p], n) => \A q \in Party : Holds(node[q], x.node[q])
  BY <1>4 DEF Holds
<1> QED BY <1>3, <1>4, <1>6, <1>7, <1>8

(* A party that is public begins or ends to listen.                        *)
LEMMA ListenStep ==
  ASSUME AwpInv, NEW p \in Party, NEW a \in BOOLEAN, NEW b \in BOOLEAN,
         node' = [node EXCEPT ![p] = [node[p] EXCEPT !.listen = a, !.listeners = b]],
         p \in public, UNCHANGED <<transport, public, conn, by, called, got, faults, stops>>
  PROVE  AwpInv' /\ Kept
<1>1. World \in WorldType /\ World.node = node /\ World.conn = conn
  BY WorldIs DEF AwpInv
<1>2. PICK n : n = [node[p] EXCEPT !.listen = a, !.listeners = b]
  OBVIOUS
<1>3. node[p] \in NodeType
  BY <1>1, WorldParts
<1>4. /\ n \in NodeType /\ n.outbox = node[p].outbox /\ n.connections = node[p].connections
      /\ n.stubs = node[p].stubs /\ n.sunk = node[p].sunk /\ n.lost = node[p].lost /\ n.events = node[p].events
      /\ n.twice = node[p].twice
  BY <1>2, <1>3 DEF NodeType
<1>5. Holds(node[p], n) /\ Waits(n) = Waits(node[p])
  BY <1>4 DEF Holds, Waits, Forwarded
<1>6. node' = [node EXCEPT ![p] = n]
  BY <1>2
<1>7. /\ World' \in WorldType /\ Live(World)' /\ Thins(World, World')
      /\ node'[p] = n /\ \A q \in Party : q # p => node'[q] = node[q]
      /\ \A q \in Party : Holds(node[q], node'[q])
  BY <1>4, <1>5, <1>6, NodeStep
<1>8. faults' \in 0 .. MaxFaults /\ stops' \in 0 .. MaxStops
  BY DEF AwpInv, TypeOK
<1>9. TypeOK' /\ Apart(World)' /\ Course' /\ Callbacks'
  BY <1>7, <1>8, MostKept
<1>10. Dialers'
  <2>1. \A q \in Party : node'[q].listen \/ node'[q].listeners => q \in public'
    BY <1>7 DEF AwpInv, Dialers
  <2> QED BY <2>1 DEF AwpInv, Dialers
<1>11. Kept
  BY <1>5, <1>7 DEF Kept, Told
<1> QED BY <1>7, <1>9, <1>10, <1>11 DEF AwpInv

(* A greeter is to be registered.                                          *)
LEMMA OnListen == ASSUME AwpInv, NEW p \in Party, Listen(p) PROVE AwpInv' /\ Kept
<1>1. World \in WorldType /\ World.node = node
  BY WorldIs DEF AwpInv
<1>2. node[p] \in NodeType
  BY <1>1, WorldParts
<1>3. node' = [node EXCEPT ![p] = [node[p] EXCEPT !.listen = TRUE]] /\ node[p].listeners = FALSE
  BY <1>2 DEF Listen, NodeType
<1>4. [node[p] EXCEPT !.listen = TRUE] = [node[p] EXCEPT !.listen = TRUE, !.listeners = FALSE]
  BY <1>2, <1>3 DEF NodeType
<1>5. p \in public /\ UNCHANGED <<transport, public, conn, by, called, got, faults, stops>>
  BY DEF Listen
<1> QED BY <1>3, <1>4, <1>5, ListenStep

(* The transport listens, or does not.                                     *)
LEMMA OnListening == ASSUME AwpInv, NEW p \in Party, Listening(p) PROVE AwpInv' /\ Kept
<1>1. PICK ok \in BOOLEAN : node' = [node EXCEPT ![p].listen = FALSE, ![p].listeners = ok]
  BY DEF Listening
<1>2. node' = [node EXCEPT ![p] = [node[p] EXCEPT !.listen = FALSE, !.listeners = ok]]
  <2>1. World \in WorldType /\ World.node = node
    BY WorldIs DEF AwpInv
  <2>2. node \in [Party -> NodeType]
    BY <2>1 DEF WorldType
  <2> QED BY <1>1, <2>2
<1>3. p \in public /\ UNCHANGED <<transport, public, conn, by, called, got, faults, stops>>
  BY DEF Listening, AwpInv, Dialers
<1> QED BY <1>2, <1>3, ListenStep

(* Accepted connections are closed, with all that is on their way to it.   *)
LEMMA OnStopListening == ASSUME AwpInv, NEW p \in Party, StopListening(p) PROVE AwpInv' /\ Kept
<1>1. World \in WorldType /\ World.node = node /\ World.conn = conn
  BY WorldIs DEF AwpInv
<1>2. PICK n : n = [node[p] EXCEPT !.listeners = FALSE]
  OBVIOUS
<1>3. node[p] \in NodeType
  BY <1>1, WorldParts
<1>4. /\ n \in NodeType /\ n.outbox = node[p].outbox /\ n.connections = node[p].connections
      /\ n.stubs = node[p].stubs /\ n.sunk = node[p].sunk /\ n.lost = node[p].lost /\ n.events = node[p].events
      /\ n.listen = node[p].listen /\ n.listeners = FALSE /\ n.twice = node[p].twice
  BY <1>2, <1>3 DEF NodeType
<1>5. Holds(node[p], n) /\ Waits(n) = Waits(node[p])
  BY <1>4 DEF Holds, Waits, Forwarded
<1>6. node' = [node EXCEPT ![p] = n]
  BY <1>2 DEF StopListening
<1>7. /\ node'[p] = n /\ \A q \in Party : q # p => node'[q] = node[q]
      /\ node' \in [Party -> NodeType]
  <2>1. node \in [Party -> NodeType]
    BY <1>1 DEF WorldType
  <2> QED BY <1>4, <1>6, <2>1
<1>8. DOMAIN conn' = Conns /\ \A c \in Conns : conn'[c] \in {conn[c], CloseEnd(World, c, p).conn[c]}
  BY DEF StopListening
<1>9. ASSUME NEW c \in Conns
      PROVE  /\ conn'[c] \in ConnType /\ conn'[c].init = conn[c].init
             /\ \A q \in Party : /\ conn'[c].end[q] \in {conn[c].end[q], "closed"}
                                 /\ conn'[c].wire[q] \in {conn[c].wire[q], <<>>}
  <2>1. conn[c] \in ConnType
    BY <1>1, WorldParts
  <2>2. PICK x : x = CloseEnd(World, c, p)
    OBVIOUS
  <2>3. /\ x \in WorldType /\ x.conn[c].init = conn[c].init
        /\ \A q \in Party : x.conn[c].end[q] \in {conn[c].end[q], "closed"}
    BY <1>1, <2>2, Closing DEF Tame, Ends
  <2>4. x.conn[c] \in ConnType
    BY <2>3, WorldParts
  <2>5. c \in Place /\ c # None
    BY Marks DEF Place
  <2>6. \A q \in Party : Box(x, c, q) \in {Box(World, c, q), <<>>}
    BY <1>1, <2>2, <2>5, Closing
  <2>7. \A q \in Party : x.conn[c].wire[q] \in {conn[c].wire[q], <<>>}
    BY <1>1, <2>5, <2>6 DEF Box
  <2> QED BY <1>8, <2>1, <2>2, <2>3, <2>4, <2>7
<1>10. World'.node = node' /\ World'.conn = conn'
  BY DEF World
<1>11. World' \in WorldType
  <2>1. conn' = [c \in Conns |-> conn'[c]]
    BY DEF StopListening
  <2>2. conn' \in [Conns -> ConnType]
    BY <1>9, <2>1
  <2> QED BY <1>7, <2>2 DEF World, WorldType
<1>12. \A c \in Place, q \in Party : Box(World', c, q) \in {Box(World, c, q), <<>>}
  BY <1>1, <1>4, <1>7, <1>9, <1>10, Marks DEF Box, Place
<1>13. Thins(World, World')
  BY <1>12, ThinBoxes
<1>14. Ends(World, World')
  BY <1>1, <1>9, <1>10 DEF Ends
<1>15. \A q \in Party : /\ Holds(node[q], node'[q]) /\ node'[q].connections = node[q].connections
                        /\ node'[q].twice = node[q].twice
  BY <1>4, <1>5, <1>7 DEF Holds
<1>16. Live(World)'
  BY <1>1, <1>10, <1>14, <1>15 DEF AwpInv, Live, Ends
<1>17. /\ UNCHANGED <<transport, public, by, called, got, faults>>
       /\ stops' = stops - 1 /\ stops > 0
  BY DEF StopListening
<1>18. faults' \in 0 .. MaxFaults /\ stops' \in 0 .. MaxStops
  <2>1. faults \in 0 .. MaxFaults /\ stops \in 0 .. MaxStops
    BY DEF AwpInv, TypeOK
  <2> QED BY <1>17, <2>1, AwpAssumption
<1>19. TypeOK' /\ Apart(World)' /\ Course' /\ Callbacks'
  BY <1>11, <1>13, <1>15, <1>17, <1>18, MostKept
<1>20. Dialers'
  <2>1. \A q \in Party : node'[q].listen \/ node'[q].listeners => q \in public'
    BY <1>4, <1>7, <1>17 DEF AwpInv, Dialers
  <2>2. \A c \in Conns :
          /\ conn'[c].init \in Party => Peer(conn'[c].init) \in public'
          /\ conn'[c].init = None => \A q \in Party : conn'[c].end[q] = "closed"
    BY <1>9, <1>17 DEF AwpInv, Dialers
  <2> QED BY <2>1, <2>2 DEF Dialers
<1>21. Kept
  BY <1>5, <1>7, <1>17 DEF Kept, Told
<1> QED BY <1>16, <1>19, <1>20, <1>21 DEF AwpInv

(* A connection that was never used comes up, empty and with no open end.  *)
LEMMA OnEstablish == ASSUME AwpInv, NEW p \in Party, NEW c \in Conns, Establish(p, c) PROVE AwpInv' /\ Kept
<1>1. World \in WorldType /\ World.node = node /\ World.conn = conn
  BY WorldIs DEF AwpInv
<1>2. PICK n : n = [node[p] EXCEPT !.attempt = c]
  OBVIOUS
<1>3. PICK e : e = [NoConn EXCEPT !.init = p, !.end = [x \in Party |-> "ready"]]
  OBVIOUS
<1>4. node' = [node EXCEPT ![p] = n] /\ conn' = [conn EXCEPT ![c] = e]
  BY <1>2, <1>3 DEF Establish
<1>5. /\ UNCHANGED <<transport, public, by, called, got, faults, stops>>
      /\ conn[c].init = None /\ node[Peer(p)].listeners
  BY DEF Establish
<1>6. node[p] \in NodeType
  BY <1>1, WorldParts
<1>7. /\ n \in NodeType /\ n.outbox = node[p].outbox /\ n.connections = node[p].connections
      /\ n.stubs = node[p].stubs /\ n.sunk = node[p].sunk /\ n.lost = node[p].lost /\ n.events = node[p].events
      /\ n.listen = node[p].listen /\ n.listeners = node[p].listeners /\ n.twice = node[p].twice
  BY <1>2, <1>6 DEF NodeType
<1>8. /\ e \in ConnType /\ e.init = p
      /\ \A q \in Party : e.end[q] = "ready" /\ e.wire[q] = <<>>
  <2>1. e = [init |-> p, down |-> FALSE, end |-> [q \in Party |-> "ready"],
             wire |-> [q \in Party |-> <<>>], held |-> [q \in Party |-> 0]]
    BY <1>3 DEF NoConn
  <2> QED BY <2>1, EmptySeq DEF ConnType, EndType
<1>9. PICK y : y = SetNode(World, p, n)
  OBVIOUS
<1>10. PICK x : x = SetConn(y, c, e)
  OBVIOUS
<1>11. World' = x /\ node' = x.node /\ conn' = x.conn
  BY <1>4, <1>9, <1>10 DEF SetNode, SetConn, World
<1>12. /\ y \in WorldType /\ y.conn = conn /\ y.node[p] = n
       /\ \A q \in Party : q # p => y.node[q] = node[q]
       /\ \A d \in Place, q \in Party :
            Box(y, d, q) = IF d = None /\ q = p THEN n.outbox ELSE Box(World, d, q)
  BY <1>1, <1>7, <1>9, NodeChanged
<1>13. /\ x \in WorldType /\ x.node = y.node /\ x.conn[c] = e
       /\ \A d \in Conns : d # c => x.conn[d] = conn[d]
       /\ \A d \in Place, q \in Party : Box(x, d, q) = IF d = c THEN e.wire[q] ELSE Box(y, d, q)
  BY <1>8, <1>10, <1>12, ConnChanged
<1>14. \A d \in Place, q \in Party : Box(x, d, q) \in {Box(World, d, q), <<>>}
  BY <1>1, <1>7, <1>8, <1>12, <1>13 DEF Box
<1>15. Thins(World, x)
  BY <1>14, ThinBoxes
<1>16. \A q \in Party : /\ Holds(node[q], x.node[q]) /\ x.node[q].connections = node[q].connections
                        /\ x.node[q].listen = node[q].listen /\ x.node[q].listeners = node[q].listeners
                        /\ Waits(x.node[q]) = Waits(node[q]) /\ x.node[q].twice = node[q].twice
  BY <1>7, <1>12, <1>13 DEF Holds, Waits, Forwarded
<1>17. Live(x)
  BY <1>1, <1>8, <1>13, <1>16 DEF AwpInv, Live
<1>18. faults' \in 0 .. MaxFaults /\ stops' \in 0 .. MaxStops
  BY <1>5 DEF AwpInv, TypeOK
<1>19. TypeOK' /\ Apart(World)' /\ Course' /\ Callbacks'
  BY <1>5, <1>11, <1>13, <1>15, <1>16, <1>18, MostKept
<1>20. Dialers'
  <2>1. \A q \in Party : node'[q].listen \/ node'[q].listeners => q \in public'
    BY <1>5, <1>11, <1>16 DEF AwpInv, Dialers
  <2>3. Peer(p) \in public /\ p # None
    BY <1>5, Peers, Marks DEF AwpInv, Dialers
  <2>4. \A d \in Conns :
          /\ conn'[d].init \in Party => Peer(conn'[d].init) \in public'
          /\ conn'[d].init = None => \A q \in Party : conn'[d].end[q] = "closed"
    BY <1>5, <1>8, <1>11, <1>13, <2>3 DEF AwpInv, Dialers
  <2> QED BY <2>1, <2>4 DEF Dialers
<1>21. Kept
  BY <1>5, <1>11, <1>16 DEF Kept, Told
<1> QED BY <1>11, <1>17, <1>19, <1>20, <1>21 DEF AwpInv

(* The message of a once_fwd actor is the first event of its party.        *)
LEMMA OnForward == ASSUME AwpInv, NEW p \in Party, Forward(p) PROVE AwpInv' /\ Kept
<1> DEFINE i == Head(node[p].events).i
<1>1. World \in WorldType /\ World.node = node /\ World.conn = conn
  BY WorldIs DEF AwpInv
<1>2. PICK n : n = [node[p] EXCEPT !.events = Tail(node[p].events), !.sunk = node[p].sunk \cup {i}]
  OBVIOUS
<1>3. /\ UNCHANGED <<transport, public, conn, by, got, faults, stops>>
      /\ node[p].events # <<>> /\ Head(node[p].events).to = "fwd"
      /\ called' = [called EXCEPT ![i] = IF i \in node[p].sunk THEN @ ELSE @ + 1]
  BY DEF Forward
<1>4. node \in [Party -> NodeType] /\ node[p] \in NodeType /\ node[p].events \in Seq(Event)
  BY <1>1 DEF WorldType, NodeType
<1>5. node' = [node EXCEPT ![p] = n]
  BY <1>2, <1>4 DEF Forward
<1>6. /\ Tail(node[p].events) \in Seq(Event) /\ Head(node[p].events) \in Event
      /\ ToSet(node[p].events) = {Head(node[p].events)} \cup ToSet(Tail(node[p].events))
  BY <1>3, <1>4, Shortened
<1>7. i \in Intros
  BY <1>3, <1>6 DEF Event
<1> HIDE DEF i
<1>8. /\ n \in NodeType /\ n.outbox = node[p].outbox /\ n.connections = node[p].connections
      /\ n.stubs = node[p].stubs /\ n.sunk = node[p].sunk \cup {i} /\ n.lost = node[p].lost
      /\ n.events = Tail(node[p].events) /\ n.listen = node[p].listen /\ n.listeners = node[p].listeners
      /\ n.twice = node[p].twice
  BY <1>2, <1>4, <1>6, <1>7 DEF NodeType
<1>9. Waits(node[p]) = Waits(n) \cup {i}
  <2>1. Forwarded(node[p]) = Forwarded(n) \cup {i}
    BY <1>3, <1>6, <1>8 DEF Forwarded, i
  <2> QED BY <1>8, <2>1 DEF Waits
<1>10. /\ World' \in WorldType /\ Live(World)' /\ Thins(World, World')
       /\ node'[p] = n /\ \A q \in Party : q # p => node'[q] = node[q]
  BY <1>5, <1>8, <1>3, NodeStep
<1>11. by[i] = p
  BY <1>9 DEF AwpInv, Callbacks
<1>12. called \in [Intros -> Nat] /\ called[i] \in Nat
  BY <1>7 DEF AwpInv, TypeOK
<1>13. /\ called' \in [Intros -> Nat]
       /\ \A j \in Intros : called'[j] = IF j = i /\ i \notin node[p].sunk THEN called[j] + 1 ELSE called[j]
  BY <1>3, <1>7, <1>12
<1>14. called[i] = 0 \/ i \in node[p].sunk
  BY <1>7, <1>11, <1>12 DEF AwpInv, Callbacks
<1>15. i \in node[p].sunk => called[i] > 0
  BY DEF AwpInv, Callbacks
<1>16. called'[i] = 1 \/ (called'[i] = called[i] /\ called[i] > 0)
  BY <1>7, <1>12, <1>13, <1>14, <1>15
<1>17. \A j \in Intros : j # i => called'[j] = called[j]
  BY <1>13
<1>18. TypeOK'
  BY <1>3, <1>10, <1>13, TypeKept DEF AwpInv, TypeOK
<1>19. Apart(World)'
  BY <1>10 DEF AwpInv, Thins
<1>20. Course'
  <2>1. /\ Single(node')
        /\ \A q \in Party : ToSet(node'[q].events) \subseteq ToSet(node[q].events)
    <3>1. Single(node) /\ node'[p].events = Tail(node[p].events)
      BY <1>8, <1>10 DEF AwpInv, Course
    <3>2. Elsewhere(node, node', p)
      BY <1>10 DEF Elsewhere
    <3> QED BY <1>3, <1>4, <3>1, <3>2, FirstEvent
  <2> QED BY <1>3, <1>10, <2>1, CourseKept DEF AwpInv
<1>21. Callbacks'
  <2>1. \A q \in Party : /\ Waits(node'[q]) \subseteq Waits(node[q]) /\ node'[q].stubs = node[q].stubs
                         /\ node'[q].sunk = IF q = p THEN node[q].sunk \cup {i} ELSE node[q].sunk
    BY <1>8, <1>9, <1>10
  <2>2. \A q \in Party : \A j \in Waits(node'[q]) \cup node'[q].stubs : by'[j] = q
    BY <1>3, <2>1 DEF AwpInv, Callbacks
  <2>3. ASSUME NEW j \in Intros
        PROVE  called'[j] <= 1 /\ (called'[j] > 0 => by'[j] \in Party /\ j \in node'[by'[j]].sunk)
    <3>1. CASE j = i
      <4>1. called'[i] <= 1
        BY <1>7, <1>16 DEF AwpInv, Callbacks
      <4>2. by'[i] = p /\ i \in node'[p].sunk
        BY <1>3, <1>11, <2>1
      <4> QED BY <3>1, <4>1, <4>2
    <3>2. CASE j # i
      BY <1>3, <1>17, <2>1, <3>2 DEF AwpInv, Callbacks
    <3> QED BY <3>1, <3>2
  <2>4. ASSUME NEW q \in Party, NEW j \in node'[q].sunk PROVE called'[j] > 0
    <3>1. CASE j = i
      BY <1>16, <3>1
    <3>2. CASE j # i
      <4>1. j \in node[q].sunk
        BY <2>1, <3>2
      <4>2. j \in Intros
        BY <1>4, <4>1 DEF NodeType
      <4> QED BY <1>17, <3>2, <4>1, <4>2 DEF AwpInv, Callbacks
    <3> QED BY <3>1, <3>2
  <2> QED BY <2>2, <2>3, <2>4 DEF Callbacks
<1>22. Dialers'
  <2>1. \A q \in Party : node'[q].listen = node[q].listen /\ node'[q].listeners = node[q].listeners
    BY <1>8, <1>10
  <2> QED BY <1>3, <2>1 DEF AwpInv, Dialers
<1>23. Kept
  <2>1. ASSUME NEW j \in Intros, by[j] \in Party \ public, Told(j)
        PROVE  Told(j)'
    <3>1. CASE j = i
      BY <1>16, <3>1 DEF Told
    <3>2. CASE j # i
      BY <1>3, <1>9, <1>10, <1>17, <2>1, <3>2 DEF Told
    <3> QED BY <3>1, <3>2
  <2> QED BY <2>1 DEF Kept
<1> QED BY <1>10, <1>18, <1>19, <1>20, <1>21, <1>22, <1>23 DEF AwpInv

(* The frames and the events of introductions are all different.           *)
LEMMA FramesAndEvents ==
  \A i, j \in Intros :
    /\ IntroFrame(i) \in Frame /\ ReplyFrame(i) \in Frame /\ IntroFrame(i) # ReplyFrame(j)
    /\ IntroFrame(i) = IntroFrame(j) => i = j
    /\ ReplyFrame(i) = ReplyFrame(j) => i = j
    /\ GreeterEvent(i) = GreeterEvent(j) => i = j
    /\ GreeterEvent(i) \in Event /\ GreeterEvent(i).to = "greeter" /\ GreeterEvent(i).i = i
    /\ \A ok \in BOOLEAN :
         ForwardEvent(i, ok) \in Event /\ ForwardEvent(i, ok).to = "fwd" /\ ForwardEvent(i, ok).i = i
<1>1. ASSUME NEW i \in Intros, NEW j \in Intros
      PROVE  /\ IntroFrame(i) \in Frame /\ ReplyFrame(i) \in Frame /\ IntroFrame(i) # ReplyFrame(j)
             /\ IntroFrame(i) = IntroFrame(j) => i = j
             /\ ReplyFrame(i) = ReplyFrame(j) => i = j
  BY DEF IntroFrame, ReplyFrame, Frame
<1>2. ASSUME NEW i \in Intros, NEW j \in Intros
      PROVE  /\ GreeterEvent(i) = GreeterEvent(j) => i = j
             /\ GreeterEvent(i) \in Event /\ GreeterEvent(i).to = "greeter" /\ GreeterEvent(i).i = i
  BY DEF GreeterEvent, Event
<1>3. ASSUME NEW i \in Intros, NEW ok \in BOOLEAN
      PROVE  ForwardEvent(i, ok) \in Event /\ ForwardEvent(i, ok).to = "fwd" /\ ForwardEvent(i, ok).i = i
  BY DEF ForwardEvent, Event
<1> QED BY <1>1, <1>2, <1>3

(* A party has to do with introductions only.                              *)
LEMMA InIntros ==
  ASSUME NEW n \in NodeType
  PROVE  Waits(n) \cup n.stubs \subseteq Intros
<1>1. n.lost \in Seq(Intros) /\ n.events \in Seq(Event) /\ n.stubs \subseteq Intros
  BY DEF NodeType
<1>2. ToSet(n.lost) \subseteq Intros
  BY <1>1, LenProperties, ElementOfSeq DEF ToSet
<1>3. \A e \in ToSet(n.events) : e \in Event
  BY <1>1, LenProperties, ElementOfSeq DEF ToSet
<1>4. \A e \in Event : e.i \in Intros
  BY DEF Event
<1> QED BY <1>1, <1>2, <1>3, <1>4 DEF Waits, Forwarded

(* The greeter takes its event and a reply is enqueued.                    *)
LEMMA OnGreet == ASSUME AwpInv, NEW p \in Party, Greet(p) PROVE AwpInv' /\ Kept
<1> DEFINE i == Head(node[p].events).i
           f == ReplyFrame(i)
<1>1. World \in WorldType /\ World.node = node /\ World.conn = conn
  BY WorldIs DEF AwpInv
<1>2. PICK n : n = [node[p] EXCEPT !.events = Tail(node[p].events)]
  OBVIOUS
<1>3. PICK y : y = SetNode(World, p, n)
  OBVIOUS
<1>4. PICK x : x = Enqueue(y, p, f)
  OBVIOUS
<1>5. /\ UNCHANGED <<transport, public, by, called, got, faults, stops>>
      /\ node[p].events # <<>> /\ Head(node[p].events).to = "greeter"
  BY DEF Greet
<1>6. Become(x)
  <2>1. y = [World EXCEPT !.node[p].events = Tail(@)]
    BY <1>1, <1>2, <1>3 DEF SetNode
  <2> QED BY <1>4, <2>1 DEF Greet
<1>7. node[p] \in NodeType /\ node[p].events \in Seq(Event)
  BY <1>1, WorldParts DEF NodeType
<1>8. /\ Tail(node[p].events) \in Seq(Event) /\ Head(node[p].events) \in Event
      /\ ToSet(node[p].events) = {Head(node[p].events)} \cup ToSet(Tail(node[p].events))
  BY <1>5, <1>7, Shortened
<1>9. i \in Intros /\ Head(node[p].events) = GreeterEvent(i)
  BY <1>5, <1>8 DEF Event, GreeterEvent
<1> HIDE DEF i
<1>10. f \in Frame
  BY <1>9, FramesAndEvents
<1>11. /\ n \in NodeType /\ n.outbox = node[p].outbox /\ n.connections = node[p].connections
       /\ n.stubs = node[p].stubs /\ n.sunk = node[p].sunk /\ n.lost = node[p].lost
       /\ n.events = Tail(node[p].events) /\ n.listen = node[p].listen /\ n.listeners = node[p].listeners
       /\ n.twice = node[p].twice
  BY <1>2, <1>7, <1>8 DEF NodeType
<1>12. Waits(n) = Waits(node[p])
  <2>1. Forwarded(node[p]) = Forwarded(n)
    BY <1>5, <1>8, <1>11 DEF Forwarded
  <2> QED BY <1>11, <2>1 DEF Waits
<1> HIDE DEF f
<1>13. /\ y \in WorldType /\ y.conn = conn /\ y.node[p] = n
       /\ \A q \in Party : q # p => y.node[q] = node[q]
       /\ \A d \in Place, q \in Party :
            Box(y, d, q) = IF d = None /\ q = p THEN n.outbox ELSE Box(World, d, q)
  BY <1>1, <1>3, <1>11, NodeChanged
<1>14. \A d \in Place, q \in Party : Box(y, d, q) \in {Box(World, d, q), <<>>}
  BY <1>1, <1>11, <1>13 DEF Box
<1>15. Thins(World, y)
  BY <1>14, ThinBoxes
<1>16. Sends(y, x, f)
  BY <1>4, <1>10, <1>13, Enqueueing
<1>17. World' = x /\ node' = x.node /\ conn' = x.conn /\ x \in WorldType
  BY <1>6, <1>16, WorldBecomes DEF Sends
<1>18. GreeterEvent(i) \in ToSet(node[p].events)
  BY <1>8, <1>9
<1>19. ~Within(World, f) /\ got[f] = 0 /\ got[IntroFrame(i)] # 0
  BY <1>9, <1>18 DEF AwpInv, Course, f
<1>20. /\ Apart(x)
       /\ \A g \in Frame : Within(x, g) => Within(World, g) \/ g = f
  BY <1>10, <1>15, <1>16, <1>19 DEF AwpInv, Thins, Sends
<1>21. \A q \in Party : Carries(y.node[q], x.node[q]) /\ Holds(y.node[q], x.node[q])
  BY <1>16 DEF Sends, Carries
<1>22. /\ Single(node')
       /\ \A j \in Intros, q \in Party : GreeterEvent(j) \in ToSet(node'[q].events) =>
            GreeterEvent(j) \in ToSet(node[q].events) /\ j # i
  <2>1. Single(node) /\ y.node[p].events = Tail(node[p].events)
    BY <1>11, <1>13 DEF AwpInv, Course
  <2>2. Elsewhere(node, y.node, p)
    BY <1>13 DEF Elsewhere
  <2>3. /\ Single(y.node)
        /\ \A q \in Party : GreeterEvent(i) \notin ToSet(y.node[q].events)
        /\ \A q \in Party : ToSet(y.node[q].events) \subseteq ToSet(node[q].events)
    BY <1>5, <1>7, <1>9, <2>1, <2>2, FirstEvent
  <2>4. /\ Single(x.node)
        /\ \A j \in Intros, q \in Party :
             GreeterEvent(j) \in ToSet(x.node[q].events) => GreeterEvent(j) \in ToSet(y.node[q].events)
    BY <1>21, <2>3, EventsKept
  <2> QED BY <1>17, <2>3, <2>4
<1>23. Live(x)
  BY <1>1, <1>11, <1>13, <1>16 DEF AwpInv, Live, Sends, Ends, Stays, Carries, Holds
<1>24. TypeOK'
  BY <1>5, <1>17, TypeKept DEF AwpInv, TypeOK
<1>25. Course'
  <2>1. \A g \in Frame : got[g] <= 1 /\ (Within(World', g) => got[g] = 0)
    BY <1>17, <1>19, <1>20 DEF AwpInv, Course
  <2>2. ASSUME NEW j \in Intros
        PROVE  /\ by[j] = None => ~Within(World', IntroFrame(j)) /\ got[IntroFrame(j)] = 0
               /\ got[IntroFrame(j)] = 0 =>
                    /\ ~Within(World', ReplyFrame(j)) /\ got[ReplyFrame(j)] = 0
                    /\ \A q \in Party : GreeterEvent(j) \notin ToSet(node'[q].events)
               /\ \A q \in Party : GreeterEvent(j) \in ToSet(node'[q].events) =>
                    ~Within(World', ReplyFrame(j)) /\ got[ReplyFrame(j)] = 0
    <3>1. IntroFrame(j) \in Frame /\ ReplyFrame(j) \in Frame /\ IntroFrame(j) # f /\ (ReplyFrame(j) = f => j = i)
      BY <1>9, FramesAndEvents DEF f
    <3>2. /\ Within(World', IntroFrame(j)) => Within(World, IntroFrame(j))
          /\ j # i /\ Within(World', ReplyFrame(j)) => Within(World, ReplyFrame(j))
      BY <1>17, <1>20, <3>1
    <3>3. CASE j = i
      <4>1. by[j] # None
        BY <1>9, <1>19, <3>3 DEF AwpInv, Course
      <4> QED BY <1>19, <1>22, <3>3, <4>1
    <3>4. CASE j # i
      BY <1>22, <3>2, <3>4 DEF AwpInv, Course
    <3> QED BY <3>3, <3>4
  <2> QED BY <1>5, <1>22, <2>1, <2>2 DEF Course
<1>26. Callbacks'
  <2>1. \A q \in Party : Keeps(node[q], node'[q])
    BY <1>11, <1>12, <1>13, <1>17, <1>21 DEF Keeps, Holds
  <2> QED BY <1>5, <2>1, CallbacksKept DEF AwpInv
<1>27. Dialers' /\ Kept
  <2>1. Settled(World, World')
    BY <1>1, <1>13, <1>16, <1>17 DEF Settled, Sends, Ends
  <2>2. \A q \in Party : node'[q].listen = node[q].listen /\ node'[q].listeners = node[q].listeners
    BY <1>11, <1>13, <1>17, <1>21 DEF Carries
  <2>3. \A q \in Party : Waits(node[q]) \subseteq Waits(node'[q])
    BY <1>12, <1>13, <1>16, <1>17 DEF Sends, Tells
  <2> QED BY <1>5, <2>1, <2>2, <2>3, DialersKept DEF AwpInv
<1> QED BY <1>17, <1>20, <1>23, <1>24, <1>25, <1>26, <1>27 DEF AwpInv

(* A request is made that was not made before.                             *)
LEMMA OnIntro == ASSUME AwpInv, NEW p \in Party, NEW i \in Intros, Intro(p, i)
                PROVE  AwpInv' /\ Kept /\ (~SendThrows(p) => Told(i)')
<1> DEFINE f == IntroFrame(i)
<1>1. World \in WorldType /\ World.node = node /\ World.conn = conn
  BY WorldIs DEF AwpInv
<1>2. PICK n : n = [node[p] EXCEPT !.stubs = node[p].stubs \cup {i}]
  OBVIOUS
<1>3. PICK y : y = SetNode(World, p, n)
  OBVIOUS
<1>4. PICK w : w = Enqueue(y, p, f)
  OBVIOUS
<1>l. PICK l : l = IF SendThrows(p) THEN w.node[p].lost ELSE Append(w.node[p].lost, i)
  OBVIOUS
<1>5. PICK m : m = [w.node[p] EXCEPT !.lost = l]
  OBVIOUS
<1>6. PICK x : x = SetNode(w, p, m)
  OBVIOUS
<1>7. UNCHANGED <<transport, public, called, got, faults, stops>> /\ by[i] = None /\ by' = [by EXCEPT ![i] = p]
  BY DEF Intro
<1>8. Become(x)
  <2>1. y = [World EXCEPT !.node[p].stubs = @ \cup {i}]
    BY <1>1, <1>2, <1>3 DEF SetNode
  <2>2. Become(IF SendThrows(p) THEN w ELSE [w EXCEPT !.node[p].lost = Append(@, i)])
    BY <1>4, <2>1 DEF Intro
  <2>3. CASE SendThrows(p)
    <3>1. w \in WorldType
      <4>1. n \in NodeType
        BY <1>1, <1>2, WorldParts DEF NodeType
      <4>2. y \in WorldType
        BY <1>1, <1>3, <4>1, NodeChanged
      <4> QED BY <1>4, <4>2, FramesAndEvents, Enqueueing DEF Sends
    <3>2. m = w.node[p]
      BY <1>l, <1>5, <2>3, <3>1, WorldParts DEF NodeType
    <3>3. x = w
      BY <1>6, <3>1, <3>2 DEF SetNode, WorldType
    <3> QED BY <2>2, <2>3, <3>3
  <2>4. CASE ~SendThrows(p)
    <3>1. x = [w EXCEPT !.node[p].lost = Append(@, i)]
      BY <1>l, <1>5, <1>6, <2>4 DEF SetNode
    <3> QED BY <2>2, <2>4, <3>1
  <2> QED BY <2>3, <2>4
<1>9. node[p] \in NodeType
  BY <1>1, WorldParts
<1>10. /\ n \in NodeType /\ n.outbox = node[p].outbox /\ n.connections = node[p].connections
       /\ n.stubs = node[p].stubs \cup {i} /\ n.sunk = node[p].sunk /\ n.lost = node[p].lost
       /\ n.events = node[p].events /\ n.listen = node[p].listen /\ n.listeners = node[p].listeners
       /\ n.twice = node[p].twice
  BY <1>2, <1>9 DEF NodeType
<1>11. Waits(n) = Waits(node[p])
  BY <1>10 DEF Waits, Forwarded
<1>12. f \in Frame
  BY FramesAndEvents
<1> HIDE DEF f
<1>13. /\ y \in WorldType /\ y.conn = conn /\ y.node[p] = n
       /\ \A q \in Party : q # p => y.node[q] = node[q]
       /\ \A d \in Place, q \in Party :
            Box(y, d, q) = IF d = None /\ q = p THEN n.outbox ELSE Box(World, d, q)
  BY <1>1, <1>3, <1>10, NodeChanged
<1>14. \A d \in Place, q \in Party : Box(y, d, q) \in {Box(World, d, q), <<>>}
  BY <1>1, <1>10, <1>13 DEF Box
<1>15. Thins(World, y)
  BY <1>14, ThinBoxes
<1>16. Sends(y, w, f) /\ w \in WorldType
  BY <1>4, <1>12, <1>13, Enqueueing DEF Sends
<1>17. w.node[p] \in NodeType
  BY <1>16, WorldParts
<1>18. l \in Seq(Intros) /\ ToSet(l) = ToSet(w.node[p].lost) \cup (IF SendThrows(p) THEN {} ELSE {i})
  <2>1. w.node[p].lost \in Seq(Intros)
    BY <1>17 DEF NodeType
  <2>2. /\ Append(w.node[p].lost, i) \in Seq(Intros)
        /\ ToSet(Append(w.node[p].lost, i)) = ToSet(w.node[p].lost) \cup {i}
    BY <2>1, Added
  <2> QED BY <1>l, <2>1, <2>2
<1>19. /\ m \in NodeType /\ m.outbox = w.node[p].outbox /\ m.connections = w.node[p].connections
       /\ m.stubs = w.node[p].stubs /\ m.sunk = w.node[p].sunk /\ m.events = w.node[p].events
       /\ m.listen = w.node[p].listen /\ m.listeners = w.node[p].listeners
       /\ m.lost = l /\ m.twice = w.node[p].twice
  BY <1>5, <1>17, <1>18 DEF NodeType
<1>20. Waits(m) = Waits(w.node[p]) \cup (IF SendThrows(p) THEN {} ELSE {i})
  BY <1>18, <1>19 DEF Waits, Forwarded
<1>21. /\ x \in WorldType /\ x.conn = w.conn /\ x.node[p] = m
       /\ \A q \in Party : q # p => x.node[q] = w.node[q]
       /\ \A d \in Place, q \in Party :
            Box(x, d, q) = IF d = None /\ q = p THEN m.outbox ELSE Box(w, d, q)
  BY <1>6, <1>16, <1>19, NodeChanged
<1>22. \A d \in Place, q \in Party : Box(x, d, q) \in {Box(w, d, q), <<>>}
  BY <1>19, <1>21 DEF Box
<1>23. Thins(w, x)
  BY <1>22, ThinBoxes
<1>24. World' = x /\ node' = x.node /\ conn' = x.conn
  BY <1>8, <1>21, WorldBecomes
<1>25. ~Within(World, f) /\ got[f] = 0
  BY <1>7 DEF AwpInv, Course, f
<1>26. /\ Apart(x)
       /\ \A g \in Frame : Within(x, g) => Within(World, g) \/ g = f
  BY <1>12, <1>15, <1>16, <1>23, <1>25 DEF AwpInv, Thins, Sends
<1>27. ASSUME NEW q \in Party
       PROVE
         /\ node'[q].sunk = node[q].sunk /\ node'[q].connections = node[q].connections
         /\ node'[q].listen = node[q].listen /\ node'[q].listeners = node[q].listeners
         /\ node'[q].stubs = IF q = p THEN node[q].stubs \cup {i} ELSE node[q].stubs
         /\ node[q].twice => node'[q].twice
         /\ Waits(node[q]) \subseteq Waits(node'[q])
         /\ Waits(node'[q]) \subseteq Waits(node[q]) \cup (IF q = p THEN {i} ELSE {})
         /\ q = p /\ ~SendThrows(p) => i \in Waits(node'[q])
  <2>1. \A r \in Party : Waits(w.node[r]) = Waits(y.node[r])
    BY <1>16 DEF Sends, Tells, Carries, Holds
  <2>2. \A r \in Party :
          /\ w.node[r].sunk = y.node[r].sunk /\ w.node[r].connections = y.node[r].connections
          /\ w.node[r].listen = y.node[r].listen /\ w.node[r].listeners = y.node[r].listeners
          /\ w.node[r].stubs = y.node[r].stubs /\ (y.node[r].twice => w.node[r].twice)
    BY <1>16 DEF Sends, Stays, Carries, Holds
  <2>3. CASE q = p
    BY <1>10, <1>11, <1>13, <1>19, <1>20, <1>21, <1>24, <2>1, <2>2, <2>3
  <2>4. CASE q # p
    BY <1>13, <1>21, <1>24, <2>1, <2>2, <2>4
  <2> QED BY <2>3, <2>4
<1>28. Ends(World, x)
  BY <1>1, <1>13, <1>16, <1>21 DEF Sends, Ends
<1>29. Live(x)
  <2>1. ASSUME NEW q \in Party, NEW d \in Conns, x.conn[d].end[q] = "open"
        PROVE  x.node[q].connections = d \/ x.node[q].twice
    <3>1. conn[d].end[q] = "open"
      BY <1>1, <1>28, <2>1 DEF Ends
    <3>2. node[q].connections = d \/ node[q].twice
      BY <1>1, <3>1 DEF AwpInv, Live
    <3> QED BY <1>24, <1>27, <3>2
  <2> QED BY <2>1 DEF Live
<1>30. /\ Single(node')
       /\ \A j \in Intros, q \in Party :
            GreeterEvent(j) \in ToSet(node'[q].events) => GreeterEvent(j) \in ToSet(node[q].events)
  <2>1. Single(node)
    BY DEF AwpInv, Course
  <2>2. \A q \in Party : y.node[q].events = node[q].events
    BY <1>10, <1>13
  <2>3. Single(y.node)
    BY <2>1, <2>2 DEF Single
  <2>4. \A q \in Party : Holds(y.node[q], w.node[q])
    BY <1>16 DEF Sends, Carries
  <2>5. /\ Single(w.node)
        /\ \A j \in Intros, q \in Party :
             GreeterEvent(j) \in ToSet(w.node[q].events) => GreeterEvent(j) \in ToSet(y.node[q].events)
    BY <2>3, <2>4, EventsKept
  <2>6. \A q \in Party : x.node[q].events = w.node[q].events
    BY <1>19, <1>21
  <2>7. Single(x.node)
    BY <2>5, <2>6 DEF Single
  <2> QED BY <1>24, <2>2, <2>5, <2>6, <2>7
<1>31. by \in [Intros -> Party \cup {None}] /\ called \in [Intros -> Nat]
  BY DEF AwpInv, TypeOK
<1>32. by' \in [Intros -> Party \cup {None}] /\ by'[i] = p /\ \A j \in Intros : j # i => by'[j] = by[j]
  BY <1>7, <1>31
<1>33. TypeOK'
  BY <1>7, <1>21, <1>24, <1>32, TypeKept DEF AwpInv, TypeOK
<1>34. Course'
  <2>1. \A g \in Frame : got[g] <= 1 /\ (Within(World', g) => got[g] = 0)
    BY <1>24, <1>25, <1>26 DEF AwpInv, Course
  <2>2. ASSUME NEW j \in Intros
        PROVE  /\ by'[j] = None => ~Within(World', IntroFrame(j)) /\ got[IntroFrame(j)] = 0
               /\ got[IntroFrame(j)] = 0 =>
                    /\ ~Within(World', ReplyFrame(j)) /\ got[ReplyFrame(j)] = 0
                    /\ \A q \in Party : GreeterEvent(j) \notin ToSet(node'[q].events)
               /\ \A q \in Party : GreeterEvent(j) \in ToSet(node'[q].events) =>
                    ~Within(World', ReplyFrame(j)) /\ got[ReplyFrame(j)] = 0
    <3>1. /\ IntroFrame(j) \in Frame /\ ReplyFrame(j) \in Frame /\ ReplyFrame(j) # f
          /\ IntroFrame(j) = f => j = i
      BY FramesAndEvents DEF f
    <3>2. /\ Within(World', ReplyFrame(j)) => Within(World, ReplyFrame(j))
          /\ j # i /\ Within(World', IntroFrame(j)) => Within(World, IntroFrame(j))
      BY <1>24, <1>26, <3>1
    <3>3. by'[j] = None => j # i /\ by[j] = None
      BY <1>32, Marks
    <3> QED BY <1>30, <3>2, <3>3 DEF AwpInv, Course
  <2> QED BY <1>7, <1>30, <2>1, <2>2 DEF Course
<1>35. Callbacks'
  <2>1. ASSUME NEW q \in Party, NEW j \in Waits(node'[q]) \cup node'[q].stubs
        PROVE  by'[j] = q
    <3>1. CASE j \in Waits(node[q]) \cup node[q].stubs
      <4>1. by[j] = q
        BY <3>1 DEF AwpInv, Callbacks
      <4>2. j # i
        BY <1>7, <4>1, Marks
      <4>3. j \in Intros
        <5>1. node[q] \in NodeType
          BY <1>1, WorldParts
        <5> QED BY <3>1, <5>1, InIntros
      <4> QED BY <1>32, <4>1, <4>2, <4>3
    <3>2. CASE j \notin Waits(node[q]) \cup node[q].stubs
      <4>1. j = i /\ q = p
        BY <1>27, <3>2
      <4> QED BY <1>32, <4>1
    <3> QED BY <3>1, <3>2
  <2>2. ASSUME NEW j \in Intros
        PROVE  called'[j] <= 1 /\ (called'[j] > 0 => by'[j] \in Party /\ j \in node'[by'[j]].sunk)
    <3>1. called[j] > 0 => j # i
      BY <1>7, Marks DEF AwpInv, Callbacks
    <3>2. called[j] <= 1 /\ (called[j] > 0 => by[j] \in Party /\ j \in node[by[j]].sunk)
      BY DEF AwpInv, Callbacks
    <3>3. \A q \in Party : node'[q].sunk = node[q].sunk
      BY <1>27
    <3> QED BY <1>7, <1>32, <3>1, <3>2, <3>3
  <2>3. \A q \in Party : \A j \in node'[q].sunk : called'[j] > 0
    BY <1>7, <1>27 DEF AwpInv, Callbacks
  <2> QED BY <2>1, <2>2, <2>3 DEF Callbacks
<1>36. Dialers' /\ Kept
  <2>1. \A q \in Party : node'[q].listen \/ node'[q].listeners => q \in public'
    BY <1>7, <1>27 DEF AwpInv, Dialers
  <2>2. \A c \in Conns :
          /\ conn'[c].init \in Party => Peer(conn'[c].init) \in public'
          /\ conn'[c].init = None => \A q \in Party : conn'[c].end[q] = "closed"
    BY <1>1, <1>7, <1>24, <1>28 DEF AwpInv, Dialers, Ends
  <2>3. ASSUME NEW j \in Intros, by[j] \in Party \ public, Told(j) PROVE Told(j)'
    <3>1. j # i
      BY <1>7, <2>3, Marks
    <3> QED BY <1>7, <1>27, <1>32, <2>3, <3>1 DEF Told
  <2> QED BY <2>1, <2>2, <2>3 DEF Dialers, Kept
<1>37. ~SendThrows(p) => Told(i)'
  BY <1>27, <1>32 DEF Told
<1> QED BY <1>24, <1>26, <1>29, <1>33, <1>34, <1>35, <1>36, <1>37 DEF AwpInv

(* A frame that leaves a wire arrives once.                                *)
LEMMA CourseReceived ==
  ASSUME AwpInv, NEW f \in Frame, Within(World, f), ~Within(World', f), Thins(World, World'),
         got' = [got EXCEPT ![f] = @ + 1], by' = by, Single(node'),
         \A j \in Intros, q \in Party :
           GreeterEvent(j) \in ToSet(node'[q].events) =>
             GreeterEvent(j) \in ToSet(node[q].events) \/ f = IntroFrame(j)
  PROVE  Course' /\ got' \in [Frame -> Nat]
<1>1. got \in [Frame -> Nat] /\ got[f] = 0
  BY DEF AwpInv, TypeOK, Course
<1>2. got' \in [Frame -> Nat] /\ got'[f] = 1 /\ \A g \in Frame : g # f => got'[g] = got[g]
  BY <1>1
<1>3. \A g \in Frame : Within(World', g) => Within(World, g) /\ g # f
  BY DEF Thins
<1>4. \A g \in Frame : got'[g] <= 1 /\ (Within(World', g) => got'[g] = 0)
  <2>1. \A g \in Frame : got[g] <= 1 /\ (Within(World, g) => got[g] = 0)
    BY DEF AwpInv, Course
  <2>2. got'[f] <= 1
    BY <1>2
  <2> QED BY <1>2, <1>3, <2>1, <2>2
<1>5. ASSUME NEW j \in Intros
      PROVE  /\ by[j] = None => ~Within(World', IntroFrame(j)) /\ got'[IntroFrame(j)] = 0
             /\ got'[IntroFrame(j)] = 0 =>
                  /\ ~Within(World', ReplyFrame(j)) /\ got'[ReplyFrame(j)] = 0
                  /\ \A q \in Party : GreeterEvent(j) \notin ToSet(node'[q].events)
             /\ \A q \in Party : GreeterEvent(j) \in ToSet(node'[q].events) =>
                  ~Within(World', ReplyFrame(j)) /\ got'[ReplyFrame(j)] = 0
  <2>1. IntroFrame(j) \in Frame /\ ReplyFrame(j) \in Frame /\ IntroFrame(j) # ReplyFrame(j)
    BY FramesAndEvents
  <2>2. /\ by[j] = None => ~Within(World, IntroFrame(j)) /\ got[IntroFrame(j)] = 0
        /\ got[IntroFrame(j)] = 0 =>
             /\ ~Within(World, ReplyFrame(j)) /\ got[ReplyFrame(j)] = 0
             /\ \A q \in Party : GreeterEvent(j) \notin ToSet(node[q].events)
        /\ \A q \in Party : GreeterEvent(j) \in ToSet(node[q].events) =>
             ~Within(World, ReplyFrame(j)) /\ got[ReplyFrame(j)] = 0
    BY DEF AwpInv, Course
  <2>3. by[j] = None => ~Within(World', IntroFrame(j)) /\ got'[IntroFrame(j)] = 0
    BY <1>2, <1>3, <2>1, <2>2
  <2>4. ASSUME got'[IntroFrame(j)] = 0
        PROVE  /\ ~Within(World', ReplyFrame(j)) /\ got'[ReplyFrame(j)] = 0
               /\ \A q \in Party : GreeterEvent(j) \notin ToSet(node'[q].events)
    <3>1. f # IntroFrame(j) /\ got[IntroFrame(j)] = 0
      BY <1>2, <2>1, <2>4
    <3>2. f # ReplyFrame(j)
      BY <2>2, <3>1
    <3> QED BY <1>2, <1>3, <2>1, <2>2, <3>1, <3>2
  <2>5. ASSUME NEW q \in Party, GreeterEvent(j) \in ToSet(node'[q].events)
        PROVE  ~Within(World', ReplyFrame(j)) /\ got'[ReplyFrame(j)] = 0
    <3>1. GreeterEvent(j) \in ToSet(node[q].events) \/ f = IntroFrame(j)
      BY <2>5
    <3>2. ~Within(World, ReplyFrame(j)) /\ got[ReplyFrame(j)] = 0
      BY <1>1, <2>2, <3>1
    <3> QED BY <1>2, <1>3, <2>1, <3>2
  <2> QED BY <2>3, <2>4, <2>5
<1> QED BY <1>2, <1>4, <1>5 DEF Course

(* The parts of the invariant once a frame has arrived: nothing happens,   *)
(* or one event is added at the party that was asked or that asked.        *)
LEMMA OnOnReceive ==
  ASSUME AwpInv, NEW p \in Party, NEW c \in Conns, NEW k \in DOMAIN conn[c].wire[p], NEW held \in Nat,
         OnReceive(p, c, k, held)
  PROVE  AwpInv' /\ Kept
<1> DEFINE f == conn[c].wire[p][k]
<1>1. World \in WorldType /\ World.node = node /\ World.conn = conn
  BY WorldIs DEF AwpInv
<1>2. PICK v : v = [conn[c].wire EXCEPT ![p] = RemoveAt(@, k)]
  OBVIOUS
<1>3. PICK h : h = [conn[c].held EXCEPT ![p] = held]
  OBVIOUS
<1>4. PICK e : e = [conn[c] EXCEPT !.wire = v, !.held = h]
  OBVIOUS
<1>5. PICK y : y = SetConn(World, c, e)
  OBVIOUS
<1>6. PICK x : x = Receive(y, p, c, f)
  OBVIOUS
<1>7. UNCHANGED <<transport, public, by, called, faults, stops>> /\ got' = [got EXCEPT ![f] = @ + 1]
  BY DEF OnReceive
<1>8. Become(x)
  <2>1. e = [conn[c] EXCEPT !.wire[p] = RemoveAt(@, k), !.held[p] = held]
    BY <1>2, <1>3, <1>4
  <2>2. y = [World EXCEPT !.conn[c] = [conn[c] EXCEPT !.wire[p] = RemoveAt(@, k), !.held[p] = held]]
    BY <1>5, <2>1 DEF SetConn
  <2> QED BY <1>6, <2>2 DEF OnReceive
<1>9. conn[c] \in ConnType
  BY <1>1, WorldParts
<1>10. conn[c].wire \in [Party -> Seq(Frame)] /\ RemoveAt(conn[c].wire[p], k) \in Seq(Frame)
  BY <1>9, Removed DEF ConnType
<1>11. /\ v \in [Party -> Seq(Frame)] /\ h \in [Party -> Nat]
       /\ \A q \in Party : v[q] = IF q = p THEN RemoveAt(conn[c].wire[p], k) ELSE conn[c].wire[q]
  BY <1>2, <1>3, <1>9, <1>10 DEF ConnType
<1>12. e \in ConnType /\ e.init = conn[c].init /\ e.end = conn[c].end /\ e.wire = v
  BY <1>4, <1>9, <1>11 DEF ConnType
<1>w. \A q \in Party : e.wire[q] = IF q = p THEN RemoveAt(conn[c].wire[p], k) ELSE conn[c].wire[q]
  BY <1>11, <1>12
<1>13. /\ Tame(World, y) /\ Tells(World, y) /\ Stays(World, y) /\ y.node = node
       /\ f \in Frame /\ Within(World, f) /\ (Apart(World) => ~Within(y, f))
  BY <1>1, <1>5, <1>w, <1>12, Leaving
<1>14. y \in WorldType /\ ~Within(y, f) /\ Thins(World, y) /\ Ends(World, y)
  BY <1>13 DEF AwpInv, Tame
<1>15. Live(y)
  BY <1>13, LiveStays DEF AwpInv
<1> HIDE DEF f
<1>16. f.i \in Intros /\ (f.kind = "intro" => f = IntroFrame(f.i))
  BY <1>13 DEF Frame, IntroFrame
<1>17. faults' \in 0 .. MaxFaults /\ stops' \in 0 .. MaxStops
  BY <1>7 DEF AwpInv, TypeOK
<1>18. Single(node)
  BY DEF AwpInv, Course
<1>19. CASE x = y
  <2>1. World' = y /\ node' = node
    BY <1>8, <1>13, <1>14, <1>19, WorldBecomes
  <2>2. Course' /\ got' \in [Frame -> Nat]
    BY <1>7, <1>13, <1>14, <1>18, <2>1, CourseReceived
  <2>3. TypeOK'
    BY <1>7, <1>14, <1>17, <2>1, <2>2, TypeKept DEF AwpInv, TypeOK
  <2>4. Live(World)' /\ Apart(World)'
    BY <1>14, <1>15, <2>1 DEF AwpInv, Thins
  <2>5. Callbacks'
    BY <1>7, <2>1 DEF AwpInv, Callbacks
  <2>6. Settled(World, World')
    BY <1>14, <2>1 DEF Settled, Ends
  <2>7. Dialers' /\ Kept
    BY <1>7, <2>1, <2>6, DialersKept DEF AwpInv
  <2> QED BY <2>2, <2>3, <2>4, <2>5, <2>7 DEF AwpInv
<1>20. ASSUME NEW E \in Event, x = [y EXCEPT !.node[p].events = Append(@, E)],
              \/ E = GreeterEvent(f.i) /\ f = IntroFrame(f.i)
              \/ E = ForwardEvent(f.i, TRUE) /\ f.i \in node[p].stubs
       PROVE  AwpInv' /\ Kept
  <2>1. PICK n : n = [node[p] EXCEPT !.events = Append(node[p].events, E)]
    OBVIOUS
  <2>2. x = SetNode(y, p, n)
    BY <1>13, <1>20, <2>1 DEF SetNode
  <2>3. node[p] \in NodeType /\ node[p].events \in Seq(Event)
    BY <1>1, WorldParts DEF NodeType
  <2>4. /\ Append(node[p].events, E) \in Seq(Event)
        /\ ToSet(Append(node[p].events, E)) = ToSet(node[p].events) \cup {E}
    BY <2>3, Added
  <2>5. /\ n \in NodeType /\ n.outbox = node[p].outbox /\ n.connections = node[p].connections
        /\ n.stubs = node[p].stubs /\ n.sunk = node[p].sunk /\ n.lost = node[p].lost
        /\ n.events = Append(node[p].events, E)
        /\ n.listen = node[p].listen /\ n.listeners = node[p].listeners /\ n.twice = node[p].twice
    BY <2>1, <2>3, <2>4 DEF NodeType
  <2>6. /\ x \in WorldType /\ x.conn = y.conn /\ x.node[p] = n
        /\ \A q \in Party : q # p => x.node[q] = node[q]
        /\ \A d \in Place, q \in Party :
             Box(x, d, q) = IF d = None /\ q = p THEN n.outbox ELSE Box(y, d, q)
    BY <1>13, <1>14, <2>2, <2>5, NodeChanged
  <2>7. World' = x /\ node' = x.node /\ conn' = x.conn
    BY <1>8, <2>6, WorldBecomes
  <2>8. \A d \in Place, q \in Party : Box(x, d, q) \in {Box(y, d, q), <<>>}
    BY <1>13, <2>5, <2>6 DEF Box
  <2>9. Thins(y, x)
    BY <2>8, ThinBoxes
  <2>10. Thins(World, x) /\ ~Within(x, f)
    BY <1>13, <1>14, <2>9 DEF Thins
  <2>11. Ends(World, x)
    BY <1>14, <2>6 DEF Ends
  <2>12. Elsewhere(node, node', p) /\ node'[p].events = Append(node[p].events, E)
    BY <2>5, <2>6, <2>7 DEF Elsewhere
  <2>13. E.to = "greeter" => E = GreeterEvent(f.i) /\ f = IntroFrame(f.i)
    BY <1>16, <1>20, FramesAndEvents
  <2>14. Fresh(node, E)
    BY <1>13, <1>16, <2>13 DEF AwpInv, Course, Fresh
  <2>15. /\ Single(node')
         /\ \A q \in Party : ToSet(node'[q].events) \subseteq ToSet(node[q].events) \cup {E}
    BY <1>18, <2>3, <2>12, <2>14, LastEvent
  <2>16. ASSUME NEW j \in Intros, NEW q \in Party, GreeterEvent(j) \in ToSet(node'[q].events)
         PROVE  GreeterEvent(j) \in ToSet(node[q].events) \/ f = IntroFrame(j)
    <3>1. GreeterEvent(j) \in ToSet(node[q].events) \/ GreeterEvent(j) = E
      BY <2>15, <2>16
    <3>2. GreeterEvent(j) = E => f = IntroFrame(j)
      BY <1>16, <2>13, FramesAndEvents
    <3> QED BY <3>1, <3>2
  <2>17. Course' /\ got' \in [Frame -> Nat]
    BY <1>7, <1>13, <2>7, <2>10, <2>15, <2>16, CourseReceived
  <2>18. TypeOK'
    BY <1>7, <1>17, <2>6, <2>7, <2>17, TypeKept DEF AwpInv, TypeOK
  <2>19. Apart(World)'
    BY <2>7, <2>10 DEF AwpInv, Thins
  <2>20. Live(World)'
    BY <1>1, <2>5, <2>6, <2>7, <2>11 DEF AwpInv, Live, Ends
  <2>21. /\ Waits(node[p]) \subseteq Waits(n)
         /\ Waits(n) \subseteq Waits(node[p]) \cup {j \in Intros : E.to = "fwd" /\ j = f.i}
    <3>1. ToSet(n.events) = ToSet(node[p].events) \cup {E}
      BY <2>4, <2>5
    <3>2. E.i = f.i /\ f.i \in Intros
      BY <1>16, <1>20, FramesAndEvents
    <3>3. Forwarded(node[p]) \subseteq Forwarded(n)
      BY <3>1 DEF Forwarded
    <3>4. Forwarded(n) \subseteq Forwarded(node[p]) \cup {j \in Intros : E.to = "fwd" /\ j = f.i}
      BY <3>1, <3>2 DEF Forwarded
    <3> QED BY <2>5, <3>3, <3>4 DEF Waits
  <2>22. E.to = "fwd" => f.i \in node[p].stubs
    BY <1>16, <1>20, FramesAndEvents
  <2>23. Callbacks'
    <3>1. ASSUME NEW q \in Party, NEW j \in Waits(node'[q]) \cup node'[q].stubs PROVE by[j] = q
      <4>1. j \in Waits(node[q]) \cup node[q].stubs
        BY <2>5, <2>6, <2>7, <2>21, <2>22
      <4> QED BY <4>1 DEF AwpInv, Callbacks
    <3>2. \A q \in Party : node'[q].sunk = node[q].sunk
      BY <2>5, <2>6, <2>7
    <3> QED BY <1>7, <3>1, <3>2 DEF AwpInv, Callbacks
  <2>24. Settled(World, World')
    BY <2>7, <2>11 DEF Settled, Ends
  <2>25. \A q \in Party : /\ node'[q].listen = node[q].listen /\ node'[q].listeners = node[q].listeners
                          /\ Waits(node[q]) \subseteq Waits(node'[q])
    BY <2>5, <2>6, <2>7, <2>21
  <2>26. Dialers' /\ Kept
    BY <1>7, <2>24, <2>25, DialersKept DEF AwpInv
  <2> QED BY <2>17, <2>18, <2>19, <2>20, <2>23, <2>26 DEF AwpInv
<1>21. \/ x = y
       \/ f.kind = "intro" /\ x = [y EXCEPT !.node[p].events = Append(@, GreeterEvent(f.i))]
       \/ f.i \in node[p].stubs /\ x = [y EXCEPT !.node[p].events = Append(@, ForwardEvent(f.i, TRUE))]
  BY <1>6, <1>13 DEF Receive
<1>22. GreeterEvent(f.i) \in Event /\ ForwardEvent(f.i, TRUE) \in Event
  BY <1>16, FramesAndEvents
<1> QED BY <1>16, <1>19, <1>20, <1>21, <1>22

(* A frame arrives in a message of its own,                                *)
LEMMA OnOnFrame == ASSUME AwpInv, NEW p \in Party, NEW c \in Conns, OnFrame(p, c) PROVE AwpInv' /\ Kept
BY OnOnReceive DEF OnFrame

(* or in a chunk that ends it, or ended it before.                         *)
LEMMA OnOnData == ASSUME AwpInv, NEW p \in Party, NEW c \in Conns, OnData(p, c) PROVE AwpInv' /\ Kept
<1> DEFINE held == conn[c].held[p]
           coming == Len(conn[c].wire[p]) - held
<1>1. World \in WorldType /\ World.conn = conn
  BY WorldIs DEF AwpInv
<1>2. held \in Nat /\ conn[c].wire[p] \in Seq(Frame)
  BY <1>1, WorldParts DEF ConnType
<1>3. Len(conn[c].wire[p]) \in Nat /\ DOMAIN conn[c].wire[p] = 1 .. Len(conn[c].wire[p])
  BY <1>2, LenProperties
<1>4. PICK n \in 0 .. coming : coming > 0 /\ held + n > 0 /\ OnReceive(p, c, 1, held + n - 1)
  BY DEF OnData
<1>5. 1 \in DOMAIN conn[c].wire[p] /\ held + n - 1 \in Nat
  BY <1>2, <1>3, <1>4
<1> QED BY <1>4, <1>5, OnOnReceive

-----------------------------------------------------------------------------
(* The invariant *)

(* The invariant holds at first,                                           *)
LEMMA InitInv == Init => AwpInv
<1> SUFFICES ASSUME Init PROVE AwpInv
  OBVIOUS
<1>1. /\ transport \in Transports /\ public \in Publics /\ faults = MaxFaults /\ stops = MaxStops
      /\ node = [p \in Party |-> NewNode] /\ conn = [c \in Conns |-> NoConn]
      /\ by = [i \in Intros |-> None] /\ called = [i \in Intros |-> 0] /\ got = [f \in Frame |-> 0]
  BY DEF Init
<1>2. /\ NewNode \in NodeType /\ NewNode.outbox = <<>> /\ NewNode.events = <<>> /\ NewNode.lost = <<>>
      /\ NewNode.stubs = {} /\ NewNode.sunk = {} /\ NewNode.listen = FALSE /\ NewNode.listeners = FALSE
      /\ NewNode.twice = FALSE
  BY EmptySeq DEF NewNode, NodeType
<1>3. /\ NoConn \in ConnType /\ NoConn.init = None
      /\ \A p \in Party : NoConn.end[p] = "closed" /\ NoConn.wire[p] = <<>>
  BY EmptySeq DEF NoConn, ConnType, EndType
<1>4. \A p \in Party : node[p] = NewNode
  BY <1>1
<1>5. \A c \in Conns : conn[c] = NoConn
  BY <1>1
<1>6. node \in [Party -> NodeType] /\ conn \in [Conns -> ConnType]
  BY <1>1, <1>2, <1>3
<1>7. TypeOK
  <2>1. MaxFaults \in 0 .. MaxFaults /\ MaxStops \in 0 .. MaxStops
    BY AwpAssumption
  <2> QED BY <1>1, <1>6, <2>1 DEF TypeOK, NodeType, ConnType, EndType
<1>8. \A c \in Place, p \in Party : Box(World, c, p) = <<>>
  BY <1>2, <1>3, <1>4, <1>5 DEF Box, Place, World
<1>9. \A f : ~Within(World, f)
  BY <1>8 DEF Within, ToSet
<1>10. Live(World)
  BY <1>3, <1>5 DEF Live, World
<1>11. Apart(World)
  BY <1>8 DEF Apart
<1>12. \A p \in Party : ToSet(node[p].events) = {} /\ Waits(node[p]) = {}
  BY <1>2, <1>4 DEF ToSet, Waits, Forwarded
<1>13. Course
  <2>1. Single(node)
    BY <1>2, <1>4 DEF Single
  <2>2. \A f \in Frame : got[f] = 0
    BY <1>1
  <2> QED BY <1>9, <1>12, <2>1, <2>2, FramesAndEvents DEF Course
<1>14. Callbacks
  BY <1>1, <1>2, <1>4, <1>12 DEF Callbacks
<1>15. Dialers
  BY <1>1, <1>2, <1>3, <1>4, <1>5, Marks DEF Dialers
<1> QED BY <1>7, <1>10, <1>11, <1>13, <1>14, <1>15 DEF AwpInv

(* every step keeps it,                                                    *)
LEMMA NextInv == AwpInv /\ [Next]_vars => AwpInv' /\ Kept
<1> SUFFICES ASSUME AwpInv, [Next]_vars PROVE AwpInv' /\ Kept
  OBVIOUS
<1>1. ASSUME NEW p \in Party, NEW i \in Intros, Intro(p, i) PROVE AwpInv' /\ Kept
  BY <1>1, OnIntro
<1>2. ASSUME NEW p \in Party, Listen(p) PROVE AwpInv' /\ Kept
  BY <1>2, OnListen
<1>3. ASSUME NEW p \in Party, Listening(p) PROVE AwpInv' /\ Kept
  BY <1>3, OnListening
<1>4. ASSUME NEW p \in Party, StopListening(p) PROVE AwpInv' /\ Kept
  BY <1>4, OnStopListening
<1>5. ASSUME NEW p \in Party, Greet(p) PROVE AwpInv' /\ Kept
  BY <1>5, OnGreet
<1>6. ASSUME NEW p \in Party, Forward(p) PROVE AwpInv' /\ Kept
  BY <1>6, OnForward
<1>7. ASSUME NEW p \in Party, NEW c \in Conns, Establish(p, c) PROVE AwpInv' /\ Kept
  BY <1>7, OnEstablish
<1>8. ASSUME NEW p \in Party, Connected(p) PROVE AwpInv' /\ Kept
  BY <1>8, OnConnected
<1>9. ASSUME NEW p \in Party, ConnectFailed(p) PROVE AwpInv' /\ Kept
  BY <1>9, OnConnectFailed
<1>10. ASSUME NEW p \in Party, NEW c \in Conns, OnOpen(p, c) PROVE AwpInv' /\ Kept
  BY <1>10, OnOnOpen
<1>11. ASSUME NEW p \in Party, NEW c \in Conns, OnFrame(p, c) PROVE AwpInv' /\ Kept
  BY <1>11, OnOnFrame
<1>12. ASSUME NEW p \in Party, NEW c \in Conns, OnData(p, c) PROVE AwpInv' /\ Kept
  BY <1>12, OnOnData
<1>13. ASSUME NEW p \in Party, NEW c \in Conns, Sever(p, c) PROVE AwpInv' /\ Kept
  BY <1>13, OnSever
<1>14. ASSUME NEW p \in Party, NEW c \in Conns, CloseAgain(p, c) PROVE AwpInv' /\ Kept
  BY <1>14, OnCloseAgain
<1>15. ASSUME NEW p \in Party, NEW c \in Conns, LoseFrame(p, c) PROVE AwpInv' /\ Kept
  BY <1>15, OnLoseFrame
<1>16. ASSUME NEW p \in Party, NEW c \in Conns, OnClose(p, c) PROVE AwpInv' /\ Kept
  BY <1>16, OnOnClose
<1>17. ASSUME NEW p \in Party, NEW c \in Conns, FailSilently(p, c) PROVE AwpInv' /\ Kept
  BY <1>17, OnFailSilently
<1>18. ASSUME NEW c \in Conns, Fault(c) PROVE AwpInv' /\ Kept
  BY <1>18, OnFault
<1>19. CASE UNCHANGED vars
  <2>1. UNCHANGED <<transport, public, node, conn, by, called, got, faults, stops>>
    BY <1>19 DEF vars
  <2>2. TypeOK'
    BY <2>1 DEF AwpInv, TypeOK
  <2>3. World' = World
    BY <2>1 DEF World
  <2>4. Course' /\ Callbacks' /\ Dialers' /\ Kept
    BY <2>1, <2>3 DEF AwpInv, Course, Callbacks, Dialers, Kept, Told
  <2> QED BY <2>2, <2>3, <2>4 DEF AwpInv
<1> QED BY <1>1, <1>2, <1>3, <1>4, <1>5, <1>6, <1>7, <1>8, <1>9,
            <1>10, <1>11, <1>12, <1>13, <1>14, <1>15, <1>16, <1>17, <1>18, <1>19 DEF Next

-----------------------------------------------------------------------------
(***************************************************************************)
(* A dialer p over a transport other than TLS has no attempt under way     *)
(* while a connection is registered; this one is open, or it is a WebRTC   *)
(* connection that is dead (Stuck), and then it stays so and the outbox    *)
(* is kept.                                                                *)
(***************************************************************************)
Tie(w, p) ==
  LET n == w.node[p]
  IN  /\ ~n.twice
      /\ n.attempt \in Conns => w.conn[n.attempt].init # None
      /\ n.connections # None =>
           /\ n.attempt = None
           /\ w.conn[n.connections].init # None
           /\ \/ w.conn[n.connections].end[p] = "open"
              \/ transport = "webrtc" /\ w.conn[n.connections].end[p] = "closed"
Stuck(w, p) ==
  LET c == w.node[p].connections
  IN  transport = "webrtc" /\ c # None /\ w.conn[c].end[p] = "closed"
Goes(w, x, p) ==
  /\ Tie(x, p)
  /\ Stuck(w, p) => Stuck(x, p) /\ ToSet(w.node[p].outbox) \subseteq ToSet(x.node[p].outbox)
Tied == transport # "tls" => \A p \in Party \ public : Tie(World, p)

(* What p has is the same in both worlds.                                  *)
Same(w, x, p) ==
  /\ x.node[p].connections = w.node[p].connections
  /\ x.node[p].attempt = w.node[p].attempt
  /\ x.node[p].outbox = w.node[p].outbox
  /\ x.node[p].twice = w.node[p].twice
  /\ \A c \in Conns : x.conn[c].init = w.conn[c].init /\ x.conn[c].end[p] = w.conn[c].end[p]

(* Then it stays tied.                                                     *)
LEMMA SameTwice ==
  ASSUME NEW w, NEW x, NEW y, NEW p \in Party, Same(w, x, p), Same(x, y, p) PROVE Same(w, y, p)
BY DEF Same

LEMMA SameGoes ==
  ASSUME NEW w \in WorldType, NEW x, NEW p \in Party, Same(w, x, p), Tie(w, p) PROVE Goes(w, x, p)
<1>1. w.node[p].connections \in Conns \cup {None}
  BY WorldParts DEF NodeType
<1> QED BY <1>1 DEF Same, Goes, Tie, Stuck

(* Failures and arrivals concern neither outboxes nor connections.         *)
LEMMA SameLose ==
  ASSUME NEW w \in WorldType, NEW p \in Party, NEW q \in Party, NEW wakeup
  PROVE  Same(w, Lose(w, q, wakeup), p)
<1> DEFINE n == [w.node[q] EXCEPT !.lost = <<>>,
                   !.events = IF wakeup THEN w.node[q].events \o FailureEvents(w, q) ELSE w.node[q].events]
<1>1. w.node \in [Party -> NodeType] /\ w.node[q] \in NodeType
  BY DEF WorldType
<1>2. /\ n.connections = w.node[q].connections /\ n.attempt = w.node[q].attempt
      /\ n.outbox = w.node[q].outbox /\ n.twice = w.node[q].twice
  BY <1>1 DEF NodeType
<1>3. Lose(w, q, wakeup) = [w EXCEPT !.node[q] = n]
  BY DEF Lose
<1> HIDE DEF n
<1>4. PICK x : x = Lose(w, q, wakeup)
  OBVIOUS
<1>5. x.conn = w.conn /\ x.node = [w.node EXCEPT ![q] = n]
  BY <1>3, <1>4 DEF WorldType
<1> QED BY <1>1, <1>2, <1>4, <1>5 DEF Same

LEMMA SameReceive ==
  ASSUME NEW w \in WorldType, NEW p \in Party, NEW q \in Party, NEW c \in Conns, NEW f
  PROVE  Same(w, Receive(w, q, c, f), p)
<1>1. ASSUME NEW e PROVE Same(w, [w EXCEPT !.node[q].events = Append(@, e)], p)
  <2> DEFINE n == [w.node[q] EXCEPT !.events = Append(@, e)]
  <2>1. w.node \in [Party -> NodeType] /\ w.node[q] \in NodeType
    BY DEF WorldType
  <2>2. /\ n.connections = w.node[q].connections /\ n.attempt = w.node[q].attempt
        /\ n.outbox = w.node[q].outbox /\ n.twice = w.node[q].twice
    BY <2>1 DEF NodeType
  <2>3. PICK x : x = [w EXCEPT !.node[q].events = Append(@, e)]
    OBVIOUS
  <2>4. x.conn = w.conn /\ x.node = [w.node EXCEPT ![q] = n]
    BY <2>3 DEF WorldType
  <2> HIDE DEF n
  <2> QED BY <2>1, <2>2, <2>3, <2>4 DEF Same
<1>2. Same(w, w, p)
  BY DEF Same
<1> QED BY <1>1, <1>2 DEF Receive

-----------------------------------------------------------------------------
(* What another party q does to itself and to its end of a connection.     *)
Elses(w, x, q) ==
  /\ \A p \in Party : p # q => x.node[p] = w.node[p]
  /\ \A c \in Conns : /\ x.conn[c].init = w.conn[c].init
                      /\ \A p \in Party : p # q => x.conn[c].end[p] = w.conn[c].end[p]

LEMMA ElsesTwice ==
  ASSUME NEW w, NEW x, NEW y, NEW q \in Party, Elses(w, x, q), Elses(x, y, q) PROVE Elses(w, y, q)
BY DEF Elses

LEMMA ElsesSame ==
  ASSUME NEW w, NEW x, NEW q \in Party, NEW p \in Party, p # q, Elses(w, x, q) PROVE Same(w, x, p)
BY DEF Elses, Same

LEMMA ElsesNode ==
  ASSUME NEW w \in WorldType, NEW q \in Party, NEW n PROVE Elses(w, SetNode(w, q, n), q)
<1>1. PICK x : x = SetNode(w, q, n)
  OBVIOUS
<1>2. x.conn = w.conn /\ x.node = [w.node EXCEPT ![q] = n]
  BY <1>1 DEF WorldType, SetNode
<1> QED BY <1>1, <1>2 DEF Elses, WorldType

LEMMA ElsesClose ==
  ASSUME NEW w \in WorldType, NEW c \in Conns, NEW q \in Party PROVE Elses(w, CloseEnd(w, c, q), q)
<1>1. PICK x : x = CloseEnd(w, c, q)
  OBVIOUS
<1>2. PICK e : e = [w.conn[c] EXCEPT !.end[q] = "closed", !.wire[q] = <<>>, !.held[q] = 0]
  OBVIOUS
<1>3. w.conn \in [Conns -> ConnType] /\ w.conn[c] \in ConnType
  BY DEF WorldType
<1>4. x.node = w.node /\ x.conn = [w.conn EXCEPT ![c] = e]
  BY <1>1, <1>2 DEF CloseEnd, WorldType
<1>5. e.init = w.conn[c].init /\ e.end = [w.conn[c].end EXCEPT ![q] = "closed"]
  BY <1>2, <1>3 DEF ConnType
<1>6. \A p \in Party : p # q => e.end[p] = w.conn[c].end[p]
  BY <1>3, <1>5 DEF ConnType
<1> QED BY <1>1, <1>3, <1>4, <1>5, <1>6 DEF Elses

LEMMA ElsesLose ==
  ASSUME NEW w \in WorldType, NEW q \in Party, NEW wakeup PROVE Elses(w, Lose(w, q, wakeup), q)
<1>1. PICK n : Lose(w, q, wakeup) = SetNode(w, q, n)
  BY DEF Lose, SetNode
<1> QED BY <1>1, ElsesNode

LEMMA ElsesUnregister ==
  ASSUME NEW w \in WorldType, NEW q \in Party, NEW wakeup \in BOOLEAN
  PROVE  Elses(w, Unregister(w, q, wakeup), q)
<1> DEFINE n == [w.node[q] EXCEPT !.outbox = <<>>, !.connections = None]
           y == SetNode(w, q, n)
<1>1. Unregister(w, q, wakeup) = Lose(y, q, wakeup)
  BY DEF Unregister, SetNode
<1>2. n \in NodeType
  BY WorldParts, EmptySeq DEF NodeType
<1> HIDE DEF n
<1>3. y \in WorldType /\ Elses(w, y, q)
  BY <1>2, NodeChanged, ElsesNode
<1> HIDE DEF y
<1> QED BY <1>1, <1>3, ElsesLose, ElsesTwice

LEMMA ElsesFlush ==
  ASSUME NEW w \in WorldType, NEW q \in Party PROVE Elses(w, Flush(w, q), q)
<1>1. Elses(w, w, q)
  BY DEF Elses
<1>2. ASSUME NEW c \in Conns PROVE Elses(w, Send(w, q, c), q)
  <2> DEFINE n == [w.node[q] EXCEPT !.outbox = <<>>]
             e == [w.conn[c] EXCEPT !.wire[Peer(q)] = @ \o w.node[q].outbox]
             x == [w EXCEPT !.node[q].outbox = <<>>, !.conn[c].wire[Peer(q)] = @ \o w.node[q].outbox]
  <2>1. w.conn \in [Conns -> ConnType] /\ w.conn[c] \in ConnType /\ w.node \in [Party -> NodeType]
    BY DEF WorldType
  <2>2. x.node = [w.node EXCEPT ![q] = n] /\ x.conn = [w.conn EXCEPT ![c] = e]
    BY DEF WorldType
  <2>3. e.init = w.conn[c].init /\ e.end = w.conn[c].end
    BY <2>1 DEF ConnType
  <2> HIDE DEF n, e
  <2>4. Elses(w, x, q)
    <3> HIDE DEF x
    <3> QED BY <2>1, <2>2, <2>3 DEF Elses
  <2>5. [w EXCEPT !.node[q].outbox = <<>>] = SetNode(w, q, n)
    BY DEF SetNode, n
  <2> QED BY <1>1, <2>4, <2>5, ElsesNode DEF Send
<1>3. Elses(w, Connect(w, q), q)
  <2> DEFINE y == Lose(w, q, TRUE)
  <2>1. y \in WorldType /\ Elses(w, y, q)
    BY Losing, ElsesLose DEF Tame
  <2> HIDE DEF y
  <2>2. Elses(w, [y EXCEPT !.node[q].opening = TRUE], q)
    <3>1. [y EXCEPT !.node[q].opening = TRUE] = SetNode(y, q, [y.node[q] EXCEPT !.opening = TRUE])
      BY DEF SetNode
    <3> QED BY <2>1, <3>1, ElsesNode, ElsesTwice
  <2>3. Elses(w, [w EXCEPT !.node[q] = [@ EXCEPT !.opening = TRUE, !.attempt = Connecting]], q)
    BY ElsesNode DEF SetNode
  <2> QED BY <2>2, <2>3 DEF Connect, y
<1>4. w.node[q].connections \in Conns \cup {None}
  BY WorldParts DEF NodeType
<1> QED BY <1>1, <1>2, <1>3, <1>4 DEF Flush

LEMMA ElsesEnqueue ==
  ASSUME NEW w \in WorldType, NEW q \in Party, NEW f \in Frame PROVE Elses(w, Enqueue(w, q, f), q)
<1> DEFINE n == [w.node[q] EXCEPT !.outbox = Append(@, f)]
           y == SetNode(w, q, n)
<1>1. Enqueue(w, q, f) = Flush(y, q)
  BY DEF Enqueue, SetNode
<1>2. w.node[q] \in NodeType /\ w.node[q].outbox \in Seq(Frame)
  BY WorldParts DEF NodeType
<1>3. Append(w.node[q].outbox, f) \in Seq(Frame)
  BY <1>2, AppendProperties
<1>4. n \in NodeType
  BY <1>2, <1>3 DEF NodeType
<1> HIDE DEF n
<1>5. y \in WorldType /\ Elses(w, y, q)
  BY <1>4, NodeChanged, ElsesNode
<1> HIDE DEF y
<1> QED BY <1>1, <1>5, ElsesFlush, ElsesTwice

LEMMA ElsesRegister ==
  ASSUME NEW w \in WorldType, NEW q \in Party, NEW c \in Conns PROVE Elses(w, Register(w, q, c), q)
<1> DEFINE a == w.node[q].attempt
           m == [w.node[q] EXCEPT !.opening = FALSE, !.attempt = None]
           u == SetNode(w, q, m)
<1>1. w.node[q] \in NodeType /\ a \in Conns \cup {None, Connecting}
  BY WorldParts DEF NodeType
<1>2. m \in NodeType
  BY <1>1 DEF NodeType
<1>3. Cancel(w, q) = IF a \in Conns THEN CloseEnd(u, a, q) ELSE u
  BY DEF Cancel, SetNode
<1> HIDE DEF m, a
<1>4. u \in WorldType /\ Elses(w, u, q)
  BY <1>2, NodeChanged, ElsesNode
<1> HIDE DEF u
<1>5. Cancel(w, q) \in WorldType /\ Elses(w, Cancel(w, q), q)
  BY <1>3, <1>4, ElsesClose, ElsesTwice, Cancelling DEF Tame
<1>6. PICK v : v = IF w.node[q].opening THEN Cancel(w, q) ELSE w
  OBVIOUS
<1>7. v \in WorldType /\ Elses(w, v, q)
  <2>1. Elses(w, w, q)
    BY DEF Elses
  <2> QED BY <1>5, <1>6, <2>1
<1> DEFINE n == [v.node[q] EXCEPT !.connections = c]
           y == SetNode(v, q, n)
<1>8. n \in NodeType
  BY <1>7, WorldParts DEF NodeType
<1>9. Register(w, q, c) = IF w.node[q].connections = None THEN Flush(y, q)
                          ELSE CloseEnd(y, w.node[q].connections, q)
  BY <1>6 DEF Register, SetNode
<1> HIDE DEF n
<1>10. y \in WorldType /\ Elses(v, y, q)
  BY <1>7, <1>8, NodeChanged, ElsesNode
<1> HIDE DEF y
<1>11. Elses(w, y, q)
  BY <1>7, <1>10, ElsesTwice
<1>12. w.node[q].connections # None => w.node[q].connections \in Conns
  BY <1>1 DEF NodeType
<1> QED BY <1>9, <1>10, <1>11, <1>12, ElsesFlush, ElsesClose, ElsesTwice

-----------------------------------------------------------------------------
(* What the dialer does itself *)

LEMMA GoesTwice ==
  ASSUME NEW w, NEW x, NEW y, NEW p \in Party, Goes(w, x, p), Goes(x, y, p) PROVE Goes(w, y, p)
BY DEF Goes

(* A change of its state that concerns neither connection nor attempt.     *)
LEMMA GoesNode ==
  ASSUME NEW w \in WorldType, NEW p \in Party, NEW n \in NodeType, Tie(w, p),
         n.connections = w.node[p].connections, n.attempt = w.node[p].attempt,
         n.twice = w.node[p].twice, ToSet(w.node[p].outbox) \subseteq ToSet(n.outbox)
  PROVE  Goes(w, SetNode(w, p, n), p)
<1>1. PICK x : x = SetNode(w, p, n)
  OBVIOUS
<1>2. x.conn = w.conn /\ x.node[p] = n
  BY <1>1, NodeChanged
<1> QED BY <1>1, <1>2 DEF Goes, Tie, Stuck

(* On an open connection it sends, without one it makes an attempt, and on *)
(* a dead one nothing changes.                                             *)
LEMMA GoesFlush ==
  ASSUME NEW w \in WorldType, NEW p \in Party, transport # "tls", Tie(w, p)
  PROVE  Goes(w, Flush(w, p), p)
<1>1. w.node[p] \in NodeType /\ w.node[p].connections \in Conns \cup {None}
  BY WorldParts DEF NodeType
<1>2. Goes(w, w, p)
  BY SameGoes DEF Same
<1>3. ASSUME w.node[p].connections # None PROVE Goes(w, Send(w, p, w.node[p].connections), p)
  <2> DEFINE c == w.node[p].connections
             n == [w.node[p] EXCEPT !.outbox = <<>>]
             e == [w.conn[c] EXCEPT !.wire[Peer(p)] = @ \o w.node[p].outbox]
             x == [w EXCEPT !.node[p].outbox = <<>>, !.conn[c].wire[Peer(p)] = @ \o w.node[p].outbox]
  <2>1. c \in Conns
    BY <1>1, <1>3
  <2>2. CASE w.conn[c].end[p] = "open"
    <3>1. w.conn \in [Conns -> ConnType] /\ w.conn[c] \in ConnType /\ w.node \in [Party -> NodeType]
      BY <2>1 DEF WorldType
    <3>2. x.node = [w.node EXCEPT ![p] = n] /\ x.conn = [w.conn EXCEPT ![c] = e]
      BY DEF WorldType
    <3>3. e.init = w.conn[c].init /\ e.end = w.conn[c].end
      BY <3>1 DEF ConnType
    <3>4. n.connections = c /\ n.attempt = w.node[p].attempt /\ n.twice = w.node[p].twice
      BY <1>1 DEF NodeType
    <3>5. Send(w, p, c) = x
      BY <2>2 DEF Send
    <3>6. ~Stuck(w, p)
      BY <2>2 DEF Stuck
    <3>7. None \notin Conns
      BY Marks
    <3> HIDE DEF n, e, x
    <3>8. x.node[p] = n /\ x.conn[c] = e
      BY <2>1, <3>1, <3>2
    <3> HIDE DEF c
    <3>9. Tie(x, p)
      BY <1>3, <2>2, <3>3, <3>4, <3>7, <3>8 DEF Tie, c
    <3> QED BY <3>5, <3>6, <3>9 DEF Goes, c
  <2>3. CASE w.conn[c].end[p] # "open"
    BY <1>2, <2>3 DEF Send
  <2> QED BY <2>2, <2>3
<1>4. ASSUME w.node[p].connections = None PROVE Goes(w, Connect(w, p), p)
  <2> DEFINE n == [w.node[p] EXCEPT !.opening = TRUE, !.attempt = Connecting]
  <2>1. /\ n \in NodeType /\ n.connections = w.node[p].connections /\ n.attempt = Connecting
        /\ n.twice = w.node[p].twice
    BY <1>1 DEF NodeType
  <2>2. PICK x : x = SetNode(w, p, n)
    OBVIOUS
  <2>3. Connect(w, p) = x
    BY <2>2 DEF Connect, SetNode
  <2> HIDE DEF n
  <2>4. x.conn = w.conn /\ x.node[p] = n
    BY <2>1, <2>2, NodeChanged
  <2> QED BY <1>4, <2>1, <2>3, <2>4, Marks DEF Goes, Tie, Stuck
<1> QED BY <1>2, <1>3, <1>4 DEF Flush

(* A frame is enqueued: on a dead connection it stays in the outbox.       *)
LEMMA GoesEnqueue ==
  ASSUME NEW w \in WorldType, NEW p \in Party, NEW f \in Frame, transport # "tls", Tie(w, p)
  PROVE  LET x == Enqueue(w, p, f)
         IN  Goes(w, x, p) /\ (Stuck(w, p) => Stuck(x, p) /\ f \in ToSet(x.node[p].outbox))
<1> DEFINE n == [w.node[p] EXCEPT !.outbox = Append(@, f)]
           y == SetNode(w, p, n)
<1>1. Enqueue(w, p, f) = Flush(y, p)
  BY DEF Enqueue, SetNode
<1>2. w.node[p] \in NodeType /\ w.node[p].outbox \in Seq(Frame)
  BY WorldParts DEF NodeType
<1>3. /\ Append(w.node[p].outbox, f) \in Seq(Frame)
      /\ ToSet(Append(w.node[p].outbox, f)) = ToSet(w.node[p].outbox) \cup {f}
  BY <1>2, Added
<1>4. /\ n \in NodeType /\ n.connections = w.node[p].connections /\ n.attempt = w.node[p].attempt
      /\ n.twice = w.node[p].twice /\ n.outbox = Append(w.node[p].outbox, f)
  BY <1>2, <1>3 DEF NodeType
<1> HIDE DEF n
<1>5. /\ y \in WorldType /\ y.node[p] = n
      /\ ToSet(n.outbox) = ToSet(w.node[p].outbox) \cup {f}
  BY <1>3, <1>4, NodeChanged
<1>g. Goes(w, y, p)
  <2>1. ToSet(w.node[p].outbox) \subseteq ToSet(n.outbox)
    BY <1>5
  <2> QED BY <1>4, <2>1, GoesNode
<1> HIDE DEF y
<1>6. Goes(y, Flush(y, p), p)
  BY <1>5, <1>g, GoesFlush DEF Goes
<1> QED BY <1>1, <1>5, <1>6, <1>g, GoesTwice DEF Goes

(* A connection becomes registered where there was none.                   *)
LEMMA TieRegister ==
  ASSUME NEW u \in WorldType, NEW p \in Party, NEW c \in Conns, transport # "tls",
         u.node[p].connections = None, u.node[p].opening = FALSE, u.node[p].attempt = None,
         ~u.node[p].twice, u.conn[c].init # None, u.conn[c].end[p] = "open"
  PROVE  Tie(Register(u, p, c), p)
<1>1. PICK n : n = [u.node[p] EXCEPT !.connections = c]
  OBVIOUS
<1>2. u.node[p] \in NodeType
  BY WorldParts
<1>3. n \in NodeType /\ n.connections = c /\ n.attempt = None /\ ~n.twice
  BY <1>1, <1>2 DEF NodeType
<1>4. PICK y : y = SetNode(u, p, n)
  OBVIOUS
<1>5. y \in WorldType /\ y.conn = u.conn /\ y.node[p] = n
  BY <1>3, <1>4, NodeChanged
<1>6. Register(u, p, c) = Flush(y, p)
  <2>1. Register(u, p, c) = Flush([u EXCEPT !.node[p].connections = c], p)
    BY DEF Register
  <2>2. [u EXCEPT !.node[p].connections = c] = y
    BY <1>1, <1>4 DEF SetNode
  <2> QED BY <2>1, <2>2
<1>7. Tie(y, p)
  BY <1>3, <1>5, Marks DEF Tie
<1>8. Goes(y, Flush(y, p), p)
  BY <1>5, <1>7, GoesFlush
<1> QED BY <1>6, <1>8 DEF Goes

(* It is told of the connection it asked for.                              *)
LEMMA GoesConnected ==
  ASSUME NEW w \in WorldType, NEW p \in Party, transport # "tls", Tie(w, p), NEW c \in Conns,
         w.node[p].attempt = c
  PROVE  LET u == [w EXCEPT !.node[p] = [@ EXCEPT !.opening = FALSE, !.attempt = None],
                            !.conn[c].end[p] = "open"]
         IN  Goes(w, Register(u, p, c), p)
<1>1. w.node[p] \in NodeType /\ w.node[p].connections = None /\ w.conn[c].init # None /\ ~w.node[p].twice
  BY WorldParts, Marks DEF Tie
<1>2. PICK m : m = [w.node[p] EXCEPT !.opening = FALSE, !.attempt = None]
  OBVIOUS
<1>3. /\ m \in NodeType /\ m.connections = None /\ m.attempt = None /\ m.opening = FALSE /\ ~m.twice
  BY <1>1, <1>2 DEF NodeType
<1>4. PICK v : v = SetNode(w, p, m)
  OBVIOUS
<1>5. v \in WorldType /\ v.node[p] = m /\ v.conn = w.conn
  BY <1>3, <1>4, NodeChanged
<1>6. PICK u : u = [v EXCEPT !.conn[c].end[p] = "open"]
  OBVIOUS
<1>7. u = [w EXCEPT !.node[p] = [@ EXCEPT !.opening = FALSE, !.attempt = None],
                    !.conn[c].end[p] = "open"]
  BY <1>2, <1>4, <1>6 DEF SetNode
<1>8. "open" \in EndType
  BY DEF EndType
<1>9. Alters(v, u) /\ u.node = v.node /\ u.conn[c].end[p] = "open"
  BY <1>1, <1>5, <1>6, <1>8, Opening
<1>10. u \in WorldType /\ u.conn[c].init # None
  BY <1>1, <1>5, <1>9 DEF Alters, Settled
<1>11. Tie(Register(u, p, c), p)
  BY <1>3, <1>5, <1>9, <1>10, TieRegister
<1>12. ~Stuck(w, p)
  BY <1>1 DEF Stuck
<1> QED BY <1>7, <1>11, <1>12 DEF Goes

-----------------------------------------------------------------------------
(* The steps, for a dialer *)

(* A step makes the world that a helper returned.                          *)
LEMMA Becoming ==
  ASSUME NEW x, Become(x)
  PROVE  /\ \A p \in Party : Goes(World, x, p) => Goes(World, World', p)
         /\ \A q \in Party : Elses(World, x, q) => Elses(World, World', q)
<1>1. World'.node = x.node /\ World'.conn = x.conn
  BY DEF World, Become
<1> QED BY <1>1 DEF Goes, Tie, Stuck, Elses

(* A request that cannot be sent stays in the outbox of a dead connection. *)
LEMMA DialerIntro ==
  ASSUME AwpInv, transport # "tls", NEW p \in Party, Tie(World, p), NEW i \in Intros, Intro(p, i)
  PROVE  /\ Goes(World, World', p)
         /\ SendThrows(p) => Stuck(World', p) /\ IntroFrame(i) \in ToSet(World'.node[p].outbox)
<1> DEFINE f == IntroFrame(i)
<1>1. World \in WorldType /\ World.node = node /\ World.conn = conn
  BY WorldIs DEF AwpInv
<1>2. PICK n : n = [node[p] EXCEPT !.stubs = node[p].stubs \cup {i}]
  OBVIOUS
<1>3. PICK y : y = SetNode(World, p, n)
  OBVIOUS
<1>4. PICK w : w = Enqueue(y, p, f)
  OBVIOUS
<1>5. PICK x : x = IF SendThrows(p) THEN w ELSE [w EXCEPT !.node[p].lost = Append(@, i)]
  OBVIOUS
<1>6. Become(x)
  <2>1. y = [World EXCEPT !.node[p].stubs = @ \cup {i}]
    BY <1>1, <1>2, <1>3 DEF SetNode
  <2> QED BY <1>4, <1>5, <2>1 DEF Intro
<1>7. f \in Frame
  BY FramesAndEvents
<1> HIDE DEF f
<1>8. node[p] \in NodeType
  BY <1>1, WorldParts
<1>9. /\ n \in NodeType /\ n.outbox = node[p].outbox /\ n.connections = node[p].connections
      /\ n.attempt = node[p].attempt /\ n.twice = node[p].twice
  BY <1>2, <1>8 DEF NodeType
<1>10. y \in WorldType /\ y.node[p] = n /\ y.conn = conn
  BY <1>1, <1>3, <1>9, NodeChanged
<1>11. Goes(World, y, p)
  BY <1>1, <1>3, <1>9, GoesNode
<1>12. Goes(y, w, p) /\ (Stuck(y, p) => Stuck(w, p) /\ f \in ToSet(w.node[p].outbox))
  BY <1>4, <1>7, <1>10, <1>11, GoesEnqueue DEF Goes
<1>13. w \in WorldType
  BY <1>4, <1>7, <1>10, Enqueueing DEF Sends
<1>14. Goes(World, w, p)
  BY <1>11, <1>12, GoesTwice
<1>15. CASE SendThrows(p)
  <2>1. x = w
    BY <1>5, <1>15
  <2>2. Stuck(World, p)
    BY <1>1, <1>15 DEF SendThrows, Tie, Stuck
  <2>3. Stuck(y, p)
    BY <1>11, <2>2 DEF Goes
  <2>4. World'.node = w.node /\ World'.conn = w.conn
    BY <1>6, <2>1 DEF World, Become
  <2>5. Stuck(World', p) /\ f \in ToSet(World'.node[p].outbox)
    BY <1>12, <2>3, <2>4 DEF Stuck
  <2> QED BY <1>6, <1>14, <2>1, <2>5, Becoming DEF f
<1>16. CASE ~SendThrows(p)
  <2>1. w.node[p] \in NodeType /\ w.node[p].lost \in Seq(Intros)
    BY <1>13, WorldParts DEF NodeType
  <2>2. PICK m : m = [w.node[p] EXCEPT !.lost = Append(w.node[p].lost, i)]
    OBVIOUS
  <2>3. Append(w.node[p].lost, i) \in Seq(Intros)
    BY <2>1, Added
  <2>4. /\ m \in NodeType /\ m.outbox = w.node[p].outbox /\ m.connections = w.node[p].connections
        /\ m.attempt = w.node[p].attempt /\ m.twice = w.node[p].twice
    BY <2>1, <2>2, <2>3 DEF NodeType
  <2>5. x = SetNode(w, p, m)
    BY <1>5, <1>16, <2>2 DEF SetNode
  <2>6. Goes(w, x, p)
    BY <1>13, <1>14, <2>4, <2>5, GoesNode DEF Goes
  <2> QED BY <1>6, <1>14, <1>16, <2>6, GoesTwice, Becoming
<1> QED BY <1>15, <1>16

(* What another party asks for does not reach the dialer.                  *)
LEMMA OtherIntro ==
  ASSUME AwpInv, NEW q \in Party, NEW i \in Intros, Intro(q, i)
  PROVE  Elses(World, World', q)
<1> DEFINE f == IntroFrame(i)
<1>1. World \in WorldType /\ World.node = node
  BY WorldIs DEF AwpInv
<1>2. PICK n : n = [node[q] EXCEPT !.stubs = node[q].stubs \cup {i}]
  OBVIOUS
<1>3. PICK y : y = SetNode(World, q, n)
  OBVIOUS
<1>4. PICK w : w = Enqueue(y, q, f)
  OBVIOUS
<1>5. PICK x : x = IF SendThrows(q) THEN w ELSE [w EXCEPT !.node[q].lost = Append(@, i)]
  OBVIOUS
<1>6. Become(x)
  <2>1. y = [World EXCEPT !.node[q].stubs = @ \cup {i}]
    BY <1>1, <1>2, <1>3 DEF SetNode
  <2> QED BY <1>4, <1>5, <2>1 DEF Intro
<1>7. f \in Frame
  BY FramesAndEvents
<1> HIDE DEF f
<1>8. n \in NodeType
  BY <1>1, <1>2, WorldParts DEF NodeType
<1>9. y \in WorldType /\ Elses(World, y, q)
  BY <1>1, <1>3, <1>8, NodeChanged, ElsesNode
<1>10. w \in WorldType /\ Elses(World, w, q)
  BY <1>4, <1>7, <1>9, Enqueueing, ElsesEnqueue, ElsesTwice DEF Sends
<1>11. x = w \/ x = SetNode(w, q, [w.node[q] EXCEPT !.lost = Append(@, i)])
  BY <1>5 DEF SetNode
<1>12. Elses(World, x, q)
  BY <1>10, <1>11, ElsesNode, ElsesTwice
<1> QED BY <1>6, <1>12, Becoming

LEMMA GreetWorld ==
  ASSUME AwpInv, NEW q \in Party, Greet(q)
  PROVE  \E n \in NodeType, f \in Frame :
           /\ Become(Enqueue(SetNode(World, q, n), q, f))
           /\ n.outbox = node[q].outbox /\ n.connections = node[q].connections
           /\ n.attempt = node[q].attempt /\ n.twice = node[q].twice
<1>1. World \in WorldType /\ World.node = node
  BY WorldIs DEF AwpInv
<1>2. node[q] \in NodeType /\ node[q].events \in Seq(Event) /\ node[q].events # <<>>
  BY <1>1, WorldParts DEF NodeType, Greet
<1>3. Tail(node[q].events) \in Seq(Event) /\ Head(node[q].events).i \in Intros
  <2>1. Tail(node[q].events) \in Seq(Event) /\ Head(node[q].events) \in Event
    BY <1>2, Shortened
  <2> QED BY <2>1 DEF Event
<1>4. PICK n : n = [node[q] EXCEPT !.events = Tail(node[q].events)]
  OBVIOUS
<1>5. /\ n \in NodeType /\ n.outbox = node[q].outbox /\ n.connections = node[q].connections
      /\ n.attempt = node[q].attempt /\ n.twice = node[q].twice
  BY <1>2, <1>3, <1>4 DEF NodeType
<1>6. [World EXCEPT !.node[q].events = Tail(@)] = SetNode(World, q, n)
  BY <1>1, <1>4 DEF SetNode
<1>7. Become(Enqueue(SetNode(World, q, n), q, ReplyFrame(Head(node[q].events).i)))
  BY <1>6 DEF Greet
<1>8. ReplyFrame(Head(node[q].events).i) \in Frame
  BY <1>3, FramesAndEvents
<1> QED BY <1>5, <1>7, <1>8

LEMMA DialerGreet ==
  ASSUME AwpInv, transport # "tls", NEW p \in Party, Tie(World, p), Greet(p)
  PROVE  Goes(World, World', p)
<1>1. World \in WorldType /\ World.node = node
  BY WorldIs DEF AwpInv
<1>2. PICK n \in NodeType, f \in Frame :
        /\ Become(Enqueue(SetNode(World, p, n), p, f))
        /\ n.outbox = node[p].outbox /\ n.connections = node[p].connections
        /\ n.attempt = node[p].attempt /\ n.twice = node[p].twice
  BY GreetWorld
<1>3. PICK y : y = SetNode(World, p, n)
  OBVIOUS
<1>4. y \in WorldType /\ Goes(World, y, p)
  BY <1>1, <1>2, <1>3, NodeChanged, GoesNode
<1>5. PICK x : x = Enqueue(y, p, f)
  OBVIOUS
<1>6. Goes(y, x, p)
  BY <1>4, <1>5, GoesEnqueue DEF Goes
<1>7. Become(x)
  BY <1>2, <1>3, <1>5
<1> QED BY <1>4, <1>6, <1>7, GoesTwice, Becoming

LEMMA OtherGreet ==
  ASSUME AwpInv, NEW q \in Party, Greet(q) PROVE Elses(World, World', q)
<1>1. World \in WorldType
  BY WorldIs DEF AwpInv
<1>2. PICK n \in NodeType, f \in Frame : Become(Enqueue(SetNode(World, q, n), q, f))
  BY GreetWorld
<1>3. PICK y : y = SetNode(World, q, n)
  OBVIOUS
<1>4. PICK x : x = Enqueue(y, q, f)
  OBVIOUS
<1>5. y \in WorldType /\ Elses(World, y, q)
  BY <1>1, <1>3, NodeChanged, ElsesNode
<1>6. Elses(World, x, q)
  BY <1>4, <1>5, ElsesEnqueue, ElsesTwice
<1> QED BY <1>2, <1>3, <1>4, <1>6, Becoming

(* Steps at a party that concern its listening, or what its core does, or  *)
(* a frame that arrives or is lost, or a connection that goes down.        *)
LEMMA QuietStep ==
  ASSUME AwpInv, NEW p \in Party \ public, NEW q \in Party, NEW c,
         \/ Listen(q) \/ Listening(q) \/ Forward(q) \/ StopListening(q) \/ UNCHANGED vars
         \/ c \in Conns /\ (LoseFrame(q, c) \/ Fault(c))
  PROVE  Same(World, World', p)
<1>1. World \in WorldType /\ World.node = node /\ World.conn = conn
  BY WorldIs DEF AwpInv
<1>2. World'.node = node' /\ World'.conn = conn'
  BY DEF World
<1>3. /\ node \in [Party -> NodeType] /\ conn \in [Conns -> ConnType]
      /\ node[q] \in NodeType /\ (c \in Conns => conn[c] \in ConnType)
  BY <1>1 DEF WorldType
<1>4. ASSUME NEW n, node' = [node EXCEPT ![q] = n], n.connections = node[q].connections,
             n.attempt = node[q].attempt, n.outbox = node[q].outbox, n.twice = node[q].twice,
             \A d \in Conns : conn'[d].init = conn[d].init /\ conn'[d].end[p] = conn[d].end[p]
      PROVE  Same(World, World', p)
  BY <1>1, <1>2, <1>3, <1>4 DEF Same
<1>5. ASSUME c \in Conns, NEW e, conn' = [conn EXCEPT ![c] = e], e.init = conn[c].init, e.end = conn[c].end, UNCHANGED node
      PROVE  Same(World, World', p)
  BY <1>1, <1>2, <1>3, <1>5 DEF Same
<1>6. CASE Listen(q)
  <2>1. node' = [node EXCEPT ![q] = [node[q] EXCEPT !.listen = TRUE]] /\ UNCHANGED conn
    BY <1>6 DEF Listen
  <2> QED BY <1>3, <1>4, <2>1 DEF NodeType
<1>7. CASE Listening(q)
  <2>1. PICK ok \in BOOLEAN :
          /\ node' = [node EXCEPT ![q] = [node[q] EXCEPT !.listen = FALSE, !.listeners = ok]]
          /\ UNCHANGED conn
    BY <1>3, <1>7 DEF Listening
  <2> QED BY <1>3, <1>4, <2>1 DEF NodeType
<1>8. CASE Forward(q)
  <2>1. PICK n : n = [node[q] EXCEPT !.events = Tail(node[q].events),
                                     !.sunk = node[q].sunk \cup {Head(node[q].events).i}]
    OBVIOUS
  <2>2. node' = [node EXCEPT ![q] = n] /\ UNCHANGED conn
    BY <1>3, <1>8, <2>1 DEF Forward
  <2> QED BY <1>3, <1>4, <2>1, <2>2 DEF NodeType
<1>9. CASE StopListening(q)
  <2>1. node' = [node EXCEPT ![q] = [node[q] EXCEPT !.listeners = FALSE]]
    BY <1>9 DEF StopListening
  <2>2. \A d \in Conns : conn'[d] \in {conn[d], CloseEnd(World, d, q).conn[d]} /\ q \in public
    BY <1>9 DEF StopListening, AwpInv, Dialers
  <2>3. \A d \in Conns : conn'[d].init = conn[d].init /\ conn'[d].end[p] = conn[d].end[p]
    BY <1>1, <2>2, ElsesClose DEF Elses
  <2> QED BY <1>3, <1>4, <2>1, <2>3 DEF NodeType
<1>10. CASE c \in Conns /\ LoseFrame(q, c)
  <2>1. PICK k \in DOMAIN conn[c].wire[q] :
          conn' = [conn EXCEPT ![c] = [conn[c] EXCEPT !.wire[q] = RemoveAt(@, k)]] /\ UNCHANGED node
    BY <1>10 DEF LoseFrame
  <2> QED BY <1>3, <1>5, <1>10, <2>1 DEF ConnType
<1>11. CASE c \in Conns /\ Fault(c)
  <2>1. conn' = [conn EXCEPT ![c] = [conn[c] EXCEPT !.down = TRUE]] /\ UNCHANGED node
    BY <1>11 DEF Fault
  <2> QED BY <1>3, <1>5, <1>11, <2>1 DEF ConnType
<1>12. CASE UNCHANGED vars
  BY <1>1, <1>2, <1>12 DEF Same, vars
<1> QED BY <1>6, <1>7, <1>8, <1>9, <1>10, <1>11, <1>12

(* A frame that arrives.                                                   *)
LEMMA QuietReceive ==
  ASSUME AwpInv, NEW p \in Party, NEW q \in Party, NEW c \in Conns,
         NEW k \in DOMAIN conn[c].wire[q], NEW held \in Nat, OnReceive(q, c, k, held)
  PROVE  Same(World, World', p)
<1>1. World \in WorldType /\ World.node = node /\ World.conn = conn
  BY WorldIs DEF AwpInv
<1>2. PICK e : e = [conn[c] EXCEPT !.wire[q] = RemoveAt(@, k), !.held[q] = held]
  OBVIOUS
<1>3. PICK y : y = [World EXCEPT !.conn[c] = e]
  OBVIOUS
<1>4. PICK x : x = Receive(y, q, c, conn[c].wire[q][k])
  OBVIOUS
<1>5. Become(x)
  BY <1>2, <1>3, <1>4 DEF OnReceive
<1>6. conn[c] \in ConnType /\ conn \in [Conns -> ConnType]
  BY <1>1 DEF WorldType
<1>7. conn[c].wire \in [Party -> Seq(Frame)] /\ RemoveAt(conn[c].wire[q], k) \in Seq(Frame)
  BY <1>6, Removed DEF ConnType
<1>8. e \in ConnType /\ e.init = conn[c].init /\ e.end = conn[c].end
  <2>1. PICK v : v = [conn[c].wire EXCEPT ![q] = RemoveAt(@, k)]
    OBVIOUS
  <2>2. PICK h : h = [conn[c].held EXCEPT ![q] = held]
    OBVIOUS
  <2>3. v \in [Party -> Seq(Frame)] /\ h \in [Party -> Nat]
    BY <1>6, <1>7, <2>1, <2>2 DEF ConnType
  <2>4. e = [conn[c] EXCEPT !.wire = v, !.held = h]
    BY <1>2, <2>1, <2>2
  <2> QED BY <1>6, <2>3, <2>4 DEF ConnType
<1>9. y = SetConn(World, c, e)
  BY <1>3 DEF SetConn
<1>10. y \in WorldType /\ y.node = node /\ y.conn[c] = e /\ \A d \in Conns : d # c => y.conn[d] = conn[d]
  BY <1>1, <1>8, <1>9, ConnChanged
<1>11. Same(World, y, p)
  BY <1>1, <1>8, <1>10 DEF Same
<1>12. Same(y, x, p)
  BY <1>4, <1>10, SameReceive
<1>13. Same(World, x, p)
  BY <1>11, <1>12, SameTwice
<1>14. World'.node = x.node /\ World'.conn = x.conn
  BY <1>5 DEF World, Become
<1> QED BY <1>13, <1>14 DEF Same

(* What the transport tells another party.                                 *)
LEMMA OtherTransport ==
  ASSUME AwpInv, NEW q \in Party, NEW c, transport # "tls",
         \/ Connected(q) \/ ConnectFailed(q)
         \/ c \in Conns /\ (OnOpen(q, c) \/ OnClose(q, c) \/ FailSilently(q, c))
  PROVE  Elses(World, World', q)
<1>1. World \in WorldType /\ World.node = node /\ World.conn = conn
  BY WorldIs DEF AwpInv
<1>2. ASSUME NEW u \in WorldType, Elses(World, u, q), NEW d \in Conns, Become(Register(u, q, d))
      PROVE  Elses(World, World', q)
  <2>1. Elses(World, Register(u, q, d), q)
    BY <1>2, ElsesRegister, ElsesTwice
  <2> QED BY <1>2, <2>1, Becoming
<1>3. ASSUME NEW v \in WorldType, Elses(World, v, q), NEW d \in Conns, v.conn[d].init # None
      PROVE  LET u == [v EXCEPT !.conn[d].end[q] = "open"] IN u \in WorldType /\ Elses(World, u, q)
  <2>1. PICK u : u = [v EXCEPT !.conn[d].end[q] = "open"]
    OBVIOUS
  <2>2. "open" \in EndType
    BY DEF EndType
  <2>3. /\ Alters(v, u) /\ u.node = v.node
        /\ \A b \in Conns, r \in Party :
             u.conn[b].end[r] = IF b = d /\ r = q THEN "open" ELSE v.conn[b].end[r]
    BY <1>3, <2>1, <2>2, Opening
  <2>4. u \in WorldType /\ Elses(v, u, q)
    BY <2>3 DEF Alters, Settled, Elses
  <2> QED BY <1>3, <2>1, <2>4, ElsesTwice
<1>4. PICK n : n = [node[q] EXCEPT !.opening = FALSE, !.attempt = None]
  OBVIOUS
<1>5. n \in NodeType
  BY <1>1, <1>4, WorldParts DEF NodeType
<1>6. PICK v : v = SetNode(World, q, n)
  OBVIOUS
<1>7. v \in WorldType /\ Elses(World, v, q) /\ v.conn = conn
  BY <1>1, <1>5, <1>6, NodeChanged, ElsesNode
<1>8. CASE Connected(q)
  <2>1. PICK d \in Conns : d = node[q].attempt /\ ~Gone(d, q)
    BY <1>8 DEF Connected
  <2>2. conn[d].init # None
    BY <2>1, Peers DEF Gone, AwpInv, Dialers
  <2>3. PICK u : u = [v EXCEPT !.conn[d].end[q] = "open"]
    OBVIOUS
  <2>4. u \in WorldType /\ Elses(World, u, q)
    BY <1>3, <1>7, <2>2, <2>3
  <2>5. Become(Register(u, q, d))
    BY <1>1, <1>4, <1>6, <1>8, <2>1, <2>3 DEF Connected, SetNode
  <2> QED BY <1>2, <2>4, <2>5
<1>9. CASE ConnectFailed(q)
  <2>1. PICK u : u = IF node[q].attempt \in Conns THEN CloseEnd(v, node[q].attempt, q) ELSE v
    OBVIOUS
  <2>2. u \in WorldType /\ Elses(World, u, q)
    BY <1>7, <2>1, Closing, ElsesClose, ElsesTwice DEF Tame
  <2>3. Become(Lose(u, q, TRUE))
    BY <1>1, <1>4, <1>6, <1>9, <2>1 DEF ConnectFailed, SetNode
  <2>4. Elses(World, Lose(u, q, TRUE), q)
    BY <2>2, ElsesLose, ElsesTwice
  <2> QED BY <2>3, <2>4, Becoming
<1>10. ASSUME c \in Conns, Become(CloseEnd(World, c, q)) PROVE Elses(World, World', q)
  BY <1>1, <1>10, ElsesClose, Becoming
<1>11. CASE c \in Conns /\ OnOpen(q, c)
  <2>1. CASE Gone(c, q)
    BY <1>10, <1>11, <2>1 DEF OnOpen
  <2>2. CASE ~Gone(c, q)
    <3>1. conn[c].init # None
      BY <1>11, Peers, Marks DEF OnOpen
    <3>2. PICK u : u = [World EXCEPT !.conn[c].end[q] = "open"]
      OBVIOUS
    <3>3. Elses(World, World, q)
      BY DEF Elses
    <3>4. u \in WorldType /\ Elses(World, u, q)
      BY <1>1, <1>3, <1>11, <3>1, <3>2, <3>3
    <3>5. Become(Register(u, q, c))
      BY <1>11, <2>2, <3>2 DEF OnOpen
    <3> QED BY <1>2, <1>11, <3>4, <3>5
  <2> QED BY <2>1, <2>2
<1>12. CASE c \in Conns /\ OnClose(q, c)
  <2>1. PICK u : u = CloseEnd(World, c, q)
    OBVIOUS
  <2>2. u \in WorldType /\ Elses(World, u, q)
    BY <1>1, <1>12, <2>1, Closing, ElsesClose DEF Tame
  <2>3. PICK wakeup \in BOOLEAN : wakeup <=> conn[c].init = q
    OBVIOUS
  <2>4. Become(Unregister(u, q, wakeup))
    BY <1>12, <2>1, <2>3 DEF OnClose
  <2>5. Elses(World, Unregister(u, q, wakeup), q)
    BY <2>2, ElsesUnregister, ElsesTwice
  <2> QED BY <2>4, <2>5, Becoming
<1>13. CASE c \in Conns /\ FailSilently(q, c)
  BY <1>10, <1>13 DEF FailSilently
<1> QED BY <1>8, <1>9, <1>11, <1>12, <1>13

(* What it tells the dialer, who never accepts a connection.               *)
LEMMA DialerTransport ==
  ASSUME AwpInv, NEW p \in Party \ public, NEW c, transport # "tls", Tie(World, p),
         \/ Connected(p) \/ ConnectFailed(p)
         \/ c \in Conns /\ (Establish(p, c) \/ OnOpen(p, c) \/ OnClose(p, c) \/ FailSilently(p, c))
  PROVE  Goes(World, World', p)
<1>1. World \in WorldType /\ World.node = node /\ World.conn = conn
  BY WorldIs DEF AwpInv
<1>2. /\ node \in [Party -> NodeType] /\ conn \in [Conns -> ConnType]
      /\ node[p] \in NodeType
  BY <1>1 DEF WorldType
<1>3. World'.node = node' /\ World'.conn = conn'
  BY DEF World
<1>4. node[p].attempt # None => node[p].connections = None
  BY <1>1 DEF Tie
<1>5. ASSUME node[p].connections # None => conn[node[p].connections].end[p] # "closed"
      PROVE  ~Stuck(World, p)
  BY <1>1, <1>5 DEF Stuck
<1>6. ASSUME node'[p].connections = None, node'[p].attempt = None, ~node'[p].twice
      PROVE  Tie(World', p)
  BY <1>3, <1>6, Marks DEF Tie
<1>7. CASE c \in Conns /\ Establish(p, c)
  <2>1. /\ node[p].attempt = Connecting
        /\ node' = [node EXCEPT ![p] = [node[p] EXCEPT !.attempt = c]]
        /\ conn' = [conn EXCEPT ![c] = [NoConn EXCEPT !.init = p, !.end = [x \in Party |-> "ready"]]]
    BY <1>2, <1>7 DEF Establish
  <2>2. node[p].connections = None
    BY <1>4, <2>1, Marks
  <2>3. node'[p].attempt = c /\ node'[p].connections = None /\ node'[p].twice = node[p].twice
    BY <1>2, <2>1, <2>2 DEF NodeType
  <2>4. conn'[c].init = p
    BY <1>2, <1>7, <2>1 DEF NoConn
  <2>5. ~node[p].twice
    BY <1>1 DEF Tie
  <2>6. Tie(World', p)
    BY <1>3, <1>7, <2>3, <2>4, <2>5, Marks DEF Tie
  <2> QED BY <1>5, <2>2, <2>6 DEF Goes
<1>8. CASE Connected(p)
  <2>1. PICK d \in Conns : d = node[p].attempt
    BY <1>8 DEF Connected
  <2>2. PICK u : u = [World EXCEPT !.node[p] = [@ EXCEPT !.opening = FALSE, !.attempt = None],
                                   !.conn[d].end[p] = "open"]
    OBVIOUS
  <2>3. Become(Register(u, p, d))
    BY <1>8, <2>1, <2>2 DEF Connected
  <2>4. Goes(World, Register(u, p, d), p)
    BY <1>1, <2>1, <2>2, GoesConnected
  <2> QED BY <2>3, <2>4, Becoming
<1>9. CASE ConnectFailed(p)
  <2>1. PICK n : n = [node[p] EXCEPT !.opening = FALSE, !.attempt = None]
    OBVIOUS
  <2>2. n \in NodeType /\ n.connections = node[p].connections /\ n.attempt = None /\ n.twice = node[p].twice
    BY <1>2, <2>1 DEF NodeType
  <2>3. PICK v : v = SetNode(World, p, n)
    OBVIOUS
  <2>4. v \in WorldType /\ v.node[p] = n
    BY <1>1, <2>2, <2>3, NodeChanged
  <2>5. PICK u : u = IF node[p].attempt \in Conns THEN CloseEnd(v, node[p].attempt, p) ELSE v
    OBVIOUS
  <2>6. u \in WorldType /\ u.node = v.node
    BY <2>4, <2>5, Closing DEF Tame
  <2>7. Become(Lose(u, p, TRUE))
    BY <1>1, <1>9, <2>1, <2>3, <2>5 DEF ConnectFailed, SetNode
  <2>8. Same(u, Lose(u, p, TRUE), p)
    BY <2>6, SameLose
  <2>9. node'[p].connections = n.connections /\ node'[p].attempt = n.attempt /\ node'[p].twice = n.twice
    BY <2>4, <2>6, <2>7, <2>8 DEF Become, Same
  <2>10. node[p].attempt # None /\ ~node[p].twice
    BY <1>1, <1>9, Marks DEF ConnectFailed, Tie
  <2> QED BY <1>4, <1>5, <1>6, <2>2, <2>9, <2>10 DEF Goes
<1>10. CASE c \in Conns /\ OnOpen(p, c)
  <2>1. conn[c].init = Peer(p) /\ Peer(p) \in Party
    BY <1>10, Peers DEF OnOpen
  <2>2. Peer(Peer(p)) \in public
    BY <1>10, <2>1 DEF AwpInv, Dialers
  <2> QED BY <2>2, Peers
<1>11. ASSUME c \in Conns, conn[c].end[p] = "open"
       PROVE  node[p].connections = c /\ node[p].attempt = None /\ ~node[p].twice
  BY <1>1, <1>11, Marks DEF AwpInv, Live, Tie
<1>12. CASE c \in Conns /\ OnClose(p, c)
  <2>1. conn[c].end[p] = "open"
    BY <1>12 DEF OnClose
  <2>2. PICK u : u = CloseEnd(World, c, p)
    OBVIOUS
  <2>3. u \in WorldType /\ u.node = node
    BY <1>1, <1>12, <2>2, Closing DEF Tame
  <2>4. PICK wakeup \in BOOLEAN : wakeup <=> conn[c].init = p
    OBVIOUS
  <2>5. PICK n : n = [node[p] EXCEPT !.outbox = <<>>, !.connections = None]
    OBVIOUS
  <2>6. n \in NodeType /\ n.connections = None /\ n.attempt = node[p].attempt /\ n.twice = node[p].twice
    BY <1>2, <2>5, EmptySeq DEF NodeType
  <2>7. PICK v : v = SetNode(u, p, n)
    OBVIOUS
  <2>8. v \in WorldType /\ v.node[p] = n
    BY <2>3, <2>6, <2>7, NodeChanged
  <2>9. Become(Lose(v, p, wakeup))
    BY <1>12, <2>2, <2>3, <2>4, <2>5, <2>7 DEF OnClose, Unregister, SetNode
  <2>10. Same(v, Lose(v, p, wakeup), p)
    BY <2>8, SameLose
  <2>11. node'[p].connections = n.connections /\ node'[p].attempt = n.attempt /\ node'[p].twice = n.twice
    BY <2>8, <2>9, <2>10 DEF Become, Same
  <2> QED BY <1>5, <1>6, <1>11, <1>12, <2>1, <2>6, <2>11 DEF Goes
<1>13. CASE c \in Conns /\ FailSilently(p, c)
  <2>1. conn[c].end[p] = "open" /\ transport = "webrtc"
    BY <1>13 DEF FailSilently
  <2>2. PICK x : x = CloseEnd(World, c, p)
    OBVIOUS
  <2>3. Become(x)
    BY <1>13, <2>2 DEF FailSilently
  <2>4. x.node = node /\ x.conn[c].end[p] = "closed" /\ x.conn[c].init = conn[c].init
    BY <1>1, <1>13, <2>2, Closing DEF Tame, Ends
  <2>5. Tie(x, p)
    BY <1>1, <1>11, <1>13, <2>1, <2>4, Marks DEF Tie
  <2>6. ~Stuck(World, p)
    BY <1>5, <1>11, <1>13, <2>1
  <2> QED BY <2>3, <2>5, <2>6, Becoming DEF Goes
<1> QED BY <1>7, <1>8, <1>9, <1>10, <1>12, <1>13

(* Every step keeps a dialer tied.                                         *)
LEMMA DialerStep ==
  ASSUME AwpInv, [Next]_vars, transport # "tls", NEW p \in Party \ public, Tie(World, p)
  PROVE  Goes(World, World', p)
<1>1. World \in WorldType /\ World.node = node /\ World.conn = conn
  BY WorldIs DEF AwpInv
<1>2. ASSUME Same(World, World', p) PROVE Goes(World, World', p)
  BY <1>1, <1>2, SameGoes
<1>3. ASSUME NEW q \in Party, q # p, Elses(World, World', q) PROVE Goes(World, World', p)
  BY <1>2, <1>3, ElsesSame
<1>4. ASSUME NEW q \in Party, NEW i \in Intros, Intro(q, i) PROVE Goes(World, World', p)
  BY <1>3, <1>4, DialerIntro, OtherIntro
<1>5. ASSUME NEW q \in Party, Greet(q) PROVE Goes(World, World', p)
  BY <1>3, <1>5, DialerGreet, OtherGreet
<1>6. ASSUME NEW q \in Party, Listen(q) \/ Listening(q) \/ StopListening(q) \/ Forward(q)
      PROVE  Goes(World, World', p)
  BY <1>2, <1>6, QuietStep
<1>7. ASSUME NEW q \in Party, NEW c \in Conns, LoseFrame(q, c) \/ Fault(c) PROVE Goes(World, World', p)
  BY <1>2, <1>7, QuietStep
<1>8. ASSUME NEW q \in Party, NEW c \in Conns, Establish(q, c) PROVE Goes(World, World', p)
  <2>1. CASE q = p
    BY <1>8, <2>1, DialerTransport
  <2>2. CASE q # p
    BY <1>8, <2>2, Peers DEF Establish, AwpInv, Dialers
  <2> QED BY <2>1, <2>2
<1>9. ASSUME NEW q \in Party, Connected(q) \/ ConnectFailed(q) PROVE Goes(World, World', p)
  BY <1>3, <1>9, DialerTransport, OtherTransport
<1>10. ASSUME NEW q \in Party, NEW c \in Conns, OnOpen(q, c) \/ OnClose(q, c) \/ FailSilently(q, c)
       PROVE  Goes(World, World', p)
  BY <1>3, <1>10, DialerTransport, OtherTransport
<1>11. ASSUME NEW q \in Party, NEW c \in Conns, OnFrame(q, c) PROVE Goes(World, World', p)
  <2>1. PICK k \in DOMAIN conn[c].wire[q] : OnReceive(q, c, k, 0)
    BY <1>11 DEF OnFrame
  <2> QED BY <1>2, <2>1, QuietReceive
<1>12. ASSUME NEW q \in Party, NEW c \in Conns, OnData(q, c) \/ Sever(q, c) \/ CloseAgain(q, c) PROVE FALSE
  BY <1>12 DEF OnData, Sever, CloseAgain
<1>13. CASE UNCHANGED vars
  <2>1. Same(World, World', p)
    BY <1>13 DEF Same, World, vars
  <2> QED BY <1>2, <2>1
<1> QED BY <1>4, <1>5, <1>6, <1>7, <1>8, <1>9, <1>10, <1>11, <1>12, <1>13 DEF Next

(* and so it holds always.                                                 *)
THEOREM Invariance == Spec => []AwpInv
BY InitInv, NextInv, PTL DEF Spec

(* The state of devices and connections stays in its type, whatever the    *)
(* transport does to the frames and the connections.                       *)
THEOREM TypeCorrect == Spec => []TypeOK
<1>1. AwpInv => TypeOK
  BY DEF AwpInv
<1> QED BY Invariance, <1>1, PTL

(* A party has one live connection at most, and it is the registered one   *)
(* (register, awp_dev.js:443-453), as long as no TLS connection has told   *)
(* it twice that it is closed (node_tls_transport.js:229-232, 295-302).    *)
THEOREM Alone == Spec => []OneLiveConnection
<1>1. AwpInv => OneLiveConnection
  <2> SUFFICES ASSUME AwpInv PROVE OneLiveConnection
    OBVIOUS
  <2>1. World.node = node /\ World.conn = conn
    BY WorldIs DEF AwpInv
  <2> QED BY <2>1 DEF AwpInv, Live, OneLiveConnection
<1> QED BY Invariance, <1>1, PTL

(* No frame arrives twice over any number of connections, as a frame is in *)
(* one place at a time and leaves it when it is sent or received           *)
(* (awp_dev.js:356-363).                                                   *)
THEOREM NoDuplicates == Spec => []AtMostOnce
<1>1. AwpInv => AtMostOnce
  BY DEF AwpInv, Course, AtMostOnce
<1> QED BY Invariance, <1>1, PTL

(* The callback of an introduction is called once at most, although it may *)
(* be reported lost and answered (once_fwd, awp_dev.js:40-58).             *)
THEOREM CalledOnce == Spec => []CallbackOnce
<1>1. AwpInv => CallbackOnce
  BY DEF AwpInv, Callbacks, CallbackOnce
<1> QED BY Invariance, <1>1, PTL

(* What a dialer asked for it is told of, or waits for, or it could not be *)
(* sent.                                                                   *)
DialerInv ==
  /\ AwpInv /\ Tied
  /\ \A i \in Intros : by[i] \in Party \ public => Told(i) \/ Unsent(i)

(* Requests are made one by one, by who they are made by.                  *)
LEMMA Requests ==
  ASSUME [Next]_vars
  PROVE  /\ UNCHANGED <<transport, public>>
         /\ by' = by \/ \E q \in Party, i \in Intros : Intro(q, i)
<1> DEFINE Rest == UNCHANGED <<transport, public, by>>
<1>1. ASSUME NEW p \in Party, NEW i \in Intros, Intro(p, i) PROVE UNCHANGED <<transport, public>>
  BY <1>1 DEF Intro
<1>2. ASSUME NEW p \in Party, Listen(p) \/ Listening(p) \/ StopListening(p) PROVE Rest
  BY <1>2 DEF Listen, Listening, StopListening
<1>3. ASSUME NEW p \in Party, Greet(p) \/ Forward(p) PROVE Rest
  BY <1>3 DEF Greet, Forward
<1>4. ASSUME NEW p \in Party, Connected(p) \/ ConnectFailed(p) PROVE Rest
  BY <1>4 DEF Connected, ConnectFailed
<1>5. ASSUME NEW p \in Party, NEW c \in Conns, Establish(p, c) \/ OnOpen(p, c) PROVE Rest
  BY <1>5 DEF Establish, OnOpen
<1>6. ASSUME NEW p \in Party, NEW c \in Conns, OnFrame(p, c) \/ OnData(p, c) PROVE Rest
  BY <1>6 DEF OnFrame, OnData, OnReceive
<1>7. ASSUME NEW p \in Party, NEW c \in Conns, Sever(p, c) \/ CloseAgain(p, c) \/ LoseFrame(p, c) PROVE Rest
  BY <1>7 DEF Sever, CloseAgain, LoseFrame
<1>8. ASSUME NEW p \in Party, NEW c \in Conns, OnClose(p, c) \/ FailSilently(p, c) PROVE Rest
  BY <1>8 DEF OnClose, FailSilently
<1>p. ASSUME NEW c \in Conns, Fault(c) PROVE Rest
  BY <1>p DEF Fault
<1>9. UNCHANGED vars => Rest
  BY DEF vars
<1> HIDE DEF Rest
<1>10. Rest \/ \E p \in Party, i \in Intros : Intro(p, i)
  BY <1>2, <1>3, <1>4, <1>5, <1>6, <1>7, <1>8, <1>9, <1>p DEF Next
<1> QED BY <1>1, <1>10 DEF Rest

(* Of both parts of the outcome each is kept.                              *)
LEMMA DialerInvKept == DialerInv /\ [Next]_vars => DialerInv'
<1> SUFFICES ASSUME DialerInv, [Next]_vars PROVE DialerInv'
  OBVIOUS
<1>1. AwpInv' /\ Kept /\ AwpInv
  BY NextInv DEF DialerInv
<1>2. UNCHANGED <<transport, public>>
  BY Requests
<1>3. ASSUME NEW p \in Party \ public, transport # "tls" PROVE Goes(World, World', p)
  BY <1>1, <1>3, DialerStep DEF DialerInv, Tied
<1>4. Tied'
  BY <1>2, <1>3 DEF Tied, Goes, Tie
<1>5. World.node = node /\ World.conn = conn /\ World'.node = node' /\ World'.conn = conn'
  BY DEF World
<1>6. ASSUME NEW i \in Intros, by'[i] \in Party \ public', by'[i] = by[i] PROVE Told(i)' \/ Unsent(i)'
  <2>1. PICK p \in Party \ public : p = by[i] /\ p = by'[i]
    BY <1>2, <1>6
  <2>2. CASE Told(i)
    BY <1>1, <2>1, <2>2 DEF Kept
  <2>3. CASE Unsent(i)
    <3>1. Stuck(World, p) /\ IntroFrame(i) \in ToSet(World.node[p].outbox) /\ transport = "webrtc"
      BY <1>5, <2>1, <2>3 DEF Unsent, Stuck
    <3>2. Stuck(World', p) /\ IntroFrame(i) \in ToSet(World'.node[p].outbox)
      BY <1>3, <3>1 DEF Goes
    <3> QED BY <1>2, <1>5, <2>1, <3>2 DEF Unsent, Stuck
  <2> QED BY <2>1, <2>2, <2>3 DEF DialerInv
<1>7. ASSUME NEW q \in Party, NEW i \in Intros, Intro(q, i), NEW j \in Intros,
             by'[j] \in Party \ public'
      PROVE  Told(j)' \/ Unsent(j)'
  <2>1. by \in [Intros -> Party \cup {None}] /\ by' = [by EXCEPT ![i] = q]
    BY <1>1, <1>7 DEF AwpInv, TypeOK, Intro
  <2>2. CASE j # i
    BY <1>6, <1>7, <2>1, <2>2
  <2>3. CASE j = i
    <3>1. by'[i] = q /\ q \in Party \ public
      BY <1>2, <1>7, <2>1, <2>3
    <3>2. CASE ~SendThrows(q)
      BY <1>1, <1>7, <2>3, <3>2, OnIntro
    <3>3. CASE SendThrows(q)
      <4>1. transport # "tls"
        BY <3>3 DEF SendThrows
      <4>2. Tie(World, q)
        BY <3>1, <4>1 DEF DialerInv, Tied
      <4>3. Stuck(World', q) /\ IntroFrame(i) \in ToSet(World'.node[q].outbox)
        BY <1>1, <1>7, <3>3, <4>1, <4>2, DialerIntro
      <4> QED BY <1>2, <1>5, <2>3, <3>1, <4>3 DEF Unsent, Stuck
    <3> QED BY <3>2, <3>3
  <2> QED BY <2>2, <2>3
<1>8. by' = by \/ \E q \in Party, i \in Intros : Intro(q, i)
  BY Requests
<1>9. \A i \in Intros : by'[i] \in Party \ public' => Told(i)' \/ Unsent(i)'
  BY <1>6, <1>7, <1>8
<1> QED BY <1>1, <1>4, <1>9 DEF DialerInv

(* A party that never listens is told of the loss of every introduction    *)
(* that is not answered, once its core comes to the event (lose,           *)
(* awp_dev.js:271); what it is not told of was never sent, since sending   *)
(* threw on a WebRTC connection that failed without saying so, and it      *)
(* stays in the outbox.                                                    *)
THEOREM LossReported == Spec => []DialerInformed
<1>1. Init => DialerInv
  <2> SUFFICES ASSUME Init PROVE DialerInv
    OBVIOUS
  <2>1. AwpInv
    BY InitInv
  <2>2. \A p \in Party : node[p] = NewNode
    BY DEF Init
  <2>3. Tied
    BY <2>2, Marks DEF Tied, Tie, World, NewNode
  <2>4. \A i \in Intros : by[i] = None
    BY DEF Init
  <2> QED BY <2>1, <2>3, <2>4, Marks DEF DialerInv
<1>2. DialerInv => DialerInformed
  <2> SUFFICES ASSUME DialerInv, NEW i \in Intros, by[i] \in Party \ public PROVE Informed(i) \/ Unsent(i)
    BY DEF DialerInformed
  <2>1. Told(i) \/ Unsent(i)
    BY DEF DialerInv
  <2>2. Told(i) => Informed(i)
    BY DEF Told, Informed, Waits, Forwarded, ToSet
  <2> QED BY <2>1, <2>2
<1> QED BY <1>1, <1>2, DialerInvKept, PTL DEF Spec
=============================================================================
