------------------------------ MODULE HostCalls ------------------------------
(***************************************************************************)
(* How the core and the JavaScript that hosts it call each other           *)
(* (vm/js/core.js, host_dev.js): what the dynamic devices have in common.  *)
(*                                                                         *)
(* Actors send requests to proxies while WebAssembly has control.  The     *)
(* host device wraps each one in an event stub and hands it to the dynamic *)
(* device, which may not call the core back, and so defers a callback.     *)
(* The callbacks run when the call into WebAssembly returns; they, and the *)
(* completion of asynchronous operations later on, release the stub and    *)
(* send the answer, which wakes the core: a host that is eager runs the    *)
(* core at once, from within the callback.                                 *)
(*                                                                         *)
(* The module has the state of the core and operators on it; a device      *)
(* module adds the device, and has the actions.                            *)
(***************************************************************************)
EXTENDS Integers, Sequences, FiniteSets, SequencesExt

CONSTANT Reqs     \* requests, 1..n, in the order actors make them

VARIABLE core

(* eager     : on_txn runs the core when it is woken                       *)
(* wasm      : WebAssembly has control (wasm_call_in_progress)             *)
(* asked     : [Reqs -> the request made, or NoRequest]                    *)
(* queue     : events of the core for the device, by request               *)
(* deferred  : deferred_queue                                              *)
(* stack     : the arrays of callbacks being run, the innermost first      *)
(* stub      : [Reqs -> event stubs reserved less released]                *)
(* answers   : [Reqs -> messages sent to the callback of the request]      *)
(* ran       : [Reqs -> times the deferred callback ran]: history          *)
(* disposed  : h_dispose was called                                        *)
NoRequest == [kind |-> "none", on |-> 0]

NewCore(eager) ==
    [eager |-> eager, wasm |-> FALSE, disposed |-> FALSE,
     asked |-> [r \in Reqs |-> NoRequest],
     queue |-> <<>>, deferred |-> <<>>, stack |-> <<>>,
     stub |-> [r \in Reqs |-> 0], answers |-> [r \in Reqs |-> 0],
     ran |-> [r \in Reqs |-> 0]]

(* What is deferred: the callback of a request, or a listener's release.   *)
Callback(r) == [do |-> "request", id |-> r]
ReleaseOf(l) == [do |-> "release", id |-> l]

IsCore(k, kinds) ==
    /\ {k.eager, k.wasm, k.disposed} \subseteq BOOLEAN
    /\ k.asked \in [Reqs -> [kind : kinds \cup {"none"}, on : Nat]]
    /\ k.queue \in Seq(Reqs)
    /\ \A s \in {k.deferred} \cup ToSet(k.stack) :
         \A n \in DOMAIN s : s[n].do \in {"request", "release"} /\ s[n].id \in Nat \ {0}
    /\ k.stub \in [Reqs -> Int] /\ k.answers \in [Reqs -> Nat] /\ k.ran \in [Reqs -> Nat]

-----------------------------------------------------------------------------
(* Asynchronous JavaScript runs, and the host calls the core, when no call *)
(* into the core is under way.                                             *)
Outside(k) == ~k.wasm /\ k.stack = <<>>

Wakeup(k) == [k EXCEPT !.wasm = k.eager]
Release(k, r) == [k EXCEPT !.stub[r] = @ - 1]
Reply(k, r) == Wakeup([k EXCEPT !.answers[r] = @ + 1])

(* An actor sends the next request.                                        *)
CanAsk(k, r) ==
    /\ k.wasm
    /\ k.asked[r] = NoRequest
    /\ \A s \in Reqs : s < r => k.asked[s] # NoRequest
Asked(k, r, q) == [k EXCEPT !.asked[r] = q, !.queue = Append(@, r)]

(* The host device reserves the event stub and calls the dynamic device,   *)
(* which accepts, deferring something or nothing; or it returns an error,  *)
(* and the host device releases the stub.                                  *)
Next1(k) == Head(k.queue)
CanHandle(k) == k.wasm /\ k.queue # <<>>
Accepted(k, thunks) ==
    [k EXCEPT !.queue = Tail(@), !.stub[Head(k.queue)] = @ + 1,
              !.deferred = @ \o thunks]
Rejected(k) == [k EXCEPT !.queue = Tail(@)]

(* Capabilities kept alive by the core: the proxy a request was sent to    *)
(* is in its event, and later in its event stub.                           *)
InUse(k, kinds, n) ==
    \E r \in Reqs : /\ k.asked[r].kind \in kinds /\ k.asked[r].on = n
                    /\ Contains(k.queue, r) \/ k.stub[r] > 0

(* The host calls h_run_loop, and the call returns: the wrapper takes the  *)
(* queue of callbacks and runs them in order.                              *)
RunLoop(k) == [k EXCEPT !.wasm = TRUE]

\* Mutant of Returned: the queue is emptied only after its callbacks ran.
ReturnedLate(k) ==
    [k EXCEPT !.wasm = FALSE,
              !.stack = IF k.deferred = <<>> THEN @ ELSE <<k.deferred>> \o @]

\* Mutant of Returned: the callbacks of an outer call are forgotten.
ReturnedLosesOuter(k) ==
    [k EXCEPT !.wasm = FALSE, !.deferred = <<>>,
              !.stack = IF k.deferred = <<>> THEN @ ELSE <<k.deferred>>]

Returned(k) ==
    [k EXCEPT !.wasm = FALSE, !.deferred = <<>>,
              !.stack = IF k.deferred = <<>> THEN @ ELSE <<k.deferred>> \o @]

CanCall(k) == ~k.wasm /\ k.stack # <<>>
NextCallback(k) == Head(Head(k.stack))
CallbackTaken(k) ==
    LET rest == Tail(Head(k.stack))
        t == NextCallback(k)
        k1 == [k EXCEPT !.stack = IF rest = <<>> THEN Tail(@) ELSE <<rest>> \o Tail(@)]
    IN  IF t.do = "request" THEN [k1 EXCEPT !.ran[t.id] = @ + 1] ELSE k1
=============================================================================
