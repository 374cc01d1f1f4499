-------------------------------- MODULE Parseq --------------------------------
(***************************************************************************)
(* The factories of lib/parseq.js, which the loader, the devices, the      *)
(* transports and the tools are built with: parallel, race, fallback and   *)
(* sequence, over the common function run.                                 *)
(*                                                                         *)
(* A factory is given requestors, and makes a requestor that calls them.   *)
(* Here it has Size requestors at most; requestor i succeeds with the      *)
(* value i.  A requestor answers, or throws, or both, before it returns,   *)
(* or it answers later, or never; it may answer again, and after it was    *)
(* cancelled; it does not answer from within its cancel function.  One     *)
(* that answers before it returns may return a cancel function, any other  *)
(* does.  What is timed is left to happen at any time.                     *)
(***************************************************************************)
EXTENDS Naturals, Sequences, FiniteSets, SequencesExt

CONSTANTS
    Size,        \* the number of requestors, at most
    MaxCalls,    \* times the requestor that was made is called
    Throws       \* whether the caller's callback throws an exception

VARIABLES
    plan,         \* the arguments of the factory
    time_option,  \* the time_option of the factory: it is assigned to
    calls,
    r             \* the latest call

vars == <<plan, time_option, calls, r>>

Factories == {"parallel", "race", "fallback", "sequence"}
Fail == 0                       \* the value undefined
Unanswered == Size + 2                \* no answer
Input == Size + 1               \* the initial value
Answers == 1..Size \cup {Fail}
NoNumber == Size + 1            \* the number undefined: of no requestor

(* race and sequence take one array, fallback and sequence a throttle of 1;*)
(* time_option is ignored unless there are requestors of both kinds.       *)
Plans ==
    {p \in [factory : Factories, required : 0..Size, optional : 0..Size,
            limit : BOOLEAN, option : {"none", "true", "false"},
            throttle : 0..Size, silent : SUBSET (1..Size)] :
        /\ p.required + p.optional \in 0..Size
        /\ p.silent \subseteq 1..p.required + p.optional
        /\ p.factory # "parallel" => p.optional = 0 /\ p.option = "none"
        /\ p.factory \in {"race", "fallback"} => p.required > 0
        /\ p.factory \in {"fallback", "sequence"} => p.throttle = 1
        /\ p.factory = "race" => p.throttle # 1
        /\ p.required = 0 \/ p.optional = 0 => p.option = "none"}

N == plan.required + plan.optional
Requestors == 1..N

TimeOption(p) == IF p.factory = "parallel" /\ p.required = 0 /\ p.optional > 0
                 THEN "true" ELSE p.option

(* live     : cancel_array is defined                                      *)
(* next     : next_number, counted from one                                *)
(* tasks    : scheduled calls of start_requestor that may find work: the   *)
(*            values they are given                                        *)
(* timer    : timer_id is defined                                          *)
(* ran      : a requestor is "waiting", "running" (its callback may still  *)
(*            be used) or "done"                                           *)
(* early    : it answered, and then returned a cancel function, which      *)
(*            stays in cancel_array                                        *)
(* cancels  : times its cancel function was called                         *)
(* results, pending, required : number_of_pending[_required]               *)
(* out      : the calls of the callback; threw: the last one threw         *)
(* input, answer : what each requestor was given and answered; expired,    *)
(*            aborted: the time limit, and the caller's cancel; spoilt: a  *)
(*            requestor that had answered threw, in a call that went on:   *)
(*            history                                                      *)
Idle == [live |-> FALSE, next |-> 1, tasks |-> <<>>, timer |-> FALSE,
         ran |-> [i \in 1..Size |-> "waiting"], early |-> [i \in 1..Size |-> FALSE],
         cancels |-> [i \in 1..Size |-> 0],
         results |-> [i \in 1..Size |-> Fail], pending |-> 0, required |-> 0,
         out |-> <<>>, threw |-> FALSE,
         input |-> [i \in 1..Size |-> Fail], answer |-> [i \in 1..Size |-> Unanswered],
         expired |-> FALSE, aborted |-> FALSE, spoilt |-> FALSE]

Init ==
    /\ plan \in Plans
    /\ time_option = TimeOption(plan)
    /\ calls = 0
    /\ r = Idle

-----------------------------------------------------------------------------
(* cancel: the cancel functions that are kept are called, those of the     *)
(* requestors that still run among them, and nothing counts any more.      *)
Kept(s, i) == s.live /\ (s.ran[i] = "running" \/ s.early[i])

\* Mutant of Cancel: requestors that are running are left alone.
CancelNone(s) == [s EXCEPT !.timer = FALSE, !.live = FALSE, !.tasks = <<>>]

\* Mutant of Cancel: cancel_array is kept, and answers go on counting.
CancelKeeps(s) ==
    [s EXCEPT !.timer = FALSE, !.tasks = <<>>,
              !.cancels = [i \in 1..Size |->
                  IF Kept(s, i) THEN @[i] + 1 ELSE @[i]]]

Cancel(s) ==
    [s EXCEPT !.timer = FALSE, !.live = FALSE, !.tasks = <<>>,
              !.cancels = [i \in 1..Size |->
                  IF Kept(s, i) THEN @[i] + 1 ELSE @[i]]]

Return(s, outcome) ==
    [s EXCEPT !.out = Append(@, outcome), !.threw = Throws]

(* results.pop(): that of the last requestor that is done.                 *)
LastDone(s, i) == s.ran[i] = "done" /\ \A j \in Requestors : s.ran[j] = "done" => j <= i
Popped(s) == IF \E i \in Requestors : LastDone(s, i)
             THEN s.results[CHOOSE i \in Requestors : LastDone(s, i)] ELSE Fail

Failure == [ok |-> FALSE, value |-> <<>>]
Success(s) ==
    [ok |-> TRUE,
     value |-> IF plan.factory = "sequence" THEN <<Popped(s)>>
               ELSE [i \in Requestors |-> s.results[i]]]

(* parallel_action, which sequence uses too; the index of an answer is     *)
(* below number_of_required when the requestor is one of the required.     *)
\* Mutant of ParallelAction: a required requestor may fail, if not the last.
ParallelActionLenient(s, v, i) ==
    LET s1 == [s EXCEPT !.results[i] = v, !.pending = @ - 1,
                        !.required = IF i <= plan.required THEN @ - 1 ELSE @]
    IN  IF i <= plan.required /\ v = Fail /\ s1.pending < 1
        THEN Return(Cancel(s1), Failure)
        ELSE IF s1.pending < 1 \/ (time_option = "none" /\ s1.required < 1)
        THEN Return(Cancel(s1), Success(s1))
        ELSE s1

ParallelAction(s, v, i) ==
    LET s1 == [s EXCEPT !.results[i] = v, !.pending = @ - 1,
                        !.required = IF i <= plan.required THEN @ - 1 ELSE @]
    IN  IF i <= plan.required /\ v = Fail
        THEN Return(Cancel(s1), Failure)
        ELSE IF s1.pending < 1 \/ (time_option = "none" /\ s1.required < 1)
        THEN Return(Cancel(s1), Success(s1))
        ELSE s1

RaceAction(s, v, i) ==
    LET s1 == [s EXCEPT !.pending = @ - 1]
    IN  IF v # Fail THEN Return(Cancel(s1), [ok |-> TRUE, value |-> <<v>>])
        ELSE IF s1.pending < 1 THEN Return(Cancel(s1), Failure)
        ELSE s1

Action(s, v, i) ==
    IF plan.factory \in {"race", "fallback"} THEN RaceAction(s, v, i)
    ELSE ParallelAction(s, v, i)

NextInput(v) == IF plan.factory = "sequence" THEN v ELSE Input

(* start_requestor_callback: the callback of a requestor may be used once.  *)
(* If the action throws, it is not used up, and nothing more is scheduled. *)
\* Mutant of Callback: the next one is started after a success only.
CallbackStops(s, v, i) ==
    IF s.live /\ s.ran[i] = "running"
    THEN LET s1 == Action([s EXCEPT !.ran[i] = "done"], v, i)
         IN  IF s1.threw THEN [s1 EXCEPT !.ran[i] = "running"]
             ELSE IF s1.live /\ v # Fail
             THEN [s1 EXCEPT !.tasks = Append(@, NextInput(v))]
             ELSE s1
    ELSE s

Callback(s, v, i) ==
    IF s.live /\ s.ran[i] = "running"
    THEN LET s1 == Action([s EXCEPT !.ran[i] = "done"], v, i)
         IN  IF s1.threw THEN [s1 EXCEPT !.ran[i] = "running"]
             ELSE IF s1.live
             THEN [s1 EXCEPT !.tasks = Append(@, NextInput(v))]
             ELSE s1
    ELSE s

Answered(s, v, i) ==
    Callback([s EXCEPT !.answer[i] = IF s.live /\ @ = Unanswered THEN v ELSE @], v, i)

(* An exception that reaches start_requestor counts as a failure of the    *)
(* requestor, whether it is the requestor's or the callback's, and the     *)
(* next one is started at once.                                            *)
Caught(s, given, i) ==
    LET s1 == Action([s EXCEPT !.threw = FALSE, !.ran[i] = "done"], Fail, i)
    IN  IF s1.live THEN [s1 EXCEPT !.tasks = <<given>> \o @] ELSE s1

(* The same of a requestor that has answered: it has no number any more,   *)
(* so that the failure is one of no requestor, and counts once more.  If   *)
(* its answer ended the call, nothing happens: callback is undefined.      *)
CaughtLate(s, given) ==
    IF s.live
    THEN LET s1 == Action([s EXCEPT !.spoilt = TRUE], Fail, NoNumber)
         IN  IF s1.live THEN [s1 EXCEPT !.tasks = <<given>> \o @] ELSE s1
    ELSE s

(* The cancel function it returns after it has answered is kept, but for   *)
(* the array of a call that has ended.                                     *)
Stored(s, i) == IF s.live THEN [s EXCEPT !.early[i] = TRUE] ELSE s

-----------------------------------------------------------------------------
Busy == calls > 0 /\ ~r.aborted /\ r.out = <<>>

Limit(k) == IF plan.throttle = 0 \/ plan.throttle > k THEN k ELSE plan.throttle

(* The requestor is called; run schedules as many starts as it may.        *)
Call ==
    /\ calls < MaxCalls
    /\ ~Busy
    /\ calls' = calls + 1
    /\ r' = IF N = 0
            THEN Return(Idle, [ok |-> TRUE, value |-> IF plan.factory = "sequence"
                                                      THEN <<Input>> ELSE <<>>])
            ELSE [Idle EXCEPT !.live = TRUE, !.timer = plan.limit,
                              !.tasks = [k \in 1..Limit(N) |-> Input],
                              !.pending = N, !.required = plan.required]
    /\ UNCHANGED <<plan, time_option>>

(* start_requestor, off the queue of the event loop.                       *)
Start ==
    /\ r.tasks # <<>>
    /\ LET i == r.next
           s == [r EXCEPT !.tasks = Tail(@), !.next = @ + 1, !.ran[i] = "running",
                          !.input[i] = Head(r.tasks)]
       IN  IF i > N
           THEN r' = [r EXCEPT !.tasks = Tail(@)]
           ELSE \/ r' = s
                \/ /\ i \notin plan.silent
                   /\ r' = Caught([s EXCEPT !.answer[i] = Fail], Head(r.tasks), i)
                \/ /\ i \notin plan.silent
                   /\ \E v \in {i, Fail} :
                        LET s1 == Answered(s, v, i)
                        IN  IF s1.threw THEN r' = Caught(s1, Head(r.tasks), i)
                            ELSE r' \in {s1, Stored(s1, i), CaughtLate(s1, Head(r.tasks))}
    /\ UNCHANGED <<plan, time_option, calls>>

(* A requestor answers later, for the first time or again.                 *)
Answer(i) ==
    /\ r.ran[i] # "waiting"
    /\ i \notin plan.silent
    /\ \E v \in {i, Fail} : r' = Answered([r EXCEPT !.threw = FALSE], v, i)
    /\ UNCHANGED <<plan, time_option, calls>>

(* parallel_timeout and race_timeout.  The time option of false is         *)
(* forgotten, for this call and for those to come.                         *)
Timeout ==
    /\ r.timer
    /\ LET s == [r EXCEPT !.timer = FALSE, !.expired = TRUE]
       IN  r' = IF time_option = "false"
                THEN IF s.required < 1 THEN Return(Cancel(s), Success(s)) ELSE s
                ELSE Return(Cancel(s),
                            IF plan.factory \in {"parallel", "sequence"} /\ s.required < 1
                            THEN Success(s) ELSE Failure)
    /\ time_option' = IF time_option = "false" THEN "none" ELSE time_option
    /\ UNCHANGED <<plan, calls>>

(* The caller uses the cancel function it was returned.                    *)
Abort ==
    /\ Busy
    /\ r' = [Cancel(r) EXCEPT !.aborted = TRUE]
    /\ UNCHANGED <<plan, time_option, calls>>

Next ==
    \/ Call
    \/ Start
    \/ \E i \in Requestors : Answer(i)
    \/ Timeout
    \/ Abort

Spec == Init /\ [][Next]_vars

(* The event loop runs what is scheduled, time passes, and requestors      *)
(* answer, but for those that are silent.                                  *)
FairSpec ==
    /\ Spec
    /\ WF_vars(Start)
    /\ WF_vars(Timeout)
    /\ \A i \in 1..Size : WF_vars(i \in Requestors /\ Answer(i))

-----------------------------------------------------------------------------
TypeOK ==
    /\ plan \in Plans
    /\ time_option \in {"none", "true", "false"}
    /\ calls \in 0..MaxCalls
    /\ r.next \in 1..Size + 1
    /\ r.tasks \in Seq(1..Size + 1 \cup {Fail})
    /\ r.ran \in [1..Size -> {"waiting", "running", "done"}]
    /\ r.early \in [1..Size -> BOOLEAN]
    /\ r.cancels \in [1..Size -> Nat] /\ r.results \in [1..Size -> Answers]
    /\ r.pending \in 0..Size /\ r.required \in 0..Size
    /\ r.input \in [1..Size -> Nat] /\ r.answer \in [1..Size -> Answers \cup {Unanswered}]

(* What the callback is told, by what the requestors answered.  parallel:  *)
(* each of the required succeeded; sequence: each got the value of the one *)
(* before it, and the last value is the result; race and fallback: the     *)
(* first to succeed.  A failure is that of a required requestor, or of all *)
(* in a race, or of the time limit.  Nothing is said of a call one of      *)
(* whose requestors threw after it had answered.                           *)
Succeeded(i) == r.answer[i] = i
Failed(i) == r.answer[i] = Fail
Outcome(o) ==
    CASE o.ok /\ plan.factory = "parallel" ->
             /\ \A i \in 1..plan.required : Succeeded(i)
             /\ \A i \in Requestors : o.value[i] = IF Succeeded(i) THEN i ELSE Fail
      [] o.ok /\ plan.factory = "sequence" ->
             /\ \A i \in Requestors : Succeeded(i) /\ r.input[i] = IF i = 1 THEN Input ELSE i - 1
             /\ o.value = IF N = 0 THEN <<Input>> ELSE <<N>>
      [] o.ok /\ plan.factory \in {"race", "fallback"} ->
             /\ o.value \in {<<i>> : i \in Requestors}
             /\ {i \in Requestors : Succeeded(i)} = ToSet(o.value)
             /\ plan.factory = "fallback" => \A i \in 1..o.value[1] - 1 : Failed(i)
      [] ~o.ok /\ plan.factory \in {"race", "fallback"} ->
             r.expired \/ \A i \in Requestors : Failed(i)
      [] OTHER -> r.expired \/ \E i \in 1..plan.required : Failed(i)

Outcomes == ~r.spoilt => \A k \in DOMAIN r.out : Outcome(r.out[k])

(* Unfinished business is stopped: once the callback was called, or the    *)
(* caller cancelled, each requestor that still runs was cancelled, once,   *)
(* as was each that answered before it returned its cancel function; no    *)
(* other ever is, and none in a call that goes on.  While it goes on no    *)
(* more run than the throttle allows, unless one threw after its answer.   *)
Running == {i \in Requestors : r.ran[i] = "running"}
NothingLeft ==
    /\ \A i \in 1..Size :
         r.cancels[i] = IF ~r.live /\ (i \in Running \/ r.early[i]) THEN 1 ELSE 0
    /\ r.live /\ ~r.spoilt => Cardinality(Running) <= Limit(N)
    /\ ~r.live => r.tasks = <<>> /\ ~r.timer

(* What is called is settled, when there is a time limit that ends it, or  *)
(* no requestor is silent.                                                 *)
Settles ==
    (Busy /\ (plan.silent = {} \/ (plan.limit /\ plan.option # "false"))) ~> ~Busy

(* Requestor, the promise, with the state of the latest call.              *)
status ==
    IF calls = 0 THEN "idle"
    ELSE IF r.out # <<>> THEN (IF r.out[Len(r.out)].ok THEN "ok" ELSE "failed")
    ELSE IF r.aborted THEN "cancelled" ELSE "running"

Promise == INSTANCE Requestor
Promised == Promise!Spec

(* Violated, parseq.js:155: the cancel function of a requestor that has    *)
(* answered is no longer needed.                                           *)
RunningCancelled == \A i \in 1..Size : r.cancels[i] > 0 => i \in Running

(* Violated, parseq.js:318-320: parallel makes sure that the required      *)
(* requestors were successful.                                             *)
RequiredSucceeded ==
    \A k \in DOMAIN r.out :
        r.out[k].ok /\ plan.factory = "parallel" => \A i \in 1..plan.required : Succeeded(i)

(* A second callback is not an answer: parseq.js:158-160.                  *)
CalledOnce == Len(r.out) <= 1

(* The time option of a factory is that of each call of its requestor:     *)
(* parseq.js:387-390 puts no time limit on the requireds, each time.       *)
OptionKept == time_option = TimeOption(plan)
=============================================================================
