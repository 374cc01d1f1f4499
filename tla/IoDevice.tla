------------------------------- MODULE IoDevice -------------------------------
(***************************************************************************)
(* Input of the I/O device (vm/js/io_dev.js, vm/rs/src/io_dev.rs): a read  *)
(* takes the first character that is buffered, or leaves a stub for the    *)
(* character to come.  A second read meanwhile replaces the stub of the    *)
(* first, with a warning.                                                  *)
(***************************************************************************)
EXTENDS Naturals, Sequences, FiniteSets, SequencesExt

CONSTANTS
    Reads,       \* read requests, 1..n
    Typed        \* lengths of the strings that are typed, a sequence

VARIABLE dev

(* buffer  : stdin_buffer; characters are numbered as they were typed      *)
(* stub    : the read that stdin_stub is for, or 0                         *)
(* got     : [Reads -> the character of its answer, or 0]                  *)
(* order   : the characters in the order of the answers: history           *)
(* overrun : reads whose stub was replaced: history                        *)
Init ==
    dev = [buffer |-> <<>>, stub |-> 0, asked |-> 0, typed |-> 0, chars |-> 0,
           got |-> [r \in Reads |-> 0], order |-> <<>>, overrun |-> {}]

(* poll_stdin                                                              *)
Poll(d) ==
    IF d.stub # 0 /\ d.buffer # <<>>
    THEN [d EXCEPT !.buffer = Tail(@), !.got[d.stub] = Head(d.buffer),
                   !.order = Append(@, Head(d.buffer)), !.stub = 0]
    ELSE d

(* A read request is dispatched: host_read answers at once from the buffer *)
(* or remembers the stub.                                                  *)
\* Mutant of Read: the character stays in the buffer.
ReadKeepsChar(r) ==
    /\ r = dev.asked + 1
    /\ dev' = IF dev.buffer # <<>>
              THEN [dev EXCEPT !.asked = r, !.got[r] = Head(dev.buffer),
                               !.order = Append(@, Head(dev.buffer))]
              ELSE [dev EXCEPT !.asked = r, !.stub = r,
                               !.overrun = IF dev.stub # 0 THEN @ \cup {dev.stub} ELSE @]

Read(r) ==
    /\ r = dev.asked + 1
    /\ dev' = IF dev.buffer # <<>>
              THEN [dev EXCEPT !.asked = r, !.got[r] = Head(dev.buffer),
                               !.order = Append(@, Head(dev.buffer)),
                               !.buffer = Tail(@)]
              ELSE [dev EXCEPT !.asked = r, !.stub = r,
                               !.overrun = IF dev.stub # 0 THEN @ \cup {dev.stub} ELSE @]

(* h_on_stdin                                                              *)
Type ==
    /\ dev.typed < Len(Typed)
    /\ LET n == Typed[dev.typed + 1]
       IN  dev' = Poll([dev EXCEPT !.typed = @ + 1, !.chars = @ + n,
                          !.buffer = @ \o [k \in 1..n |-> dev.chars + k]])

Next ==
    \/ \E r \in Reads : Read(r)
    \/ Type

-----------------------------------------------------------------------------
TypeOK ==
    /\ dev.buffer \in Seq(Nat) /\ dev.order \in Seq(Nat)
    /\ dev.stub \in Reads \cup {0} /\ dev.asked \in Nat
    /\ dev.got \in [Reads -> Nat] /\ dev.overrun \subseteq Reads

(* No character is lost, doubled or overtaken on its way to the reads.     *)
InOrder == dev.order \o dev.buffer = [k \in 1..dev.chars |-> k]

(* No read waits while there is a character for it, and the only reads     *)
(* never to be answered are those another read has overrun.                *)
NoIdleRead ==
    /\ dev.stub # 0 => dev.buffer = <<>>
    /\ \A r \in 1..dev.asked :
         dev.got[r] = 0 => r \in dev.overrun \cup {dev.stub}
=============================================================================
