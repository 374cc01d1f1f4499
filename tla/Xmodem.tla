--------------------------------- MODULE Xmodem ---------------------------------
(***************************************************************************)
(* The sender of lib/xmodem.js, which loads programs into the Fomu board   *)
(* (apps/playground/fomu.js), with the receiver at the other end of a      *)
(* serial line that loses, garbles, repeats, delays and makes up octets.   *)
(***************************************************************************)
EXTENDS Integers, Sequences

CONSTANTS
    Packets,        \* the length of the file, in packets of 128 octets
    MaxRetries,     \* 10 in the code
    SeqModulus,     \* 256 in the code: one octet of a packet is its number
    MaxFaults,      \* how often the line fails
    MaxAsks         \* how often the receiver asks without having been sent to

VARIABLES
    phase,      \* the callback of input: "flush", "nak", "ack", or "over"
    ofs,        \* the offset in the file, in packets
    seq, retry, \* as in the code
    outcome,    \* of the callback: "none" yet, "failed" (undefined), or "sent"
    forth,      \* what is on its way to the receiver
    back,       \* what is on its way to the sender: octets, with what they answer
    got,        \* the packets the receiver has accepted
    faults, asks,
    sends,      \* what was sent so far, packets sent again included: history
    astray      \* octets taken for the ACK to what was sent last which are none: history

vars == <<phase, ofs, seq, retry, outcome, forth, back, got, faults, asks, sends, astray>>

Reported == seq - 1      \* the value the callback gets with "sent"

(* An octet on its way back, and which of the things sent it answers; 0 if *)
(* none.                                                                   *)
Octet(o, to) == [octet |-> o, to |-> to]
Octets == {"noise", "NAK", "ACK", "CAN"}
Timeout == Octet("timeout", 0)

(* An octet may be waiting from before.                                    *)
Init ==
    /\ phase = "flush" /\ ofs = 0 /\ seq = 0 /\ retry = 0 /\ outcome = "none"
    /\ forth = <<>> /\ got = <<>> /\ faults = 0 /\ asks = 0 /\ sends = 0 /\ astray = 0
    /\ back \in {<<>>} \cup {<<Octet(o, 0)>> : o \in Octets}

-----------------------------------------------------------------------------
(* The sender.  An input is the next octet, or none in the time given,     *)
(* which may pass at any time, whatever is on its way.                     *)
Input(b) ==
    \/ b = Timeout /\ UNCHANGED back
    \/ back # <<>> /\ b = Head(back) /\ back' = Tail(back)
Inputs == {Timeout} \cup {back[i] : i \in DOMAIN back}

Packet(n, at) ==
    [eot |-> FALSE, no |-> n % SeqModulus, data |-> at, good |-> TRUE, nth |-> sends + 1]
EndOfTransmission ==
    [eot |-> TRUE, no |-> 0, data |-> Packets, good |-> TRUE, nth |-> sends + 1]

Fail == outcome' = "failed" /\ phase' = "over"

(* output and its callback: packet_sent_cb, end_transmission_cb.  If there *)
(* was a problem, the receiver gets what was sent or does not.             *)
Output(p) ==
    /\ sends' = sends + 1
    /\ \/ /\ forth' = Append(forth, p)
          /\ phase' = IF p.eot THEN "over" ELSE "ack"
          /\ outcome' = IF p.eot THEN "sent" ELSE outcome
       \/ forth' \in {forth, Append(forth, p)} /\ Fail

FlushInput ==
    /\ phase = "flush"
    /\ \E b \in Inputs :
          /\ Input(b)
          /\ IF b = Timeout THEN phase' = "nak" /\ retry' = MaxRetries
             ELSE UNCHANGED <<phase, retry>>
    /\ UNCHANGED <<ofs, seq, outcome, forth, got, faults, asks, sends, astray>>

(* Mutant of Advance: the number of the packet is left as it is.           *)
AdvanceSameNumber(to) ==
    /\ ofs' = to
    /\ IF to >= Packets
       THEN Output(EndOfTransmission) /\ UNCHANGED <<seq, retry>>
       ELSE Output(Packet(1, to)) /\ seq' = 1 /\ retry' = MaxRetries

(* wait_for_ack_cb(ACK): the next packet, or the end of the transmission.  *)
Advance(to) ==
    /\ ofs' = to
    /\ IF to >= Packets
       THEN Output(EndOfTransmission) /\ UNCHANGED <<seq, retry>>
       ELSE Output(Packet(seq + 1, to)) /\ seq' = seq + 1 /\ retry' = MaxRetries

WaitForNak ==
    /\ phase = "nak"
    /\ \E b \in Inputs :
          /\ Input(b)
          /\ \/ b.octet = "NAK" /\ Advance(0)
             \/ b = Timeout /\ retry = 0 /\ Fail /\ UNCHANGED <<ofs, seq, retry, forth, sends>>
             \/ /\ b.octet # "NAK" /\ (b = Timeout => retry > 0)
                /\ retry' = IF b = Timeout THEN retry - 1 ELSE retry
                /\ UNCHANGED <<phase, ofs, seq, outcome, forth, sends>>
    /\ UNCHANGED <<got, faults, asks, astray>>

(* Any ACK is taken for the answer to the current packet, and any other    *)
(* octet but CAN for a reason to send it again.                            *)
WaitForAck ==
    /\ phase = "ack"
    /\ \E b \in Inputs :
          /\ Input(b)
          /\ \/ b.octet = "ACK" /\ Advance(ofs + 1)
             \/ /\ b.octet = "CAN" \/ (b.octet # "ACK" /\ retry = 0)
                /\ Fail /\ UNCHANGED <<ofs, seq, retry, forth, sends>>
             \/ /\ b.octet \notin {"ACK", "CAN"} /\ retry > 0
                /\ retry' = retry - 1
                /\ Output(Packet(seq, ofs))
                /\ UNCHANGED <<ofs, seq>>
          /\ astray' = IF b.octet = "ACK" /\ b.to # sends THEN astray + 1 ELSE astray
    /\ UNCHANGED <<got, faults, asks>>

-----------------------------------------------------------------------------
(* The receiver asks while nothing comes, accepts the packet that is next, *)
(* acknowledges one it has, and gives up on others.                        *)
Ask ==
    /\ asks < MaxAsks /\ asks' = asks + 1
    /\ phase # "over"
    /\ back' = Append(back, Octet("NAK", 0))
    /\ UNCHANGED <<phase, ofs, seq, retry, outcome, forth, got, faults, sends, astray>>

Receive ==
    /\ forth # <<>>
    /\ LET p == Head(forth)
           next == (Len(got) + 1) % SeqModulus
           last == Len(got) % SeqModulus
           answer == IF p.eot THEN "ACK"
                     ELSE IF ~p.good THEN "NAK"
                     ELSE IF p.no \in {next, last} THEN "ACK" ELSE "CAN"
       IN  /\ back' = Append(back, Octet(answer, p.nth))
           /\ got' = IF ~p.eot /\ p.good /\ p.no = next THEN Append(got, p.data) ELSE got
    /\ forth' = Tail(forth)
    /\ UNCHANGED <<phase, ofs, seq, retry, outcome, faults, asks, sends, astray>>

(* The line loses a packet or an answer, changes either, repeats an        *)
(* answer, or makes one up; of answers only as long as the sender reads.   *)
Disturb ==
    /\ faults < MaxFaults /\ faults' = faults + 1
    /\ \/ forth # <<>> /\ UNCHANGED back
          /\ forth' \in {Tail(forth), <<[Head(forth) EXCEPT !.good = FALSE]>> \o Tail(forth)}
       \/ back # <<>> /\ phase # "over" /\ UNCHANGED forth
          /\ back' \in   {Tail(back), <<Head(back)>> \o back}
                    \cup {<<Octet(o, 0)>> \o Tail(back) : o \in Octets}
       \/ /\ phase # "over" /\ UNCHANGED forth
          /\ \E o \in Octets : back' = Append(back, Octet(o, 0))
    /\ UNCHANGED <<phase, ofs, seq, retry, outcome, got, asks, sends, astray>>

Next == FlushInput \/ WaitForNak \/ WaitForAck \/ Ask \/ Receive \/ Disturb
Spec == Init /\ [][Next]_vars

-----------------------------------------------------------------------------
(* The receiver has a beginning of the file, each packet once and in       *)
(* order, and all of it when the sender reports success, but for one       *)
(* packet at the end for each octet the sender took for an answer to its   *)
(* last packet that was none: a late, repeated, garbled or stray one.      *)
(* Packets are told apart by their number, so that this many octets taken  *)
(* amiss leave nothing to say.                                             *)
TransferComplete ==
    astray < SeqModulus - 1 =>
      /\ \A i \in DOMAIN got : got[i] = i - 1
      /\ Len(got) <= Packets
      /\ outcome = "sent" => Packets - astray <= Len(got)

(* Violated, xmodem.js:17: the value is "`undefined` if the transfer       *)
(* failed".                                                                *)
FailureReported ==
    outcome = "sent" /\ forth = <<>> => got = [i \in 1..Packets |-> i - 1]

(* Violated, xmodem.js:16: the requestor's value is "the `Number` of       *)
(* 128-byte packets sent".                                                 *)
CountReported == outcome = "sent" => Reported = Packets
=============================================================================
