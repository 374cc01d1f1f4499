---------------------------- MODULE ProtocolProofs ----------------------------
(***************************************************************************)
(* Proofs about what surrounds a core (MCProtocols): how much of a file    *)
(* was transferred (Xmodem), and what the factories of requestors do       *)
(* (Parseq): nothing they started is left running, the callback is told    *)
(* what the requestors answered, and they implement Requestor.             *)
(***************************************************************************)
EXTENDS MCProtocols, SequenceFacts, FiniteSetTheorems

-----------------------------------------------------------------------------
(***************************************************************************)
(* The transfer.  What is on its way to the receiver was sent in order, so *)
(* that the packets the sender has gone on to are the next ones or behind  *)
(* them; the receiver lags behind the sender by one packet, and one more   *)
(* for each octet taken amiss; and an ACK to what was sent last says that  *)
(* it does not lag.                                                        *)
(***************************************************************************)
PacketType == [eot : BOOLEAN, no : Nat, data : Nat, good : BOOLEAN, nth : Nat]
AnswerType == [octet : Transfer!Octets, to : Nat]

(* So few octets were taken amiss that the numbers of packets tell those   *)
(* that may be on their way apart.                                         *)
Few == astray < SeqModulus - 1

TransferTyped ==
  /\ ofs \in Nat /\ seq \in 0 .. Packets /\ sends \in Nat /\ astray \in Nat
  /\ forth \in Seq(PacketType) /\ back \in Seq(AnswerType) /\ got \in Seq(Nat)
(* What each phase has sent.                                               *)
Staged ==
  /\ phase \in {"flush", "nak"} =>
       seq = 0 /\ got = <<>> /\ forth = <<>> /\ outcome = "none"
  /\ phase = "ack" => seq = ofs + 1 /\ outcome = "none" /\ sends > 0
  /\ phase \in {"flush", "nak", "ack", "over"}
PacketsFine ==
  /\ \A i \in DOMAIN forth :
       /\ forth[i].nth <= sends /\ (forth[i].eot => phase = "over")
       /\ ~ forth[i].eot =>
            /\ forth[i].no = (forth[i].data + 1) % SeqModulus /\ forth[i].data + 1 <= seq
            /\ forth[i].nth = sends => forth[i].data + 1 = seq
            /\ Few => Len(got) <= forth[i].data + 1
  /\ \A i, j \in DOMAIN forth :
       i < j /\ ~ forth[i].eot /\ ~ forth[j].eot => forth[i].data <= forth[j].data
AnswersFine ==
  \A i \in DOMAIN back :
    /\ back[i].to <= sends
    /\ Few /\ phase = "ack" /\ back[i].octet = "ACK" /\ back[i].to = sends => Len(got) = seq
Level ==
  Few => /\ \A i \in 1 .. Len(got) : got[i] = i - 1
         /\ Len(got) <= seq /\ seq <= Len(got) + 1 + astray
         /\ outcome = "sent" => Packets <= Len(got) + astray

TransferInv == TransferTyped /\ Staged /\ PacketsFine /\ AnswersFine /\ Level

(* What becomes of a sequence.                                             *)
LEMMA FirstTaken ==
  ASSUME NEW T, NEW s \in Seq(T), s # <<>>
  PROVE  /\ Tail(s) \in Seq(T) /\ 1 \in DOMAIN s /\ Head(s) = s[1] /\ s[1] \in T
         /\ \A i \in DOMAIN Tail(s) : i \in Nat /\ i + 1 \in DOMAIN s /\ Tail(s)[i] = s[i + 1]
<1>1. /\ Tail(s) \in Seq(T) /\ Len(Tail(s)) = Len(s) - 1 /\ Head(s) \in T
      /\ \A i \in 1 .. Len(Tail(s)) : Tail(s)[i] = s[i + 1]
  BY HeadTailProperties
<1>2. Len(s) \in Nat /\ DOMAIN s = 1 .. Len(s) /\ DOMAIN Tail(s) = 1 .. Len(Tail(s)) /\ Len(s) # 0
  BY <1>1, LenProperties, EmptySeq
<1>3. Head(s) = s[1]
  OBVIOUS
<1> QED BY <1>1, <1>2, <1>3

LEMMA OneAdded ==
  ASSUME NEW T, NEW s \in Seq(T), NEW x \in T
  PROVE  /\ Append(s, x) \in Seq(T)
         /\ \A i \in DOMAIN Append(s, x) :
              \/ i \in DOMAIN s /\ Append(s, x)[i] = s[i]
              \/ i \notin DOMAIN s /\ Append(s, x)[i] = x /\ \A j \in DOMAIN s : j < i
         /\ \A i \in DOMAIN Append(s, x) : i \in Nat
<1>1. /\ Append(s, x) \in Seq(T) /\ Len(Append(s, x)) = Len(s) + 1
      /\ \A i \in 1 .. Len(s) : Append(s, x)[i] = s[i]
      /\ Append(s, x)[Len(s) + 1] = x
  BY AppendProperties
<1>2. Len(s) \in Nat /\ DOMAIN s = 1 .. Len(s) /\ DOMAIN Append(s, x) = 1 .. Len(s) + 1
  BY <1>1, LenProperties
<1> QED BY <1>1, <1>2

LEMMA OnePrefixed ==
  ASSUME NEW T, NEW s \in Seq(T), NEW x \in T
  PROVE  /\ <<x>> \o s \in Seq(T)
         /\ \A i \in DOMAIN (<<x>> \o s) :
              /\ i \in Nat
              /\ \/ i = 1 /\ (<<x>> \o s)[i] = x
                 \/ i > 1 /\ i - 1 \in DOMAIN s /\ (<<x>> \o s)[i] = s[i - 1]
<1>1. <<x>> \in Seq(T) /\ Len(<<x>>) = 1 /\ <<x>>[1] = x
  OBVIOUS
<1>2. PICK t : t = <<x>> \o s
  OBVIOUS
<1>3. /\ t \in Seq(T) /\ Len(t) = 1 + Len(s)
      /\ \A i \in 1 .. 1 + Len(s) : t[i] = IF i <= 1 THEN <<x>>[i] ELSE s[i - 1]
  BY <1>1, <1>2, ConcatProperties
<1>4. Len(s) \in Nat /\ DOMAIN s = 1 .. Len(s) /\ DOMAIN t = 1 .. Len(t)
  BY <1>3, LenProperties
<1>5. \A i \in DOMAIN t : /\ i \in Nat
                          /\ \/ i = 1 /\ t[i] = x
                             \/ i > 1 /\ i - 1 \in DOMAIN s /\ t[i] = s[i - 1]
  BY <1>1, <1>3, <1>4
<1> QED BY <1>2, <1>3, <1>5

(* Two numbers less than m apart are told apart by their rests.            *)
LEMMA Numbers ==
  ASSUME NEW m \in Nat \ {0, 1}, NEW n \in Nat, NEW k \in Nat, n <= k, k < n + m, n % m = k % m
  PROVE  n = k
<1>1. n = m * (n \div m) + (n % m) /\ n \div m \in Int /\ n % m \in Int
  BY Z3
<1>2. k = m * (k \div m) + (k % m) /\ k \div m \in Int /\ k % m \in Int
  BY Z3
<1>3. PICK q \in Int, p \in Int, x \in Int : n = m * p + x /\ k = m * q + x
  BY <1>1, <1>2
<1>4. PICK d \in Int : k - n = m * d /\ d = q - p
  BY <1>3
<1>5. d < 1
  BY <1>4
<1>6. d > -1
  BY <1>4
<1> QED BY <1>4, <1>5, <1>6

(* It holds to begin with.                                                 *)
LEMMA TransferInit == Transfer!Init => TransferInv
<1> SUFFICES ASSUME Transfer!Init PROVE TransferInv
  OBVIOUS
<1>1. /\ got = <<>> /\ forth = <<>> /\ Len(got) = 0 /\ seq = 0 /\ astray = 0 /\ sends = 0 /\ ofs = 0
      /\ phase = "flush" /\ outcome = "none"
  BY EmptySeq DEF Transfer!Init
<1>2. back \in Seq(AnswerType) /\ \A i \in DOMAIN back : back[i].to = 0
  <2>1. CASE back = <<>>
    BY <2>1
  <2>2. CASE \E o \in Transfer!Octets : back = <<Transfer!Octet(o, 0)>>
    <3>1. PICK o, b : o \in Transfer!Octets /\ b = Transfer!Octet(o, 0) /\ back = <<b>>
      BY <2>2
    <3>2. b \in AnswerType /\ b.to = 0
      BY <3>1 DEF AnswerType, Transfer!Octet
    <3> QED BY <3>1, <3>2
  <2> QED BY <2>1, <2>2 DEF Transfer!Init
<1>3. TransferTyped
  BY <1>1, <1>2, TransferAssumption, EmptySeq DEF TransferTyped
<1>4. PacketsFine /\ AnswersFine
  BY <1>1, <1>2 DEF PacketsFine, AnswersFine
<1> QED BY <1>1, <1>3, <1>4 DEF TransferInv, Staged, Level

(* The sender is called with what has arrived, or with nothing.            *)
LEMMA InputTaken ==
  ASSUME TransferTyped, NEW b \in Transfer!Inputs, Transfer!Input(b)
  PROVE  /\ back' \in Seq(AnswerType)
         /\ \A i \in DOMAIN back' : \E j \in DOMAIN back : back'[i] = back[j]
         /\ b.octet \in {"ACK", "NAK"} => \E j \in DOMAIN back : b = back[j]
<1>0. back \in Seq(AnswerType)
  BY DEF TransferTyped
<1>1. CASE b = Transfer!Timeout /\ UNCHANGED back
  <2>1. b.octet = "timeout"
    BY <1>1 DEF Transfer!Timeout, Transfer!Octet
  <2> QED BY <1>0, <1>1, <2>1
<1>2. CASE back # <<>> /\ b = Head(back) /\ back' = Tail(back)
  BY <1>0, <1>2, FirstTaken
<1> QED BY <1>1, <1>2 DEF Transfer!Input

(* A step that only takes octets from the line or makes them up.           *)
LEMMA AnswersKept ==
  ASSUME TransferInv, UNCHANGED <<seq, got, forth, sends, astray, ofs>>,
         \/ outcome' = outcome /\ (phase' = phase \/ (phase = "flush" /\ phase' = "nak"))
         \/ outcome' = "failed" /\ phase' = "over",
         back' \in Seq(AnswerType),
         \A i \in DOMAIN back' : back'[i].to = 0 \/ \E j \in DOMAIN back : back'[i] = back[j]
  PROVE  TransferInv'
<1>1. TransferTyped /\ Staged /\ PacketsFine /\ AnswersFine /\ Level
  BY DEF TransferInv
<1>2. TransferTyped' /\ Staged'
  BY <1>1 DEF TransferTyped, Staged
<1>3. PacketsFine'
  BY <1>1 DEF PacketsFine, Few, Staged
<1>4. AnswersFine'
  <2> SUFFICES ASSUME NEW i \in DOMAIN back'
               PROVE  /\ back'[i].to <= sends
                      /\ Few /\ phase' = "ack" /\ back'[i].octet = "ACK" /\ back'[i].to = sends => Len(got) = seq
    BY DEF AnswersFine, Few
  <2>1. CASE back'[i].to = 0
    BY <1>1, <2>1 DEF Staged, TransferTyped
  <2>2. ASSUME NEW j \in DOMAIN back, back'[i] = back[j]
        PROVE  /\ back'[i].to <= sends
               /\ Few /\ phase' = "ack" /\ back'[i].octet = "ACK" /\ back'[i].to = sends => Len(got) = seq
    BY <1>1, <2>2 DEF AnswersFine
  <2> QED BY <2>1, <2>2
<1>5. Level'
  BY <1>1 DEF Level, Few
<1> QED BY <1>2, <1>3, <1>4, <1>5 DEF TransferInv

(* The sender sends p, the packet seq' or the end, and has success or not. *)
LEMMA OutputKept ==
  ASSUME TransferInv, NEW p \in PacketType, Transfer!Output(p), p.nth = sends + 1,
         phase \in {"nak", "ack"}, got' = got,
         back' \in Seq(AnswerType), \A i \in DOMAIN back' : \E j \in DOMAIN back : back'[i] = back[j],
         ofs' \in Nat, seq' \in 0 .. Packets, seq <= seq', astray' \in Nat, astray <= astray',
         ~ p.eot => seq' = ofs' + 1 /\ p.no = (p.data + 1) % SeqModulus /\ p.data + 1 = seq',
         Few' => Len(got) <= seq' /\ seq' <= Len(got) + 1 + astray',
         Few' /\ p.eot => Packets <= Len(got) + astray'
  PROVE  TransferInv'
<1>1. TransferTyped /\ Staged /\ PacketsFine /\ AnswersFine /\ Level
  BY DEF TransferInv
<1>2. /\ sends \in Nat /\ sends' = sends + 1 /\ forth \in Seq(PacketType) /\ outcome = "none"
      /\ astray \in Nat /\ SeqModulus \in Nat /\ Len(got) \in Nat /\ seq \in Nat /\ seq' \in Nat
      /\ got \in Seq(Nat)
  BY <1>1, TransferAssumption, LenProperties DEF Transfer!Output, TransferTyped, Staged
<1>3. /\ forth' = forth \/ forth' = Append(forth, p)
      /\ \/ phase' = (IF p.eot THEN "over" ELSE "ack") /\ outcome' = IF p.eot THEN "sent" ELSE outcome
         \/ phase' = "over" /\ outcome' = "failed"
  BY DEF Transfer!Output, Transfer!Fail
<1>4. /\ forth' \in Seq(PacketType)
      /\ \A i \in DOMAIN forth' :
           \/ i \in DOMAIN forth /\ forth'[i] = forth[i]
           \/ i \notin DOMAIN forth /\ forth'[i] = p /\ \A j \in DOMAIN forth : j < i
      /\ \A i \in DOMAIN forth' : i \in Nat
  <2>1. CASE forth' = forth
    <3>1. \A i \in DOMAIN forth : i \in Nat
      BY <1>2, LenProperties
    <3> QED BY <1>2, <2>1, <3>1
  <2>2. CASE forth' = Append(forth, p)
    BY <1>2, <2>2, OneAdded
  <2> QED BY <1>3, <2>1, <2>2
<1>5. Few' => Few
  BY <1>2 DEF Few
<1>6. TransferTyped'
  BY <1>1, <1>2, <1>4 DEF TransferTyped
<1>7. Staged'
  <2>1. phase' \in {"ack", "over"} /\ sends' > 0
    BY <1>2, <1>3
  <2>2. phase' = "ack" => ~ p.eot /\ outcome' = "none"
    BY <1>2, <1>3
  <2> QED BY <2>1, <2>2 DEF Staged
<1>8. \A i \in DOMAIN forth : forth[i] \in PacketType
  BY <1>2, LenProperties
<1>9. ASSUME NEW i \in DOMAIN forth'
      PROVE  /\ forth'[i].nth <= sends' /\ (forth'[i].eot => phase' = "over")
             /\ ~ forth'[i].eot =>
                  /\ forth'[i].no = (forth'[i].data + 1) % SeqModulus /\ forth'[i].data + 1 <= seq'
                  /\ forth'[i].nth = sends' => forth'[i].data + 1 = seq'
                  /\ Few' => Len(got') <= forth'[i].data + 1
  <2>1. CASE i \in DOMAIN forth /\ forth'[i] = forth[i]
    <3>1. PICK x : x = forth[i]
      OBVIOUS
    <3>2. x \in PacketType /\ x.nth <= sends /\ ~ x.eot
      BY <1>1, <1>8, <2>1, <3>1 DEF PacketsFine
    <3>3. x.nth \in Nat /\ x.data \in Nat
      BY <3>2 DEF PacketType
    <3>4. x.no = (x.data + 1) % SeqModulus /\ x.data + 1 <= seq /\ (Few => Len(got) <= x.data + 1)
      BY <1>1, <2>1, <3>1, <3>2 DEF PacketsFine
    <3> QED BY <1>2, <1>5, <2>1, <3>1, <3>2, <3>3, <3>4
  <2>2. CASE forth'[i] = p
    <3>1. p.eot => phase' = "over"
      BY <1>3
    <3>2. p.nth <= sends'
      BY <1>2
    <3>3. ASSUME ~ p.eot
          PROVE  /\ p.no = (p.data + 1) % SeqModulus /\ p.data + 1 = seq' /\ p.data + 1 <= seq'
                 /\ Few' => Len(got') <= p.data + 1
      <4>1. p.no = (p.data + 1) % SeqModulus /\ p.data + 1 = seq'
        BY <3>3
      <4>2. Few' => Len(got') <= seq'
        BY <1>2
      <4> QED BY <1>2, <4>1, <4>2
    <3> QED BY <2>2, <3>1, <3>2, <3>3
  <2> QED BY <1>4, <2>1, <2>2
<1>10. ASSUME NEW i \in DOMAIN forth', NEW j \in DOMAIN forth', i < j, ~ forth'[i].eot, ~ forth'[j].eot
       PROVE  forth'[i].data <= forth'[j].data
  <2>1. CASE i \in DOMAIN forth /\ forth'[i] = forth[i] /\ j \in DOMAIN forth /\ forth'[j] = forth[j]
    BY <1>1, <1>10, <2>1 DEF PacketsFine
  <2>2. CASE forth'[j] = p
    <3>1. forth'[i] \in PacketType /\ forth'[i].data + 1 <= seq'
      BY <1>4, <1>9, <1>10, LenProperties
    <3> QED BY <1>2, <1>10, <2>2, <3>1 DEF PacketType
  <2>3. i \in DOMAIN forth \/ j \notin DOMAIN forth
    BY <1>4, <1>10
  <2> QED BY <1>4, <2>1, <2>2, <2>3
<1>11. PacketsFine'
  <2>1. Len(got)' = Len(got') /\ Few' = Few'
    OBVIOUS
  <2> QED BY <1>9, <1>10 DEF PacketsFine
<1>12. ASSUME NEW i \in DOMAIN back' PROVE back'[i].to # sends' /\ back'[i].to <= sends'
  <2>1. PICK j \in DOMAIN back : back'[i] = back[j]
    OBVIOUS
  <2>2. back[j] \in AnswerType /\ back[j].to <= sends
    BY <1>1, LenProperties DEF TransferTyped, AnswersFine
  <2> QED BY <1>2, <2>1, <2>2 DEF AnswerType
<1>13. AnswersFine'
  BY <1>12 DEF AnswersFine
<1>14. Level'
  BY <1>1, <1>2, <1>3, <1>5 DEF Level
<1> QED BY <1>6, <1>7, <1>11, <1>13, <1>14 DEF TransferInv

(* What the sender sends.                                                  *)
LEMMA PacketTyped ==
  ASSUME sends \in Nat
  PROVE  /\ Transfer!EndOfTransmission \in PacketType /\ Transfer!EndOfTransmission.nth = sends + 1
         /\ \A n, at \in Nat : /\ Transfer!Packet(n, at) \in PacketType
                              /\ Transfer!Packet(n, at).nth = sends + 1
<1>1. \A n \in Nat : n % SeqModulus \in Nat
  BY TransferAssumption, Z3
<1>2. sends + 1 \in Nat /\ Packets \in Nat
  BY TransferAssumption
<1>3. Transfer!EndOfTransmission \in PacketType /\ Transfer!EndOfTransmission.nth = sends + 1
  BY <1>2 DEF Transfer!EndOfTransmission, PacketType
<1>4. ASSUME NEW n \in Nat, NEW at \in Nat
      PROVE  Transfer!Packet(n, at) \in PacketType /\ Transfer!Packet(n, at).nth = sends + 1
  <2>1. n % SeqModulus \in Nat
    BY <1>1
  <2> QED BY <1>2, <2>1 DEF Transfer!Packet, PacketType
<1> QED BY <1>3, <1>4

(* The sender goes on with the packet that is next, or with the end.       *)
LEMMA Advances ==
  ASSUME TransferInv, NEW to, to = seq, Transfer!Advance(to), phase \in {"nak", "ack"}, got' = got,
         back' \in Seq(AnswerType), \A i \in DOMAIN back' : \E j \in DOMAIN back : back'[i] = back[j],
         astray' \in Nat, astray <= astray',
         Few' => Len(got) <= seq /\ seq <= Len(got) + astray'
  PROVE  TransferInv'
<1>1. /\ seq \in 0 .. Packets /\ Packets \in Nat /\ sends \in Nat /\ ofs' = to /\ got \in Seq(Nat)
      /\ astray \in Nat
  BY TransferAssumption DEF TransferInv, TransferTyped, Transfer!Advance
<1>2. Len(got) \in Nat
  BY <1>1, LenProperties
<1>3. CASE to >= Packets
  <2>1. PICK p : p = Transfer!EndOfTransmission
    OBVIOUS
  <2>2. Transfer!Output(p) /\ seq' = seq /\ p.eot
    BY <1>3, <2>1 DEF Transfer!Advance, Transfer!EndOfTransmission
  <2>3. p \in PacketType /\ p.nth = sends + 1
    BY <1>1, <2>1, PacketTyped
  <2>4. Few' => Len(got) <= seq' /\ seq' <= Len(got) + 1 + astray' /\ Packets <= Len(got) + astray'
    BY <1>1, <1>2, <1>3, <2>2
  <2> QED BY <1>1, <2>2, <2>3, <2>4, OutputKept
<1>4. CASE ~ (to >= Packets)
  <2>1. PICK p : p = Transfer!Packet(seq + 1, to)
    OBVIOUS
  <2>2. Transfer!Output(p) /\ seq' = seq + 1
    BY <1>4, <2>1 DEF Transfer!Advance
  <2>3. p \in PacketType /\ p.nth = sends + 1
    <3>1. seq + 1 \in Nat /\ to \in Nat
      BY <1>1
    <3> QED BY <1>1, <2>1, <3>1, PacketTyped
  <2>4. ~ p.eot /\ p.no = (seq + 1) % SeqModulus /\ p.data = to
    BY <2>1 DEF Transfer!Packet
  <2>5. /\ seq' \in 0 .. Packets /\ seq <= seq' /\ seq' = ofs' + 1 /\ p.data + 1 = seq'
        /\ p.no = (p.data + 1) % SeqModulus /\ ofs' \in Nat
    BY <1>1, <1>4, <2>2, <2>4
  <2>6. Few' => Len(got) <= seq' /\ seq' <= Len(got) + 1 + astray'
    BY <1>1, <1>2, <2>2
  <2> QED BY <2>2, <2>3, <2>4, <2>5, <2>6, OutputKept
<1> QED BY <1>3, <1>4

(* The sender drops what it finds, until nothing comes.                    *)
LEMMA FlushKept ==
  ASSUME TransferInv, Transfer!FlushInput
  PROVE  TransferInv'
<1>1. PICK b \in Transfer!Inputs :
        /\ Transfer!Input(b)
        /\ IF b = Transfer!Timeout THEN phase' = "nak" /\ retry' = MaxRetries ELSE UNCHANGED <<phase, retry>>
  BY DEF Transfer!FlushInput
<1>2. /\ phase = "flush" /\ UNCHANGED <<ofs, seq, outcome, forth, got, sends, astray>>
      /\ phase' = phase \/ phase' = "nak"
  BY <1>1 DEF Transfer!FlushInput
<1>3. back' \in Seq(AnswerType) /\ \A i \in DOMAIN back' : \E j \in DOMAIN back : back'[i] = back[j]
  BY <1>1, InputTaken DEF TransferInv
<1> QED BY <1>2, <1>3, AnswersKept

(* The sender waits to be asked.                                           *)
LEMMA NakKept ==
  ASSUME TransferInv, Transfer!WaitForNak
  PROVE  TransferInv'
<1>1. PICK b \in Transfer!Inputs :
        /\ Transfer!Input(b)
        /\ \/ b.octet = "NAK" /\ Transfer!Advance(0)
           \/ Transfer!Fail /\ UNCHANGED <<ofs, seq, retry, forth, sends>>
           \/ UNCHANGED <<phase, ofs, seq, outcome, forth, sends>>
  BY DEF Transfer!WaitForNak
<1>2. phase = "nak" /\ UNCHANGED <<got, astray>>
  BY DEF Transfer!WaitForNak
<1>3. back' \in Seq(AnswerType) /\ \A i \in DOMAIN back' : \E j \in DOMAIN back : back'[i] = back[j]
  BY <1>1, InputTaken DEF TransferInv
<1>4. CASE Transfer!Advance(0)
  <2>1. seq = 0 /\ Len(got) = 0 /\ astray \in Nat
    BY <1>2, EmptySeq DEF TransferInv, Staged, TransferTyped
  <2> QED BY <1>2, <1>3, <1>4, <2>1, Advances
<1>5. CASE Transfer!Fail /\ UNCHANGED <<ofs, seq, retry, forth, sends>>
  BY <1>2, <1>3, <1>5, AnswersKept DEF Transfer!Fail
<1>6. CASE UNCHANGED <<phase, ofs, seq, outcome, forth, sends>>
  BY <1>2, <1>3, <1>6, AnswersKept
<1> QED BY <1>1, <1>4, <1>5, <1>6

(* The sender waits for the answer to a packet, and counts each octet it   *)
(* takes for it amiss.                                                     *)
LEMMA AckKept ==
  ASSUME TransferInv, Transfer!WaitForAck
  PROVE  TransferInv'
<1>1. PICK b \in Transfer!Inputs :
        /\ Transfer!Input(b)
        /\ \/ b.octet = "ACK" /\ Transfer!Advance(ofs + 1)
           \/ b.octet # "ACK" /\ Transfer!Fail /\ UNCHANGED <<ofs, seq, retry, forth, sends>>
           \/ b.octet # "ACK" /\ Transfer!Output(Transfer!Packet(seq, ofs)) /\ UNCHANGED <<ofs, seq>>
        /\ astray' = IF b.octet = "ACK" /\ b.to # sends THEN astray + 1 ELSE astray
  BY DEF Transfer!WaitForAck
<1>2. /\ phase = "ack" /\ got' = got /\ seq = ofs + 1 /\ outcome = "none"
      /\ ofs \in Nat /\ seq \in 0 .. Packets /\ astray \in Nat /\ sends \in Nat /\ got \in Seq(Nat)
      /\ Packets \in Nat /\ SeqModulus \in Nat
  BY TransferAssumption DEF Transfer!WaitForAck, TransferInv, TransferTyped, Staged
<1>3. Len(got) \in Nat /\ (Few => Len(got) <= seq /\ seq <= Len(got) + 1 + astray)
  BY <1>2, LenProperties DEF TransferInv, Level
<1>4. /\ back' \in Seq(AnswerType) /\ \A i \in DOMAIN back' : \E j \in DOMAIN back : back'[i] = back[j]
      /\ b.octet = "ACK" => \E j \in DOMAIN back : b = back[j]
  BY <1>1, InputTaken DEF TransferInv
<1>5. CASE b.octet = "ACK" /\ Transfer!Advance(ofs + 1)
  <2>1. b.to = sends /\ Few => Len(got) = seq
    BY <1>2, <1>4, <1>5 DEF TransferInv, AnswersFine
  <2>2. astray' \in Nat /\ astray <= astray' /\ (Few' => Few)
    BY <1>1, <1>2 DEF Few
  <2>3. Few' => Len(got) <= seq /\ seq <= Len(got) + astray'
    BY <1>1, <1>2, <1>3, <1>5, <2>1, <2>2
  <2> QED BY <1>2, <1>4, <1>5, <2>2, <2>3, Advances
<1>6. CASE b.octet # "ACK" /\ Transfer!Fail /\ UNCHANGED <<ofs, seq, retry, forth, sends>>
  BY <1>1, <1>2, <1>4, <1>6, AnswersKept DEF Transfer!Fail
<1>7. CASE b.octet # "ACK" /\ Transfer!Output(Transfer!Packet(seq, ofs)) /\ UNCHANGED <<ofs, seq>>
  <2>1. PICK p : p = Transfer!Packet(seq, ofs)
    OBVIOUS
  <2>2. p \in PacketType /\ p.nth = sends + 1
    BY <1>2, <2>1, PacketTyped
  <2>3. ~ p.eot /\ p.no = seq % SeqModulus /\ p.data = ofs
    BY <2>1 DEF Transfer!Packet
  <2>4. astray' = astray /\ (Few' <=> Few)
    BY <1>1, <1>7 DEF Few
  <2>5. /\ seq' \in 0 .. Packets /\ seq <= seq' /\ seq' = ofs' + 1 /\ p.data + 1 = seq'
        /\ p.no = (p.data + 1) % SeqModulus /\ ofs' \in Nat
    BY <1>2, <1>7, <2>3
  <2>6. Few' => Len(got) <= seq' /\ seq' <= Len(got) + 1 + astray'
    BY <1>3, <1>7, <2>4
  <2> QED BY <1>2, <1>4, <1>7, <2>1, <2>2, <2>3, <2>4, <2>5, <2>6, OutputKept
<1> QED BY <1>1, <1>5, <1>6, <1>7

(* The receiver asks.                                                      *)
LEMMA AskKept ==
  ASSUME TransferInv, Transfer!Ask
  PROVE  TransferInv'
<1>1. PICK b : b = Transfer!Octet("NAK", 0)
  OBVIOUS
<1>2. b \in AnswerType /\ b.to = 0
  BY <1>1 DEF AnswerType, Transfer!Octets, Transfer!Octet
<1>3. back' = Append(back, b) /\ UNCHANGED <<phase, ofs, seq, outcome, forth, got, sends, astray>>
  BY <1>1 DEF Transfer!Ask
<1>4. back \in Seq(AnswerType)
  BY DEF TransferInv, TransferTyped
<1>5. /\ back' \in Seq(AnswerType)
      /\ \A i \in DOMAIN back' : back'[i].to = 0 \/ \E j \in DOMAIN back : back'[i] = back[j]
  BY <1>2, <1>3, <1>4, OneAdded
<1> QED BY <1>3, <1>5, AnswersKept

(* The receiver takes the first packet for what it is.                     *)
LEMMA ToldApart ==
  ASSUME TransferInv, Few, 1 \in DOMAIN forth, ~ forth[1].eot
  PROVE  /\ forth[1].no = (Len(got) + 1) % SeqModulus => forth[1].data = Len(got)
         /\ forth[1].no = Len(got) % SeqModulus => forth[1].data + 1 = Len(got)
<1>1. PICK p, n : p = forth[1] /\ n = Len(got)
  OBVIOUS
<1>2. forth \in Seq(PacketType) /\ got \in Seq(Nat) /\ seq \in Nat /\ astray \in Nat
  BY TransferAssumption DEF TransferInv, TransferTyped
<1>3. p \in PacketType /\ n \in Nat
  BY <1>1, <1>2, LenProperties
<1>4. p.data \in Nat /\ SeqModulus \in Nat \ {0, 1}
  BY <1>3, TransferAssumption DEF PacketType
<1>5. /\ p.no = (p.data + 1) % SeqModulus /\ p.data + 1 <= seq /\ n <= p.data + 1
      /\ seq <= n + 1 + astray
  BY <1>1 DEF TransferInv, PacketsFine, Level
<1>6. p.data + 1 < n + SeqModulus
  BY <1>2, <1>3, <1>4, <1>5 DEF Few
<1>7. ASSUME p.no = n % SeqModulus PROVE p.data + 1 = n
  <2>1. PICK k \in Nat : k = p.data + 1
    BY <1>4
  <2>2. n <= k /\ k < n + SeqModulus /\ n % SeqModulus = k % SeqModulus
    BY <1>5, <1>6, <1>7, <2>1
  <2> QED BY <1>3, <1>4, <2>1, <2>2, Numbers
<1>8. ASSUME p.no = (n + 1) % SeqModulus PROVE p.data = n
  <2>1. PICK k \in Nat, l \in Nat : k = p.data + 1 /\ l = n + 1
    BY <1>3, <1>4
  <2>2. l % SeqModulus = k % SeqModulus /\ SeqModulus > 1
    BY <1>4, <1>5, <1>8, <2>1
  <2>3. CASE l <= k
    <3>1. k < l + SeqModulus
      BY <1>3, <1>4, <1>6, <2>1
    <3>2. l = k
      BY <1>4, <2>2, <2>3, <3>1, Numbers
    <3> QED BY <1>3, <1>4, <2>1, <3>2
  <2>4. CASE k < l
    <3>1. k <= l /\ l < k + SeqModulus
      BY <1>3, <1>4, <1>5, <2>1, <2>2, <2>4
    <3>2. k = l
      BY <1>4, <2>2, <3>1, Numbers
    <3> QED BY <2>1, <2>4, <3>2
  <2> QED BY <2>1, <2>3, <2>4
<1> QED BY <1>1, <1>7, <1>8

(* What is left of the packets after one was taken, and has become a part  *)
(* of the file or not.                                                     *)
LEMMA ReceiveKept ==
  ASSUME TransferInv, Transfer!Receive
  PROVE  TransferInv'
<1>1. TransferTyped /\ Staged /\ PacketsFine /\ AnswersFine /\ Level
  BY DEF TransferInv
<1>2. PICK p, n : p = forth[1] /\ n = Len(got)
  OBVIOUS
<1>3. /\ forth \in Seq(PacketType) /\ forth # <<>> /\ got \in Seq(Nat) /\ back \in Seq(AnswerType)
      /\ seq \in Nat /\ sends \in Nat /\ astray \in Nat
  BY <1>1, TransferAssumption DEF TransferTyped, Transfer!Receive
<1>4. /\ Tail(forth) \in Seq(PacketType) /\ 1 \in DOMAIN forth /\ Head(forth) = p /\ p \in PacketType
      /\ \A i \in DOMAIN Tail(forth) : i \in Nat /\ i + 1 \in DOMAIN forth /\ Tail(forth)[i] = forth[i + 1]
  BY <1>2, <1>3, FirstTaken
<1>5. n \in Nat /\ p.data \in Nat /\ p.nth \in Nat /\ p.eot \in BOOLEAN /\ DOMAIN got = 1 .. n
  BY <1>2, <1>3, <1>4, LenProperties DEF PacketType
<1>6. /\ forth' = Tail(forth) /\ UNCHANGED <<phase, ofs, seq, outcome, sends, astray>>
      /\ phase \in {"ack", "over"}
  BY <1>1 DEF Transfer!Receive, Staged
<1>7. Few' <=> Few
  BY <1>6 DEF Few
<1>8. PICK a : /\ a = Transfer!Octet(IF p.eot THEN "ACK"
                                     ELSE IF ~p.good THEN "NAK"
                                     ELSE IF p.no \in {(n + 1) % SeqModulus, n % SeqModulus} THEN "ACK"
                                     ELSE "CAN", p.nth)
               /\ back' = Append(back, a)
  BY <1>2, <1>4 DEF Transfer!Receive
<1>9. PICK taken \in BOOLEAN : /\ taken = (~p.eot /\ p.good /\ p.no = (n + 1) % SeqModulus)
                               /\ got' = IF taken THEN Append(got, p.data) ELSE got
  BY <1>2, <1>4 DEF Transfer!Receive
<1>10. PICK l \in Nat : /\ l = Len(got') /\ l = IF taken THEN n + 1 ELSE n
                        /\ got' \in Seq(Nat) /\ DOMAIN got' = 1 .. l
                        /\ \A i \in 1 .. n : got'[i] = got[i]
                        /\ taken => got'[n + 1] = p.data
  <2>1. CASE taken
    <3>1. PICK g : g = Append(got, p.data)
      OBVIOUS
    <3>2. /\ g \in Seq(Nat) /\ Len(g) = n + 1 /\ g[n + 1] = p.data
          /\ \A i \in 1 .. n : g[i] = got[i]
      BY <1>2, <1>3, <1>5, <3>1, AppendProperties
    <3>3. DOMAIN g = 1 .. n + 1 /\ n + 1 \in Nat
      BY <1>5, <3>2, LenProperties
    <3> QED BY <1>9, <2>1, <3>1, <3>2, <3>3
  <2>2. CASE ~ taken
    BY <1>2, <1>3, <1>5, <1>9, <2>2
  <2> QED BY <2>1, <2>2
<1>11. Few /\ taken => p.data = n
  BY <1>2, <1>4, <1>9, ToldApart
<1>12. p.nth <= sends /\ (p.eot => phase = "over") /\ (~ p.eot => p.data + 1 <= seq)
  BY <1>1, <1>2, <1>4 DEF PacketsFine
<1>13. ~ p.eot /\ p.nth = sends => p.data + 1 = seq
  BY <1>1, <1>2, <1>4 DEF PacketsFine
<1>14. Few => l <= seq
  <2>1. Few => n <= seq
    BY <1>1, <1>2 DEF Level
  <2> QED BY <1>3, <1>5, <1>9, <1>10, <1>11, <1>12, <2>1
<1>15. a \in AnswerType /\ a.to = p.nth
  BY <1>5, <1>8 DEF AnswerType, Transfer!Octets, Transfer!Octet
<1>16. Few /\ phase = "ack" /\ a.octet = "ACK" /\ a.to = sends => l = seq
  <2> SUFFICES ASSUME Few, phase = "ack", a.octet = "ACK", a.to = sends PROVE l = seq
    OBVIOUS
  <2>1. ~ p.eot /\ p.data + 1 = seq
    BY <1>12, <1>13, <1>15
  <2>2. p.good /\ p.no \in {(n + 1) % SeqModulus, n % SeqModulus}
    BY <1>8, <2>1 DEF Transfer!Octet
  <2>3. CASE taken
    BY <1>5, <1>10, <1>11, <2>1, <2>3
  <2>4. CASE ~ taken
    <3>1. p.no = n % SeqModulus
      BY <1>9, <2>1, <2>2, <2>4
    <3>2. p.data + 1 = n
      BY <1>2, <1>4, <2>1, <3>1, ToldApart
    <3> QED BY <1>10, <2>1, <2>4, <3>2
  <2> QED BY <2>3, <2>4
<1>17. TransferTyped'
  <2>1. back' \in Seq(AnswerType)
    BY <1>3, <1>8, <1>15, OneAdded
  <2> QED BY <1>1, <1>4, <1>6, <1>10, <2>1 DEF TransferTyped
<1>18. Staged'
  BY <1>1, <1>6 DEF Staged
<1>19. PacketsFine'
  <2>1. ASSUME NEW i \in DOMAIN Tail(forth)
        PROVE  /\ Tail(forth)[i].nth <= sends /\ (Tail(forth)[i].eot => phase = "over")
               /\ ~ Tail(forth)[i].eot =>
                    /\ Tail(forth)[i].no = (Tail(forth)[i].data + 1) % SeqModulus
                    /\ Tail(forth)[i].data + 1 <= seq
                    /\ Tail(forth)[i].nth = sends => Tail(forth)[i].data + 1 = seq
                    /\ Few => l <= Tail(forth)[i].data + 1
    <3>1. PICK x, j : x = Tail(forth)[i] /\ j = i + 1
      OBVIOUS
    <3>2. j \in DOMAIN forth /\ x = forth[j] /\ i \in Nat
      BY <1>4, <2>1, <3>1
    <3>3. i # 0
      BY <1>4, <2>1, LenProperties
    <3>4. 1 < j
      BY <3>1, <3>2, <3>3
    <3>5. x \in PacketType
      BY <1>3, <3>2, LenProperties
    <3>6. x.data \in Nat /\ x.eot \in BOOLEAN
      BY <3>5 DEF PacketType
    <3>7. /\ x.nth <= sends /\ (x.eot => phase = "over")
          /\ ~ x.eot =>
               /\ x.no = (x.data + 1) % SeqModulus /\ x.data + 1 <= seq
               /\ x.nth = sends => x.data + 1 = seq
               /\ Few => n <= x.data + 1
      BY <1>1, <1>2, <3>2 DEF PacketsFine
    <3>8. ~ x.eot /\ ~ p.eot => p.data <= x.data
      BY <1>1, <1>2, <1>4, <3>2, <3>4 DEF PacketsFine
    <3>9. ~ x.eot /\ Few => l <= x.data + 1
      <4>1. CASE taken
        BY <1>5, <1>9, <1>10, <1>11, <3>6, <3>8, <4>1
      <4>2. CASE ~ taken
        BY <1>10, <3>7, <4>2
      <4> QED BY <4>1, <4>2
    <3> QED BY <3>1, <3>7, <3>9
  <2>2. ASSUME NEW i \in DOMAIN Tail(forth), NEW j \in DOMAIN Tail(forth), i < j,
               ~ Tail(forth)[i].eot, ~ Tail(forth)[j].eot
        PROVE  Tail(forth)[i].data <= Tail(forth)[j].data
    <3>1. PICK x, y : x = i + 1 /\ y = j + 1
      OBVIOUS
    <3>2. /\ x \in DOMAIN forth /\ y \in DOMAIN forth /\ x < y
          /\ Tail(forth)[i] = forth[x] /\ Tail(forth)[j] = forth[y]
      BY <1>4, <2>2, <3>1
    <3> QED BY <1>1, <2>2, <3>2 DEF PacketsFine
  <2> QED BY <1>6, <1>7, <1>10, <2>1, <2>2 DEF PacketsFine
<1>20. AnswersFine'
  <2> SUFFICES ASSUME NEW i \in DOMAIN back'
               PROVE  /\ back'[i].to <= sends
                      /\ Few /\ phase = "ack" /\ back'[i].octet = "ACK" /\ back'[i].to = sends => l = seq
    BY <1>6, <1>7, <1>10 DEF AnswersFine
  <2>1. CASE back'[i] = a
    BY <1>12, <1>15, <1>16, <2>1
  <2>2. CASE i \in DOMAIN back /\ back'[i] = back[i]
    <3>1. /\ back[i].to <= sends
          /\ Few /\ phase = "ack" /\ back[i].octet = "ACK" /\ back[i].to = sends => n = seq
      BY <1>1, <1>2, <2>2 DEF AnswersFine
    <3> QED BY <1>3, <1>5, <1>10, <1>14, <2>2, <3>1
  <2>3. back'[i] = a \/ (i \in DOMAIN back /\ back'[i] = back[i])
    BY <1>3, <1>8, <1>15, OneAdded
  <2> QED BY <2>1, <2>2, <2>3
<1>21. Level'
  <2> SUFFICES ASSUME Few
               PROVE  /\ \A i \in 1 .. l : got'[i] = i - 1
                      /\ l <= seq /\ seq <= l + 1 + astray
                      /\ outcome = "sent" => Packets <= l + astray
    BY <1>6, <1>7, <1>10 DEF Level
  <2>1. /\ \A i \in 1 .. n : got[i] = i - 1
        /\ n <= seq /\ seq <= n + 1 + astray
        /\ outcome = "sent" => Packets <= n + astray
    BY <1>1, <1>2 DEF Level
  <2>2. \A i \in 1 .. l : got'[i] = i - 1
    BY <1>5, <1>10, <1>11, <2>1
  <2> QED BY <1>3, <1>5, <1>10, <1>14, <2>1, <2>2, TransferAssumption
<1> QED BY <1>17, <1>18, <1>19, <1>20, <1>21 DEF TransferInv

(* The line fails.                                                         *)
LEMMA DisturbKept ==
  ASSUME TransferInv, Transfer!Disturb
  PROVE  TransferInv'
<1>1. TransferTyped /\ Staged /\ PacketsFine /\ AnswersFine /\ Level
  BY DEF TransferInv
<1>2. UNCHANGED <<phase, ofs, seq, outcome, got, sends, astray>>
  BY DEF Transfer!Disturb
<1>3. forth \in Seq(PacketType) /\ back \in Seq(AnswerType)
  BY <1>1 DEF TransferTyped
<1>4. CASE /\ forth # <<>> /\ UNCHANGED back
           /\ forth' \in {Tail(forth), <<[Head(forth) EXCEPT !.good = FALSE]>> \o Tail(forth)}
  <2>1. /\ Tail(forth) \in Seq(PacketType) /\ 1 \in DOMAIN forth /\ Head(forth) = forth[1]
        /\ forth[1] \in PacketType
        /\ \A i \in DOMAIN Tail(forth) : i \in Nat /\ i + 1 \in DOMAIN forth /\ Tail(forth)[i] = forth[i + 1]
    BY <1>3, <1>4, FirstTaken
  <2>2. PICK p : p = [Head(forth) EXCEPT !.good = FALSE]
    OBVIOUS
  <2>3. /\ p \in PacketType /\ p.eot = forth[1].eot /\ p.no = forth[1].no
        /\ p.data = forth[1].data /\ p.nth = forth[1].nth
    BY <2>1, <2>2 DEF PacketType
  <2>4. /\ <<p>> \o Tail(forth) \in Seq(PacketType)
        /\ \A i \in DOMAIN (<<p>> \o Tail(forth)) :
             /\ i \in Nat
             /\ \/ i = 1 /\ (<<p>> \o Tail(forth))[i] = p
                \/ i > 1 /\ i - 1 \in DOMAIN Tail(forth) /\ (<<p>> \o Tail(forth))[i] = Tail(forth)[i - 1]
    BY <2>1, <2>3, OnePrefixed
  <2>5. PICK d \in {0, 1} :
          /\ forth' \in Seq(PacketType)
          /\ \A i \in DOMAIN forth' :
               /\ i \in Nat /\ i + d \in DOMAIN forth
               /\ forth'[i].eot = forth[i + d].eot /\ forth'[i].no = forth[i + d].no
               /\ forth'[i].data = forth[i + d].data /\ forth'[i].nth = forth[i + d].nth
    <3>1. CASE forth' = Tail(forth)
      BY <2>1, <3>1
    <3>2. CASE forth' = <<p>> \o Tail(forth)
      <4>1. ASSUME NEW i \in DOMAIN forth'
            PROVE  /\ i \in Nat /\ i + 0 \in DOMAIN forth
                   /\ forth'[i].eot = forth[i + 0].eot /\ forth'[i].no = forth[i + 0].no
                   /\ forth'[i].data = forth[i + 0].data /\ forth'[i].nth = forth[i + 0].nth
        <5>1. CASE i = 1 /\ forth'[i] = p
          BY <2>1, <2>3, <5>1
        <5>2. CASE i > 1 /\ i - 1 \in DOMAIN Tail(forth) /\ forth'[i] = Tail(forth)[i - 1]
          <6>1. PICK k : k = i - 1
            OBVIOUS
          <6>2. k \in Nat /\ k + 1 \in DOMAIN forth /\ Tail(forth)[k] = forth[k + 1] /\ i \in Nat
            BY <2>1, <2>4, <3>2, <5>2, <6>1
          <6>3. k + 1 = i /\ i + 0 = i
            BY <6>1, <6>2
          <6> QED BY <5>2, <6>1, <6>2, <6>3
        <5> QED BY <2>4, <3>2, <5>1, <5>2
      <4> QED BY <2>4, <3>2, <4>1
    <3> QED BY <1>4, <2>2, <3>1, <3>2
  <2>6. PacketsFine'
    <3>1. ASSUME NEW i \in DOMAIN forth'
          PROVE  /\ forth'[i].nth <= sends /\ (forth'[i].eot => phase = "over")
                 /\ ~ forth'[i].eot =>
                      /\ forth'[i].no = (forth'[i].data + 1) % SeqModulus /\ forth'[i].data + 1 <= seq
                      /\ forth'[i].nth = sends => forth'[i].data + 1 = seq
                      /\ Few => Len(got) <= forth'[i].data + 1
      BY <1>1, <2>5 DEF PacketsFine
    <3>2. ASSUME NEW i \in DOMAIN forth', NEW j \in DOMAIN forth', i < j, ~ forth'[i].eot, ~ forth'[j].eot
          PROVE  forth'[i].data <= forth'[j].data
      <4>1. i + d < j + d /\ i + d \in DOMAIN forth /\ j + d \in DOMAIN forth
        BY <2>5, <3>2
      <4> QED BY <1>1, <2>5, <3>2, <4>1 DEF PacketsFine
    <3> QED BY <1>2, <3>1, <3>2 DEF PacketsFine, Few
  <2>7. TransferTyped'
    BY <1>1, <1>2, <1>4, <2>5 DEF TransferTyped
  <2>8. Staged' /\ AnswersFine' /\ Level'
    <3>1. phase \notin {"flush", "nak"}
      BY <1>1, <1>4 DEF Staged
    <3>2. Staged'
      BY <1>1, <1>2, <3>1 DEF Staged
    <3>3. AnswersFine' /\ Level'
      BY <1>1, <1>2, <1>4 DEF AnswersFine, Level, Few
    <3> QED BY <3>2, <3>3
  <2> QED BY <2>6, <2>7, <2>8 DEF TransferInv
<1>5. CASE UNCHANGED forth
  <2>1. \A o \in Transfer!Octets : Transfer!Octet(o, 0) \in AnswerType /\ Transfer!Octet(o, 0).to = 0
    BY DEF AnswerType, Transfer!Octet
  <2>2. /\ back' \in Seq(AnswerType)
        /\ \A i \in DOMAIN back' : back'[i].to = 0 \/ \E j \in DOMAIN back : back'[i] = back[j]
    <3>1. CASE back # <<>> /\ back' = Tail(back)
      BY <1>3, <3>1, FirstTaken
    <3>2. CASE back # <<>> /\ back' = <<Head(back)>> \o back
      <4>1. 1 \in DOMAIN back /\ Head(back) = back[1] /\ back[1] \in AnswerType
        BY <1>3, <3>2, FirstTaken
      <4>2. PICK b : b = back[1]
        OBVIOUS
      <4>3. b \in AnswerType /\ back' = <<b>> \o back
        BY <3>2, <4>1, <4>2
      <4> QED BY <1>3, <4>1, <4>2, <4>3, OnePrefixed
    <3>3. CASE back # <<>> /\ \E o \in Transfer!Octets : back' = <<Transfer!Octet(o, 0)>> \o Tail(back)
      <4>1. PICK o, b, t : o \in Transfer!Octets /\ b = Transfer!Octet(o, 0) /\ t = Tail(back) /\ back' = <<b>> \o t
        BY <3>3
      <4>2. t \in Seq(AnswerType) /\ \A i \in DOMAIN t : i \in Nat /\ i + 1 \in DOMAIN back /\ t[i] = back[i + 1]
        BY <1>3, <3>3, <4>1, FirstTaken
      <4>3. b \in AnswerType /\ b.to = 0
        BY <2>1, <4>1
      <4>4. /\ back' \in Seq(AnswerType)
            /\ \A i \in DOMAIN back' : back'[i] = b \/ \E k \in DOMAIN t : back'[i] = t[k]
        BY <4>1, <4>2, <4>3, OnePrefixed
      <4> QED BY <4>2, <4>3, <4>4
    <3>4. CASE \E o \in Transfer!Octets : back' = Append(back, Transfer!Octet(o, 0))
      <4>1. PICK o, b : o \in Transfer!Octets /\ b = Transfer!Octet(o, 0) /\ back' = Append(back, b)
        BY <3>4
      <4>2. b \in AnswerType /\ b.to = 0
        BY <2>1, <4>1
      <4> QED BY <1>3, <4>1, <4>2, OneAdded
    <3>5. CASE UNCHANGED back
      BY <1>3, <3>5
    <3>6. \/ back # <<>> /\ back' \in   {Tail(back), <<Head(back)>> \o back}
                                   \cup {<<Transfer!Octet(o, 0)>> \o Tail(back) : o \in Transfer!Octets}
          \/ \E o \in Transfer!Octets : back' = Append(back, Transfer!Octet(o, 0))
          \/ UNCHANGED back
      BY DEF Transfer!Disturb
    <3> QED BY <3>1, <3>2, <3>3, <3>4, <3>5, <3>6
  <2> QED BY <1>2, <1>5, <2>2, AnswersKept
<1> QED BY <1>4, <1>5 DEF Transfer!Disturb

(* Every step keeps the transfer in order.                                 *)
LEMMA TransferNext ==
  ASSUME TransferInv, Transfer!Next \/ UNCHANGED transfer
  PROVE  TransferInv'
<1>1. CASE UNCHANGED transfer
  <2>1. UNCHANGED <<phase, ofs, seq, outcome, forth, back, got, sends, astray>>
    BY <1>1 DEF transfer
  <2> QED BY <2>1 DEF TransferInv, TransferTyped, Staged, PacketsFine, AnswersFine, Level, Few
<1> QED BY <1>1, FlushKept, NakKept, AckKept, AskKept, ReceiveKept, DisturbKept DEF Transfer!Next

(* What the receiver has is a beginning of the file.                       *)
LEMMA TransferRight == TransferInv => Transfer!TransferComplete
<1> SUFFICES ASSUME TransferInv, Few
             PROVE  /\ \A i \in DOMAIN got : got[i] = i - 1
                    /\ Len(got) <= Packets
                    /\ outcome = "sent" => Packets - astray <= Len(got)
  BY DEF Transfer!TransferComplete, Few
<1>1. got \in Seq(Nat) /\ seq \in 0 .. Packets /\ astray \in Nat /\ Packets \in Nat
  BY TransferAssumption DEF TransferInv, TransferTyped
<1>2. Len(got) \in Nat /\ DOMAIN got = 1 .. Len(got)
  BY <1>1, LenProperties
<1> QED BY <1>1, <1>2 DEF TransferInv, Level

(***************************************************************************)
(* The receiver has a beginning of the file, each packet once and in       *)
(* order, and when the sender reports success all of it but for a packet   *)
(* at the end for each octet that the sender took for an ACK to its last   *)
(* packet and that was none, as long as these are fewer than the numbers   *)
(* of packets less one: for files of any length, any number of faults of   *)
(* the line and of the sender's output, of late answers, and of retries.   *)
(***************************************************************************)
THEOREM FileSent == SpecParts => []TransferComplete
<1> DEFINE Inv == part = "transfer" => TransferInv
<1>1. InitParts => Inv
  BY TransferInit DEF InitParts
<1>2. Inv /\ [NextPart]_all => Inv'
  <2> SUFFICES ASSUME Inv, [NextPart]_all, part' = "transfer" PROVE TransferInv'
    OBVIOUS
  <2>1. part = "transfer" /\ (Transfer!Next \/ UNCHANGED transfer)
    BY DEF NextPart, all
  <2> QED BY <2>1, TransferNext
<1>3. Inv => TransferComplete
  BY TransferRight DEF TransferComplete
<1> QED BY <1>1, <1>2, <1>3, PTL DEF SpecParts
-----------------------------------------------------------------------------
(***************************************************************************)
(* The factories of requestors.  CallInv is the invariant of a call none   *)
(* of whose requestors threw after it had answered: while it goes on, what *)
(* it has counted, that no answer has decided it yet, and how many of its  *)
(* requestors run; when it has ended, that the callback was told the       *)
(* truth.  Held is the invariant of every call: what has ended was         *)
(* stopped.                                                                *)
(***************************************************************************)
(* A call of a requestor: p is the plan of its factory, s the call.        *)
Total(p) == p.required + p.optional
Gathers(p) == p.factory \in {"parallel", "sequence"}
Verdict == [ok : BOOLEAN, value : Seq(Nat)]
CallType ==
  [live : BOOLEAN, next : Nat \ {0}, tasks : Seq(Nat), timer : BOOLEAN,
   ran : [1 .. Size -> {"waiting", "running", "done"}], early : [1 .. Size -> BOOLEAN],
   cancels : [1 .. Size -> Nat],
   results : [1 .. Size -> Nat], pending : Int, required : Int,
   out : Seq(Verdict), threw : {FALSE},
   input : [1 .. Size -> Nat], answer : [1 .. Size -> Nat],
   expired : BOOLEAN, aborted : BOOLEAN, spoilt : BOOLEAN]

(* The requestors that are still to answer, those of them that must        *)
(* succeed, and those that run.                                            *)
Open(p, s) == {i \in 1 .. Total(p) : s.ran[i] # "done"}
Due(p, s) == {i \in 1 .. p.required : s.ran[i] # "done"}
Active(p, s) == {i \in 1 .. Total(p) : s.ran[i] = "running"}

(* What the callback is told: Outcome, of the call s.                      *)
Told(p, s, o) ==
  /\ o \in Verdict
  /\ o.ok /\ p.factory = "parallel" =>
       /\ \A i \in 1 .. p.required : s.answer[i] = i
       /\ \A i \in 1 .. Total(p) : o.value[i] = IF s.answer[i] = i THEN i ELSE 0
  /\ o.ok /\ p.factory = "sequence" =>
       /\ \A i \in 1 .. Total(p) : s.answer[i] = i /\ s.input[i] = IF i = 1 THEN Size + 1 ELSE i - 1
       /\ o.value = IF Total(p) = 0 THEN <<Size + 1>> ELSE <<Total(p)>>
  /\ o.ok /\ ~ Gathers(p) =>
       \E w \in 1 .. Total(p) :
          /\ o.value = <<w>>
          /\ \A i \in 1 .. Total(p) : s.answer[i] = i <=> i = w
          /\ p.factory = "fallback" => \A i \in 1 .. w - 1 : s.answer[i] = 0
  /\ ~ o.ok /\ ~ Gathers(p) => s.expired \/ \A i \in 1 .. Total(p) : s.answer[i] = 0
  /\ ~ o.ok /\ Gathers(p) => s.expired \/ \E i \in 1 .. p.required : s.answer[i] = 0

(* What a call that goes on has counted and noted.                         *)
Counted(p, s) ==
  /\ s.live /\ s.out = <<>> /\ ~ s.aborted /\ Total(p) > 0
  /\ s.pending = Cardinality(Open(p, s))
  /\ Gathers(p) => s.required = Cardinality(Due(p, s))
  /\ s.next \in 1 .. Total(p) + 1
  /\ \A i \in 1 .. Size : s.ran[i] = "waiting" <=> i >= s.next
  /\ \A i \in 1 .. Size : s.answer[i] = IF s.ran[i] = "done" THEN s.answer[i] ELSE Size + 2
  /\ \A i \in 1 .. Size : s.ran[i] = "done" => s.answer[i] \in {i, 0}
  /\ Gathers(p) => \A i \in 1 .. Size : s.results[i] = IF s.ran[i] = "done" THEN s.answer[i] ELSE 0
  /\ p.factory = "sequence" =>
       \A i \in 1 .. s.next - 1 : s.input[i] = IF i = 1 THEN Size + 1 ELSE i - 1

(* It would have ended, had an answer decided it.                          *)
Undecided(p, s) ==
  /\ Gathers(p) => \A i \in 1 .. p.required : s.ran[i] = "done" => s.answer[i] = i
  /\ ~ Gathers(p) => \A i \in 1 .. Total(p) : s.ran[i] = "done" => s.answer[i] = 0

(* No more run, or are about to, than may; in a sequence each is given     *)
(* what the one before it answered.                                        *)
Most(p) == IF p.throttle = 0 \/ p.throttle > Total(p) THEN Total(p) ELSE p.throttle
Given(p, s) == IF p.factory = "sequence" /\ s.next > 1 THEN s.next - 1 ELSE Size + 1
Throttled(p, s) ==
  /\ Cardinality(Active(p, s)) + Len(s.tasks) <= Most(p)
  /\ p.factory \in {"fallback", "sequence"} =>
       \/ s.tasks = <<>> /\ Active(p, s) \subseteq {s.next - 1}
       \/ s.tasks = <<Given(p, s)>> /\ Active(p, s) = {}

(* A call that has ended.                                                  *)
Stopped(p, s) ==
  /\ ~ s.live /\ s.tasks = <<>> /\ ~ s.timer
  /\ s.out = <<>> \/ \E o : s.out = <<o>> /\ Told(p, s, o)

(* The inductive invariant of a call.                                      *)
CallInv(p, s) ==
  /\ s \in CallType
  /\ Stopped(p, s) \/ (Counted(p, s) /\ Undecided(p, s) /\ Throttled(p, s))

(* Parseq has a copy of Cardinality of its own.                            *)
LEMMA SameCount == ASSUME NEW S PROVE Requests!Cardinality(S) = Cardinality(S)
BY DEF Requests!Cardinality, Cardinality

(* What the factories are given.                                           *)
LEMMA PlanFacts ==
  ASSUME NEW p \in Requests!Plans
  PROVE  /\ Size \in Nat /\ Size > 0 /\ p.required \in Nat /\ p.optional \in Nat /\ Total(p) \in 0 .. Size
         /\ p.required <= Total(p) /\ p.throttle \in Nat /\ p.limit \in BOOLEAN
         /\ p.factory \in {"parallel", "race", "fallback", "sequence"}
         /\ p.factory # "parallel" => p.optional = 0 /\ p.option = "none"
         /\ ~ Gathers(p) => p.required > 0
         /\ p.factory \in {"fallback", "sequence"} => p.throttle = 1
<1>1. /\ p \in [factory : {"parallel", "race", "fallback", "sequence"}, required : 0 .. Size, optional : 0 .. Size,
                limit : BOOLEAN, option : {"none", "true", "false"},
                throttle : 0 .. Size, silent : SUBSET (1 .. Size)]
      /\ p.required + p.optional \in 0 .. Size
      /\ p.factory # "parallel" => p.optional = 0 /\ p.option = "none"
      /\ p.factory \in {"race", "fallback"} => p.required > 0
      /\ p.factory \in {"fallback", "sequence"} => p.throttle = 1
  BY DEF Requests!Plans, Requests!Factories
<1> QED BY <1>1, RequestsAssumption DEF Total, Gathers

(* The requestors are finitely many.                                       *)
LEMMA FewRequestors ==
  ASSUME NEW p \in Requests!Plans, NEW s
  PROVE  /\ IsFiniteSet(Open(p, s)) /\ IsFiniteSet(Due(p, s)) /\ IsFiniteSet(Active(p, s))
         /\ Cardinality(Open(p, s)) \in Nat /\ Cardinality(Due(p, s)) \in Nat /\ Cardinality(Active(p, s)) \in Nat
<1>1. IsFiniteSet(1 .. Total(p)) /\ IsFiniteSet(1 .. p.required)
  <2>1. Total(p) \in Int /\ p.required \in Int
    BY PlanFacts
  <2> QED BY <2>1, FS_Interval
<1>2. /\ Open(p, s) \in SUBSET (1 .. Total(p)) /\ Due(p, s) \in SUBSET (1 .. p.required)
      /\ Active(p, s) \in SUBSET (1 .. Total(p))
  BY DEF Open, Due, Active
<1>3. IsFiniteSet(Open(p, s)) /\ IsFiniteSet(Due(p, s)) /\ IsFiniteSet(Active(p, s))
  BY <1>1, <1>2, FS_Subset
<1> QED BY <1>3, FS_CardinalityType

(* The fields of a call.                                                   *)
LEMMA CallFields ==
  ASSUME NEW s \in CallType
  PROVE  /\ s.live \in BOOLEAN /\ s.next \in Nat \ {0} /\ s.tasks \in Seq(Nat) /\ s.timer \in BOOLEAN
         /\ s.ran \in [1 .. Size -> {"waiting", "running", "done"}] /\ s.cancels \in [1 .. Size -> Nat]
         /\ s.early \in [1 .. Size -> BOOLEAN] /\ s.spoilt \in BOOLEAN
         /\ s.results \in [1 .. Size -> Nat] /\ s.pending \in Int /\ s.required \in Int
         /\ s.out \in Seq(Verdict) /\ s.threw = FALSE
         /\ s.input \in [1 .. Size -> Nat] /\ s.answer \in [1 .. Size -> Nat]
         /\ s.expired \in BOOLEAN /\ s.aborted \in BOOLEAN
BY DEF CallType

(* Cancel and the call of the callback.                                    *)
LEMMA Cancelled ==
  ASSUME NEW s \in CallType, NEW c, c = Requests!Cancel(s)
  PROVE  /\ c \in CallType /\ ~ c.live /\ ~ c.timer /\ c.tasks = <<>>
         /\ \A i \in 1 .. Size :
              c.cancels[i] = IF s.live /\ (s.ran[i] = "running" \/ s.early[i]) THEN s.cancels[i] + 1 ELSE s.cancels[i]
         /\ c.ran = s.ran /\ c.results = s.results /\ c.out = s.out /\ c.input = s.input /\ c.answer = s.answer
         /\ c.expired = s.expired /\ c.aborted = s.aborted /\ c.required = s.required /\ c.threw = s.threw
         /\ c.early = s.early /\ c.spoilt = s.spoilt
<1>1. PICK f : f = [i \in 1 .. Size |-> IF Requests!Kept(s, i) THEN s.cancels[i] + 1 ELSE s.cancels[i]]
  OBVIOUS
<1>2. f \in [1 .. Size -> Nat]
  <2>1. s.cancels \in [1 .. Size -> Nat]
    BY CallFields
  <2>2. ASSUME NEW i \in 1 .. Size PROVE s.cancels[i] \in Nat /\ s.cancels[i] + 1 \in Nat
    BY <2>1, RequestsAssumption
  <2> QED BY <1>1, <2>2
<1>3. c = [s EXCEPT !.timer = FALSE, !.live = FALSE, !.tasks = <<>>, !.cancels = f]
  BY <1>1 DEF Requests!Cancel
<1>4. c.cancels = f
  BY <1>3 DEF CallType
<1>5. <<>> \in Seq(Nat)
  BY EmptySeq
<1>6. c \in CallType
  BY <1>2, <1>3, <1>5 DEF CallType
<1>7. \A i \in 1 .. Size :
         c.cancels[i] = IF s.live /\ (s.ran[i] = "running" \/ s.early[i]) THEN s.cancels[i] + 1 ELSE s.cancels[i]
  BY <1>1, <1>4 DEF Requests!Kept
<1>8. /\ ~ c.live /\ ~ c.timer /\ c.tasks = <<>>
      /\ c.ran = s.ran /\ c.results = s.results /\ c.out = s.out /\ c.input = s.input /\ c.answer = s.answer
      /\ c.expired = s.expired /\ c.aborted = s.aborted /\ c.required = s.required /\ c.threw = s.threw
      /\ c.early = s.early /\ c.spoilt = s.spoilt
  BY <1>3 DEF CallType
<1> QED BY <1>6, <1>7, <1>8

(* The callback is called for the first time.                              *)
LEMMA Returned ==
  ASSUME NEW s \in CallType, s.out = <<>>, ~ Throws, NEW o \in Verdict, NEW c, c = Requests!Return(s, o)
  PROVE  /\ c \in CallType /\ c.out = <<o>> /\ c.live = s.live /\ c.timer = s.timer /\ c.tasks = s.tasks
         /\ c.cancels = s.cancels /\ c.ran = s.ran /\ c.input = s.input /\ c.answer = s.answer
         /\ c.expired = s.expired /\ c.aborted = s.aborted /\ c.early = s.early /\ c.spoilt = s.spoilt
<1>1. Append(s.out, o) = <<o>> /\ <<o>> \in Seq(Verdict)
  OBVIOUS
<1>2. c = [s EXCEPT !.out = <<o>>, !.threw = FALSE]
  BY <1>1, RequestsAssumption DEF Requests!Return, CallType
<1> QED BY <1>1, <1>2 DEF CallType

(* A call that is ended with what it should be told.                       *)
LEMMA Stops ==
  ASSUME NEW p \in Requests!Plans, ~ Throws, NEW s \in CallType, s.live, s.out = <<>>,
         NEW o, Told(p, s, o), NEW c, c = Requests!Return(Requests!Cancel(s), o)
  PROVE  CallInv(p, c) /\ ~ c.live /\ c.out # <<>> /\ c.aborted = s.aborted
<1>1. PICK d : d = Requests!Cancel(s)
  OBVIOUS
<1>2. o \in Verdict
  BY DEF Told
<1>3. /\ d \in CallType /\ ~ d.live /\ ~ d.timer /\ d.tasks = <<>> /\ d.out = <<>>
      /\ d.ran = s.ran /\ d.input = s.input /\ d.answer = s.answer
      /\ d.expired = s.expired /\ d.aborted = s.aborted
  BY <1>1, Cancelled
<1>4. c = Requests!Return(d, o)
  BY <1>1
<1>5. /\ c \in CallType /\ c.out = <<o>> /\ ~ c.live /\ ~ c.timer /\ c.tasks = <<>>
      /\ c.ran = s.ran /\ c.input = s.input /\ c.answer = s.answer
      /\ c.expired = s.expired /\ c.aborted = s.aborted
  BY <1>2, <1>3, <1>4, Returned
<1>6. Told(p, c, o)
  BY <1>5 DEF Told
<1>7. <<o>> # <<>>
  OBVIOUS
<1> QED BY <1>5, <1>6, <1>7 DEF CallInv, Stopped

-----------------------------------------------------------------------------
(* What one answer changes in what a call has counted: requestor i, which  *)
(* was running, has answered v.                                            *)
LEMMA OneLess ==
  ASSUME NEW p \in Requests!Plans, NEW s \in CallType, NEW d \in CallType, NEW i \in Active(p, s),
         d.ran[i] = "done", \A j \in 1 .. Size : j # i => d.ran[j] = s.ran[j]
  PROVE  /\ i \in 1 .. Total(p) /\ i \in 1 .. Size /\ s.ran[i] = "running" /\ d.ran[i] = "done"
         /\ \A j \in 1 .. Size : j # i => d.ran[j] = s.ran[j]
         /\ Cardinality(Open(p, d)) = Cardinality(Open(p, s)) - 1
         /\ Cardinality(Due(p, d)) = IF i <= p.required THEN Cardinality(Due(p, s)) - 1 ELSE Cardinality(Due(p, s))
         /\ Active(p, d) = Active(p, s) \ {i}
         /\ Cardinality(Active(p, d)) = Cardinality(Active(p, s)) - 1
<1>1. /\ i \in 1 .. Total(p) /\ i \in 1 .. Size /\ s.ran[i] = "running"
      /\ Total(p) \in 0 .. Size /\ p.required \in Nat /\ p.required <= Total(p)
  BY PlanFacts DEF Active
<1>2. s.ran \in [1 .. Size -> {"waiting", "running", "done"}]
  BY CallFields
<1>3. d.ran[i] = "done" /\ \A j \in 1 .. Size : j # i => d.ran[j] = s.ran[j]
  BY <1>1, <1>2
<1>4. \A j \in 1 .. Total(p) : j \in 1 .. Size
  BY <1>1, RequestsAssumption
<1>5. Open(p, d) = Open(p, s) \ {i} /\ i \in Open(p, s)
  BY <1>1, <1>3, <1>4 DEF Open
<1>6. Active(p, d) = Active(p, s) \ {i}
  BY <1>1, <1>3, <1>4 DEF Active
<1>7. /\ Due(p, d) = IF i <= p.required THEN Due(p, s) \ {i} ELSE Due(p, s)
      /\ i <= p.required => i \in Due(p, s)
  <2>1. \A j \in 1 .. p.required : j \in 1 .. Size
    BY <1>1, RequestsAssumption
  <2>2. i \in 1 .. p.required <=> i <= p.required
    BY <1>1, RequestsAssumption
  <2> QED BY <1>1, <1>3, <2>1, <2>2 DEF Due
<1>8. /\ IsFiniteSet(Open(p, s)) /\ IsFiniteSet(Due(p, s)) /\ IsFiniteSet(Active(p, s))
      /\ Cardinality(Open(p, s)) \in Nat /\ Cardinality(Due(p, s)) \in Nat /\ Cardinality(Active(p, s)) \in Nat
  BY FewRequestors
<1>9. /\ Cardinality(Open(p, s) \ {i}) = Cardinality(Open(p, s)) - 1
      /\ Cardinality(Active(p, s) \ {i}) = Cardinality(Active(p, s)) - 1
  BY <1>5, <1>8, FS_RemoveElement
<1>10. i <= p.required => Cardinality(Due(p, s) \ {i}) = Cardinality(Due(p, s)) - 1
  BY <1>7, <1>8, FS_RemoveElement
<1> QED BY <1>1, <1>3, <1>5, <1>6, <1>7, <1>9, <1>10

(* None is left to answer when the count is below one.                     *)
LEMMA NoneLeft ==
  ASSUME NEW p \in Requests!Plans, NEW s
  PROVE  /\ Cardinality(Open(p, s)) < 1 => \A i \in 1 .. Total(p) : s.ran[i] = "done"
         /\ Cardinality(Due(p, s)) < 1 => \A i \in 1 .. p.required : s.ran[i] = "done"
<1>1. /\ IsFiniteSet(Open(p, s)) /\ IsFiniteSet(Due(p, s))
      /\ Cardinality(Open(p, s)) \in Nat /\ Cardinality(Due(p, s)) \in Nat
  BY FewRequestors
<1>2. ASSUME NEW S, IsFiniteSet(S), Cardinality(S) \in Nat, Cardinality(S) < 1 PROVE S = {}
  <2>1. Cardinality(S) = 0
    BY <1>2
  <2> QED BY <1>2, <2>1, FS_EmptySet
<1>3. Cardinality(Open(p, s)) < 1 => Open(p, s) = {}
  BY <1>1, <1>2
<1>4. Cardinality(Due(p, s)) < 1 => Due(p, s) = {}
  BY <1>1, <1>2
<1> QED BY <1>3, <1>4 DEF Open, Due

(* parallel and sequence succeed with what the requestors answered.        *)
LEMMA GatheredTold ==
  ASSUME NEW p \in Requests!Plans, p = plan, Gathers(p), NEW s \in CallType, Counted(p, s), Undecided(p, s),
         s.pending < 1 \/ s.required < 1
  PROVE  Told(p, s, Requests!Success(s))
<1>1. /\ Total(p) \in 0 .. Size /\ p.required \in Nat /\ p.required <= Total(p) /\ Requests!N = Total(p) /\ Size \in Nat
      /\ p.factory = "sequence" => p.required = Total(p)
  BY PlanFacts DEF Requests!N, Total
<1>2. s.results \in [1 .. Size -> Nat] /\ s.answer \in [1 .. Size -> Nat]
  BY CallFields
<1>3. \A i \in 1 .. p.required : s.ran[i] = "done" /\ s.answer[i] = i
  <2>1. CASE s.required < 1
    BY <2>1, NoneLeft DEF Counted, Undecided
  <2>2. CASE s.pending < 1
    <3>1. \A i \in 1 .. Total(p) : s.ran[i] = "done"
      BY <2>2, NoneLeft DEF Counted
    <3>2. \A i \in 1 .. p.required : i \in 1 .. Total(p)
      BY <1>1
    <3> QED BY <3>1, <3>2 DEF Undecided
  <2> QED BY <2>1, <2>2
<1>4. ASSUME NEW i \in 1 .. Total(p)
      PROVE  s.results[i] = IF s.answer[i] = i THEN i ELSE 0
  <2>1. i \in 1 .. Size /\ i # Size + 2 /\ i # 0
    BY <1>1
  <2> QED BY <2>1 DEF Counted
<1>5. PICK o : o = Requests!Success(s)
  OBVIOUS
<1>6. CASE p.factory = "parallel"
  <2>0. PICK w : w = [i \in 1 .. Total(p) |-> s.results[i]]
    OBVIOUS
  <2>1. o = [ok |-> TRUE, value |-> w]
    BY <1>1, <1>5, <1>6, <2>0 DEF Requests!Success, Requests!Requestors
  <2>2. o \in Verdict
    <3>1. \A i \in 1 .. Total(p) : s.results[i] \in Nat
      BY <1>1, <1>2
    <3>2. w \in Seq(Nat)
      BY <1>1, <2>0, <3>1
    <3> QED BY <2>1, <3>2 DEF Verdict
  <2>3. \A i \in 1 .. Total(p) : o.value[i] = IF s.answer[i] = i THEN i ELSE 0
    BY <1>4, <2>0, <2>1
  <2> QED BY <1>3, <1>5, <1>6, <2>1, <2>2, <2>3 DEF Told, Gathers
<1>7. CASE p.factory = "sequence"
  <2>2. Total(p) > 0 /\ p.required = Total(p)
    BY <1>1, <1>7 DEF Counted
  <2>3. \A i \in 1 .. Total(p) : s.ran[i] = "done" /\ s.answer[i] = i /\ s.results[i] = i
    BY <1>3, <1>4, <2>2
  <2>1. o = [ok |-> TRUE, value |-> <<s.results[Total(p)]>>]
    <3>1. Requests!Requestors = 1 .. Total(p)
      BY <1>1 DEF Requests!Requestors
    <3>2. \A i \in 1 .. Total(p) : Requests!LastDone(s, i) <=> i = Total(p)
      BY <1>1, <2>2, <2>3, <3>1 DEF Requests!LastDone
    <3>3. Requests!Popped(s) = s.results[Total(p)]
      <4>1. Total(p) \in 1 .. Total(p)
        BY <1>1, <2>2
      <4> QED BY <3>1, <3>2, <4>1 DEF Requests!Popped
    <3> QED BY <1>5, <1>7, <3>3 DEF Requests!Success
  <2>4. s.results[Total(p)] = Total(p) /\ Total(p) \in Nat
    BY <1>1, <2>2, <2>3
  <2>5. o.ok = TRUE /\ o.value = <<Total(p)>> /\ o \in Verdict
    BY <2>1, <2>4 DEF Verdict
  <2>6. ASSUME NEW i \in 1 .. Total(p)
        PROVE  s.answer[i] = i /\ s.input[i] = IF i = 1 THEN Size + 1 ELSE i - 1
    <3>0. s.next \in Nat \ {0}
      BY CallFields
    <3>1. i \in 1 .. Size /\ s.next \in Nat
      BY <1>1, <3>0
    <3>2. ~ (i >= s.next)
      BY <2>3, <3>1 DEF Counted
    <3>3. i \in 1 .. s.next - 1
      BY <3>1, <3>2
    <3> QED BY <1>7, <2>3, <3>3 DEF Counted
  <2> QED BY <1>5, <1>7, <2>2, <2>5, <2>6 DEF Told, Gathers
<1> QED BY <1>6, <1>7 DEF Gathers
(* e is the call s after requestor i has answered v, up to what is counted *)
(* and noted about that.                                                   *)
Answering(s, e, i, v) ==
  /\ e \in CallType
  /\ e.ran[i] = "done" /\ e.answer[i] = v
  /\ \A j \in 1 .. Size : j # i => e.ran[j] = s.ran[j] /\ e.answer[j] = s.answer[j]
  /\ e.live = s.live /\ e.next = s.next /\ e.tasks = s.tasks /\ e.timer = s.timer
  /\ e.cancels = s.cancels /\ e.out = s.out /\ e.input = s.input
  /\ e.expired = s.expired /\ e.aborted = s.aborted

(* An answer is counted.                                                   *)
LEMMA CountedOn ==
  ASSUME NEW p \in Requests!Plans, NEW s \in CallType, Counted(p, s), NEW i \in Active(p, s), NEW v \in {i, 0},
         NEW e, Answering(s, e, i, v), e.pending = s.pending - 1,
         Gathers(p) => /\ e.required = IF i <= p.required THEN s.required - 1 ELSE s.required
                       /\ e.results[i] = v /\ \A j \in 1 .. Size : j # i => e.results[j] = s.results[j]
  PROVE  Counted(p, e)
<1>1. /\ i \in 1 .. Size /\ s.ran[i] = "running" /\ e.ran[i] = "done"
      /\ \A j \in 1 .. Size : j # i => e.ran[j] = s.ran[j]
      /\ Cardinality(Open(p, e)) = Cardinality(Open(p, s)) - 1
      /\ Cardinality(Due(p, e)) = IF i <= p.required THEN Cardinality(Due(p, s)) - 1 ELSE Cardinality(Due(p, s))
  <2>1. e \in CallType /\ e.ran[i] = "done" /\ \A j \in 1 .. Size : j # i => e.ran[j] = s.ran[j]
    BY DEF Answering
  <2> QED BY <2>1, OneLess
<1>2. s.answer \in [1 .. Size -> Nat] /\ s.results \in [1 .. Size -> Nat] /\ s.next \in Nat \ {0}
  BY CallFields
<1>3. e.answer[i] = v /\ \A j \in 1 .. Size : j # i => e.answer[j] = s.answer[j]
  BY <1>1, <1>2 DEF Answering
<1>4. /\ e.live /\ e.out = <<>> /\ ~ e.aborted /\ Total(p) > 0 /\ e.next \in 1 .. Total(p) + 1
      /\ e.pending = Cardinality(Open(p, e))
      /\ Gathers(p) => e.required = Cardinality(Due(p, e))
  BY <1>1 DEF Answering, Counted
<1>5. ASSUME NEW j \in 1 .. Size
      PROVE  /\ e.ran[j] = "waiting" <=> j >= e.next
             /\ e.answer[j] = IF e.ran[j] = "done" THEN e.answer[j] ELSE Size + 2
             /\ e.ran[j] = "done" => e.answer[j] \in {j, 0}
             /\ Gathers(p) => e.results[j] = IF e.ran[j] = "done" THEN e.answer[j] ELSE 0
  <2>1. e.next = s.next
    BY DEF Answering
  <2>2. Gathers(p) => e.results[i] = v /\ (j # i => e.results[j] = s.results[j])
    BY <1>1, <1>2
  <2>3. CASE j = i
    BY <1>1, <1>3, <2>1, <2>2, <2>3 DEF Counted
  <2>4. CASE j # i
    BY <1>1, <1>3, <2>1, <2>2, <2>4 DEF Counted
  <2> QED BY <2>3, <2>4
<1>6. p.factory = "sequence" => \A j \in 1 .. e.next - 1 : e.input[j] = IF j = 1 THEN Size + 1 ELSE j - 1
  BY DEF Answering, Counted
<1> QED BY <1>4, <1>5, <1>6 DEF Counted

(* The action of parallel and sequence.                                    *)
LEMMA GatherActed ==
  ASSUME NEW p \in Requests!Plans, p = plan, ~ Throws, Gathers(p), time_option \in {"none", "true", "false"},
         NEW s \in CallType, Counted(p, s), Undecided(p, s),
         NEW i \in Active(p, s), NEW v \in {i, 0}, NEW d, Answering(s, d, i, v),
         d.results = s.results, d.pending = s.pending, d.required = s.required,
         NEW a, a = Requests!ParallelAction(d, v, i)
  PROVE  \/ CallInv(p, a) /\ ~ a.live /\ a.out # <<>> /\ ~ a.aborted
         \/ /\ a \in CallType /\ Counted(p, a) /\ Undecided(p, a)
            /\ a.ran = d.ran /\ a.tasks = s.tasks /\ a.next = s.next
            /\ p.factory = "sequence" => v = i
<1>0. /\ d \in CallType /\ i \in 1 .. Total(p) /\ i \in 1 .. Size
      /\ Total(p) \in 0 .. Size /\ p.required \in Nat /\ p.required <= Total(p)
  BY PlanFacts DEF Active, Answering
<1>1. PICK e : e = [d EXCEPT !.results[i] = v, !.pending = @ - 1,
                             !.required = IF i <= p.required THEN @ - 1 ELSE @]
  OBVIOUS
<1>2. /\ e \in CallType /\ Answering(s, e, i, v) /\ e.pending = s.pending - 1
      /\ e.required = IF i <= p.required THEN s.required - 1 ELSE s.required
      /\ e.results[i] = v /\ (\A j \in 1 .. Size : j # i => e.results[j] = s.results[j]) /\ e.ran = d.ran
  <2>1. v \in Nat /\ d.results \in [1 .. Size -> Nat] /\ d.pending \in Int /\ d.required \in Int
    <3>1. d.results \in [1 .. Size -> Nat] /\ d.pending \in Int /\ d.required \in Int
      BY <1>0, CallFields
    <3> QED BY <1>0, <3>1
  <2>2. [d.results EXCEPT ![i] = v] \in [1 .. Size -> Nat]
    BY <1>0, <2>1
  <2>3. PICK f \in [1 .. Size -> Nat] : f = [d.results EXCEPT ![i] = v]
    BY <2>2
  <2>4. PICK n \in Int : n = IF i <= p.required THEN d.required - 1 ELSE d.required
    BY <2>1
  <2>5. PICK m \in Int : m = d.pending - 1
    BY <2>1
  <2>6. e = [d EXCEPT !.results = f, !.pending = m, !.required = n]
    BY <1>0, <1>1, <2>3, <2>4, <2>5 DEF CallType
  <2>7. /\ e \in CallType /\ e.results = f /\ e.pending = m /\ e.required = n
        /\ e.ran = d.ran /\ e.answer = d.answer
        /\ e.live = d.live /\ e.next = d.next /\ e.tasks = d.tasks /\ e.timer = d.timer
        /\ e.cancels = d.cancels /\ e.out = d.out /\ e.input = d.input
        /\ e.expired = d.expired /\ e.aborted = d.aborted
    BY <1>0, <2>6 DEF CallType
  <2>8. f[i] = v /\ \A j \in 1 .. Size : j # i => f[j] = d.results[j]
    BY <1>0, <2>1, <2>3
  <2> QED BY <2>4, <2>5, <2>7, <2>8 DEF Answering
<1>3. Counted(p, e)
  <2>1. Gathers(p) => /\ e.required = IF i <= p.required THEN s.required - 1 ELSE s.required
                      /\ e.results[i] = v /\ \A j \in 1 .. Size : j # i => e.results[j] = s.results[j]
    BY <1>2
  <2>2. Answering(s, e, i, v) /\ e.pending = s.pending - 1
    BY <1>2
  <2> QED BY ONLY p \in Requests!Plans, s \in CallType, Counted(p, s), i \in Active(p, s), v \in {i, 0},
                  <2>1, <2>2, CountedOn
<1>4. /\ e.ran[i] = "done" /\ e.answer[i] = v
      /\ \A j \in 1 .. Size : j # i => e.ran[j] = s.ran[j] /\ e.answer[j] = s.answer[j]
  <2>1. s.ran \in [1 .. Size -> {"waiting", "running", "done"}] /\ s.answer \in [1 .. Size -> Nat]
    BY CallFields
  <2> QED BY <1>0, <1>2, <2>1 DEF Answering
<1>5. e.live /\ e.out = <<>> /\ ~ e.aborted
  BY <1>3 DEF Counted
<1>7. a = IF i <= p.required /\ v = 0
          THEN Requests!Return(Requests!Cancel(e), Requests!Failure)
          ELSE IF e.pending < 1 \/ (time_option = "none" /\ e.required < 1)
          THEN Requests!Return(Requests!Cancel(e), Requests!Success(e))
          ELSE e
  BY <1>1 DEF Requests!ParallelAction, Requests!Fail
<1>8. CASE i <= p.required /\ v = 0
  <2>1. Requests!Failure \in Verdict /\ ~ Requests!Failure.ok
    BY EmptySeq DEF Requests!Failure, Verdict
  <2>2. i \in 1 .. p.required /\ e.answer[i] = 0
    BY <1>0, <1>4, <1>8
  <2>3. Told(p, e, Requests!Failure)
    BY <2>1, <2>2 DEF Told
  <2>4. a = Requests!Return(Requests!Cancel(e), Requests!Failure)
    BY <1>7, <1>8
  <2>5. e \in CallType
    BY <1>2
  <2>6. CallInv(p, a) /\ ~ a.live /\ a.out # <<>> /\ a.aborted = e.aborted
    BY ONLY p \in Requests!Plans, ~ Throws, <2>5, <1>5, <2>3, <2>4, Stops
  <2> QED BY <1>5, <2>6
<1>9. CASE ~ (i <= p.required /\ v = 0)
  <2>1. Undecided(p, e)
    <3>1. ASSUME NEW j \in 1 .. p.required, e.ran[j] = "done" PROVE e.answer[j] = j
      <4>1. j \in 1 .. Size
        BY <1>0, RequestsAssumption
      <4>2. CASE j = i
        BY <1>4, <1>9, <4>2
      <4>3. CASE j # i
        BY <1>4, <3>1, <4>1, <4>3 DEF Undecided
      <4> QED BY <4>2, <4>3
    <3> QED BY <3>1 DEF Undecided
  <2>2. CASE e.pending < 1 \/ (time_option = "none" /\ e.required < 1)
    <3>1. Told(p, e, Requests!Success(e))
      BY <1>2, <1>3, <2>1, <2>2, GatheredTold
    <3>2. a = Requests!Return(Requests!Cancel(e), Requests!Success(e))
      BY <1>7, <1>9, <2>2
    <3>3. e \in CallType
      BY <1>2
    <3>4. CallInv(p, a) /\ ~ a.live /\ a.out # <<>> /\ a.aborted = e.aborted
      BY ONLY p \in Requests!Plans, ~ Throws, <3>3, <1>5, <3>1, <3>2, Stops
    <3> QED BY <1>5, <3>4
  <2>3. CASE ~ (e.pending < 1 \/ (time_option = "none" /\ e.required < 1))
    <3>1. a = e
      BY <1>7, <1>9, <2>3
    <3>2. p.factory = "sequence" => v = i
      BY <1>0, <1>9, PlanFacts DEF Total
    <3>3. a.tasks = s.tasks /\ a.next = s.next
      BY <1>2, <3>1 DEF Answering
    <3> QED BY <1>2, <1>3, <2>1, <3>1, <3>2, <3>3
  <2> QED BY <2>2, <2>3
<1> QED BY <1>8, <1>9
(* The action of race and fallback.                                        *)
LEMMA RaceActed ==
  ASSUME NEW p \in Requests!Plans, p = plan, ~ Throws, ~ Gathers(p),
         NEW s \in CallType, Counted(p, s), Undecided(p, s), Throttled(p, s),
         NEW i \in Active(p, s), NEW v \in {i, 0}, NEW d, Answering(s, d, i, v),
         d.results = s.results, d.pending = s.pending, d.required = s.required,
         NEW a, a = Requests!RaceAction(d, v, i)
  PROVE  \/ CallInv(p, a) /\ ~ a.live /\ a.out # <<>> /\ ~ a.aborted
         \/ /\ a \in CallType /\ Counted(p, a) /\ Undecided(p, a)
            /\ a.ran = d.ran /\ a.tasks = s.tasks /\ a.next = s.next
<1>0. /\ d \in CallType /\ i \in 1 .. Total(p) /\ i \in 1 .. Size /\ Total(p) \in 0 .. Size /\ Size \in Nat
      /\ s.ran[i] = "running" /\ s.next \in Nat \ {0} /\ i # 0
  <2>1. s.next \in Nat \ {0}
    BY CallFields
  <2> QED BY <2>1, PlanFacts DEF Active, Answering
<1>1. PICK e : e = [d EXCEPT !.pending = @ - 1]
  OBVIOUS
<1>2. /\ e \in CallType /\ Answering(s, e, i, v) /\ e.pending = s.pending - 1 /\ e.ran = d.ran
  <2>1. d.pending \in Int
    BY <1>0, CallFields
  <2>2. PICK m \in Int : m = d.pending - 1
    BY <2>1
  <2>3. e = [d EXCEPT !.pending = m]
    BY <1>0, <1>1, <2>2 DEF CallType
  <2>4. /\ e \in CallType /\ e.pending = m
        /\ e.ran = d.ran /\ e.answer = d.answer
        /\ e.live = d.live /\ e.next = d.next /\ e.tasks = d.tasks /\ e.timer = d.timer
        /\ e.cancels = d.cancels /\ e.out = d.out /\ e.input = d.input
        /\ e.expired = d.expired /\ e.aborted = d.aborted
    BY <1>0, <2>3 DEF CallType
  <2> QED BY <2>2, <2>4 DEF Answering
<1>3. Counted(p, e)
  BY <1>2, CountedOn
<1>4. /\ e.ran[i] = "done" /\ e.answer[i] = v
      /\ \A j \in 1 .. Size : j # i => e.ran[j] = s.ran[j] /\ e.answer[j] = s.answer[j]
  BY <1>2 DEF Answering
<1>5. e.live /\ e.out = <<>> /\ ~ e.aborted
  BY <1>3 DEF Counted
<1>7. a = IF v # 0 THEN Requests!Return(Requests!Cancel(e), [ok |-> TRUE, value |-> <<v>>])
          ELSE IF e.pending < 1 THEN Requests!Return(Requests!Cancel(e), Requests!Failure)
          ELSE e
  BY <1>1 DEF Requests!RaceAction, Requests!Fail
<1>e. e \in CallType
  BY <1>2
<1>8. CASE v # 0
  <2>1. v = i
    BY <1>8
  <2>2. PICK o : o = [ok |-> TRUE, value |-> <<v>>]
    OBVIOUS
  <2>3. o \in Verdict /\ o.ok /\ o.value = <<i>>
    <3>1. <<i>> \in Seq(Nat)
      BY <1>0
    <3> QED BY <2>1, <2>2, <3>1 DEF Verdict
  <2>4. ASSUME NEW j \in 1 .. Total(p) PROVE e.answer[j] = j <=> j = i
    <3>1. j \in 1 .. Size /\ j # 0 /\ j # Size + 2
      BY <1>0
    <3>2. CASE j # i
      <4>1. s.answer[j] = 0 \/ s.answer[j] = Size + 2
        BY <1>0, <3>1 DEF Counted, Undecided
      <4> QED BY <1>4, <3>1, <3>2, <4>1
    <3> QED BY <1>4, <2>1, <3>2
  <2>5. ASSUME p.factory = "fallback", NEW j \in 1 .. i - 1 PROVE e.answer[j] = 0
    <3>1. Active(p, s) \subseteq {s.next - 1}
      BY <2>5 DEF Throttled
    <3>2. i = s.next - 1
      BY <3>1
    <3>3. j \in 1 .. Total(p) /\ j \in 1 .. Size /\ j # i /\ j < s.next
      BY <1>0, <3>2
    <3>4. s.ran[j] = "waiting" <=> j >= s.next
      BY <3>3 DEF Counted
    <3>5. s.ran[j] # "waiting"
      BY <1>0, <3>3, <3>4
    <3>6. s.ran[j] # "running"
      BY <3>1, <3>2, <3>3 DEF Active
    <3>7. s.ran[j] = "done"
      <4>1. s.ran \in [1 .. Size -> {"waiting", "running", "done"}]
        BY CallFields
      <4> QED BY <3>3, <3>5, <3>6, <4>1
    <3> QED BY <1>4, <3>3, <3>7 DEF Undecided
  <2>6. Told(p, e, o)
    BY <1>0, <2>3, <2>4, <2>5 DEF Told, Gathers
  <2>7. a = Requests!Return(Requests!Cancel(e), o)
    BY <1>7, <1>8, <2>2
  <2>8. CallInv(p, a) /\ ~ a.live /\ a.out # <<>> /\ a.aborted = e.aborted
    BY <1>e, <1>5, <2>6, <2>7, Stops
  <2> QED BY <1>5, <2>8
<1>9. CASE v = 0
  <2>1. Undecided(p, e)
    <3>1. ASSUME NEW j \in 1 .. Total(p), e.ran[j] = "done" PROVE e.answer[j] = 0
      <4>1. j \in 1 .. Size
        BY <1>0
      <4> QED BY <1>4, <1>9, <3>1, <4>1 DEF Undecided
    <3> QED BY <3>1 DEF Undecided
  <2>2. CASE e.pending < 1
    <3>1. Requests!Failure \in Verdict /\ ~ Requests!Failure.ok
      BY EmptySeq DEF Requests!Failure, Verdict
    <3>2. \A j \in 1 .. Total(p) : e.ran[j] = "done"
      BY <1>3, <2>2, NoneLeft DEF Counted
    <3>3. Told(p, e, Requests!Failure)
      BY <2>1, <3>1, <3>2 DEF Told, Undecided
    <3>4. a = Requests!Return(Requests!Cancel(e), Requests!Failure)
      BY <1>7, <1>9, <2>2
    <3>5. CallInv(p, a) /\ ~ a.live /\ a.out # <<>> /\ a.aborted = e.aborted
      BY <1>e, <1>5, <3>3, <3>4, Stops
    <3> QED BY <1>5, <3>5
  <2>3. CASE ~ (e.pending < 1)
    <3>1. a = e
      BY <1>7, <1>9, <2>3
    <3>3. a.tasks = s.tasks /\ a.next = s.next
      BY <1>2, <3>1 DEF Answering
    <3> QED BY <1>2, <1>3, <2>1, <3>1, <3>3
  <2> QED BY <2>2, <2>3
<1> QED BY <1>8, <1>9

(* The action of a factory, on the answer of one of its requestors.        *)
LEMMA Acted ==
  ASSUME NEW p \in Requests!Plans, p = plan, ~ Throws, time_option \in {"none", "true", "false"},
         NEW s \in CallType, Counted(p, s), Undecided(p, s), Throttled(p, s),
         NEW i \in Active(p, s), NEW v \in {i, 0}, NEW d, Answering(s, d, i, v),
         d.results = s.results, d.pending = s.pending, d.required = s.required,
         NEW a, a = Requests!Action(d, v, i)
  PROVE  \/ CallInv(p, a) /\ ~ a.live /\ a.out # <<>> /\ ~ a.aborted
         \/ /\ a \in CallType /\ Counted(p, a) /\ Undecided(p, a)
            /\ a.ran = d.ran /\ a.tasks = s.tasks /\ a.next = s.next
            /\ p.factory = "sequence" => v = i
<1>1. CASE Gathers(p)
  <2>1. a = Requests!ParallelAction(d, v, i)
    BY <1>1 DEF Requests!Action, Gathers
  <2> QED BY <1>1, <2>1, GatherActed
<1>2. CASE ~ Gathers(p)
  <2>1. a = Requests!RaceAction(d, v, i)
    BY <1>2, PlanFacts DEF Requests!Action, Gathers
  <2> QED BY <1>2, <2>1, RaceActed DEF Gathers
<1> QED BY <1>1, <1>2

(* The task of the next start is put before or behind those there are.     *)
LEMMA OneTaskMore ==
  ASSUME NEW q \in Seq(Nat), NEW w \in Nat, NEW t, t = Append(q, w) \/ t = <<w>> \o q
  PROVE  t \in Seq(Nat) /\ Len(t) = Len(q) + 1 /\ (q = <<>> => t = <<w>>)
<1>1. <<w>> \in Seq(Nat) /\ Len(<<w>>) = 1 /\ Len(q) \in Nat
  OBVIOUS
<1>2. CASE t = Append(q, w)
  <2>1. t \in Seq(Nat) /\ Len(t) = Len(q) + 1
    BY <1>2, AppendProperties
  <2>2. Append(<<>>, w) = <<w>>
    OBVIOUS
  <2> QED BY <1>2, <2>1, <2>2
<1>3. CASE t = <<w>> \o q
  <2>1. t \in Seq(Nat) /\ Len(t) = Len(q) + 1
    BY <1>1, <1>3
  <2>2. q = <<>> => t = <<w>>
    BY <1>1, <1>3, ConcatEmptySeq
  <2> QED BY <2>1, <2>2
<1> QED BY <1>2, <1>3

(* The task of the next start comes with the end of a requestor.           *)
(* The tasks of a call after one was added; what the next requestor is     *)
(* given.                                                                  *)
Rescheduled(a, t) == [a EXCEPT !.tasks = t]
Feeds(p, i, w) ==
  p.factory \in {"fallback", "sequence"} => w = IF p.factory = "sequence" THEN i ELSE Size + 1
LEMMA NextScheduled ==
  ASSUME NEW p \in Requests!Plans, NEW s \in CallType, Counted(p, s), Throttled(p, s),
         NEW i \in Active(p, s),
         NEW a \in CallType, Counted(p, a), Undecided(p, a),
         a.ran[i] = "done", \A j \in 1 .. Size : j # i => a.ran[j] = s.ran[j],
         a.tasks = s.tasks, a.next = s.next,
         NEW w \in Nat, Feeds(p, i, w),
         NEW t \in Seq(Nat), Len(t) = Len(a.tasks) + 1, a.tasks = <<>> => t = <<w>>,
         NEW e, e = Rescheduled(a, t)
  PROVE  CallInv(p, e) /\ e.live /\ ~ e.aborted /\ e.out = <<>>
<1>1. s.tasks \in Seq(Nat) /\ s.next \in Nat \ {0}
  BY CallFields
<1>2. Len(s.tasks) \in Nat
  BY <1>1
<1>3. /\ e \in CallType /\ e.tasks = t /\ e.live = a.live /\ e.next = a.next /\ e.ran = a.ran /\ e.cancels = a.cancels
      /\ e.results = a.results /\ e.pending = a.pending /\ e.required = a.required /\ e.out = a.out
      /\ e.input = a.input /\ e.answer = a.answer /\ e.aborted = a.aborted
  BY DEF CallType, Rescheduled
<1>4. Open(p, e) = Open(p, a) /\ Due(p, e) = Due(p, a) /\ Active(p, e) = Active(p, a)
  BY <1>3 DEF Open, Due, Active
<1>5. Counted(p, e) /\ Undecided(p, e)
  BY <1>3, <1>4 DEF Counted, Undecided
<1>6. Active(p, a) = Active(p, s) \ {i} /\ Cardinality(Active(p, a)) = Cardinality(Active(p, s)) - 1
  BY OneLess
<1>7. Cardinality(Active(p, s)) \in Nat
  BY FewRequestors
<1>8. Cardinality(Active(p, e)) + Len(e.tasks) <= Most(p)
  <2>1. Cardinality(Active(p, e)) + Len(e.tasks) = Cardinality(Active(p, s)) + Len(s.tasks)
    <3>1. Len(e.tasks) = Len(s.tasks) + 1 /\ Len(s.tasks) \in Nat
      BY <1>2, <1>3
    <3>2. Cardinality(Active(p, e)) = Cardinality(Active(p, s)) - 1
      BY <1>4, <1>6
    <3> QED BY <1>7, <3>1, <3>2
  <2> QED BY <2>1 DEF Throttled
<1>9. ASSUME p.factory \in {"fallback", "sequence"} PROVE e.tasks = <<Given(p, e)>> /\ Active(p, e) = {}
  <2>1. s.tasks = <<>> /\ Active(p, s) \subseteq {s.next - 1}
    BY <1>9 DEF Throttled
  <2>2. i = s.next - 1 /\ Active(p, e) = {}
    BY <1>4, <1>6, <2>1
  <2>3. i > 0
    BY DEF Active
  <2>4. Given(p, e) = w
    BY <1>1, <1>3, <1>9, <2>2, <2>3 DEF Given, Feeds
  <2> QED BY <1>3, <2>1, <2>2, <2>4
<1>10. Throttled(p, e)
  BY <1>8, <1>9 DEF Throttled
<1> QED BY <1>3, <1>5, <1>10 DEF CallInv, Counted
(* An answer, whether it comes before its requestor returns or later.      *)
(* A step after which the call goes on, unless its callback was called; a  *)
(* requestor that was started.                                             *)
Moved(s, a) ==
  /\ a.aborted = s.aborted /\ a.threw = FALSE
  /\ a = s \/ (s.live /\ (a.live <=> a.out = <<>>))
Begun(p, s, i) == i \in 1 .. Total(p) /\ s.ran[i] # "waiting"
LEMMA AnsweredKept ==
  ASSUME NEW p \in Requests!Plans, p = plan, ~ Throws, time_option \in {"none", "true", "false"},
         NEW s, CallInv(p, s), NEW i, Begun(p, s, i), NEW v \in {i, 0},
         NEW a, a = Requests!Answered(s, v, i)
  PROVE  CallInv(p, a) /\ Moved(s, a)
<1>0. s \in CallType /\ i \in 1 .. Size /\ Total(p) \in 0 .. Size /\ Size \in Nat /\ v \in Nat
  BY PlanFacts DEF CallInv, Begun
<1>1. /\ s.ran \in [1 .. Size -> {"waiting", "running", "done"}] /\ s.answer \in [1 .. Size -> Nat]
      /\ s.live \in BOOLEAN /\ s.tasks \in Seq(Nat) /\ s.threw = FALSE
  BY <1>0, CallFields
<1>2. PICK f : f = [s.answer EXCEPT ![i] = IF s.live /\ @ = Size + 2 THEN v ELSE @]
  OBVIOUS
<1>3. f \in [1 .. Size -> Nat] /\ f[i] = (IF s.live /\ s.answer[i] = Size + 2 THEN v ELSE s.answer[i])
      /\ \A j \in 1 .. Size : j # i => f[j] = s.answer[j]
  BY <1>0, <1>1, <1>2
<1>4. PICK b : b = [s EXCEPT !.answer = f]
  OBVIOUS
<1>5. a = Requests!Callback(b, v, i)
  <2>1. b = [s EXCEPT !.answer[i] = IF s.live /\ @ = Requests!Unanswered THEN v ELSE @]
    BY <1>0, <1>2, <1>4 DEF Requests!Unanswered, CallType
  <2> QED BY <2>1 DEF Requests!Answered
<1>6. /\ b \in CallType /\ b.live = s.live /\ b.ran = s.ran /\ b.answer = f
      /\ b.next = s.next /\ b.tasks = s.tasks /\ b.timer = s.timer
      /\ b.cancels = s.cancels /\ b.out = s.out /\ b.input = s.input
      /\ b.expired = s.expired /\ b.aborted = s.aborted
      /\ b.results = s.results /\ b.pending = s.pending /\ b.required = s.required
  BY <1>0, <1>3, <1>4 DEF CallType
<1>7. CASE ~ (s.live /\ s.ran[i] = "running")
  <2>1. f = s.answer
    <3>1. ASSUME s.live PROVE s.answer[i] # Size + 2
      <4>1. s.ran[i] = "done" /\ Counted(p, s)
        BY <1>0, <1>1, <1>7, <3>1 DEF CallInv, Stopped, Begun
      <4> QED BY <1>0, <4>1 DEF Counted
    <3>2. f[i] = s.answer[i]
      BY <1>3, <3>1
    <3>3. \A j \in 1 .. Size : f[j] = s.answer[j]
      BY <1>3, <3>2
    <3>4. f \in [1 .. Size -> Nat] /\ s.answer \in [1 .. Size -> Nat]
      BY <1>1, <1>3
    <3> QED BY <3>3, <3>4, RequestsAssumption
  <2>2. b = s
    BY <1>0, <1>4, <2>1 DEF CallType
  <2>3. a = s
    BY <1>5, <1>7, <2>2 DEF Requests!Callback
  <2> QED BY <1>1, <2>3 DEF Moved
<1>8. CASE s.live /\ s.ran[i] = "running"
  <2>1. Counted(p, s) /\ Undecided(p, s) /\ Throttled(p, s) /\ i \in Active(p, s) /\ ~ s.aborted /\ s.out = <<>>
    BY <1>0, <1>8 DEF CallInv, Stopped, Counted, Active
  <2>2. f[i] = v
    BY <1>0, <1>3, <1>8, <2>1 DEF Counted
  <2>3. PICK g : g = [b.ran EXCEPT ![i] = "done"]
    OBVIOUS
  <2>4. /\ g \in [1 .. Size -> {"waiting", "running", "done"}] /\ g[i] = "done"
        /\ \A j \in 1 .. Size : j # i => g[j] = s.ran[j]
    BY <1>0, <1>1, <1>6, <2>3
  <2>5. PICK d : d = [b EXCEPT !.ran = g]
    OBVIOUS
  <2>6. d = [b EXCEPT !.ran[i] = "done"]
    BY <2>3, <2>5
  <2>7. /\ d \in CallType /\ d.live = s.live /\ d.ran = g /\ d.answer = f
        /\ d.next = s.next /\ d.tasks = s.tasks /\ d.timer = s.timer
        /\ d.cancels = s.cancels /\ d.out = s.out /\ d.input = s.input
        /\ d.expired = s.expired /\ d.aborted = s.aborted
        /\ d.results = s.results /\ d.pending = s.pending /\ d.required = s.required
    BY <1>6, <2>4, <2>5 DEF CallType
  <2>8. Answering(s, d, i, v)
    BY <1>3, <2>2, <2>4, <2>7 DEF Answering
  <2>9. PICK c : c = Requests!Action(d, v, i)
    OBVIOUS
  <2>10. \/ CallInv(p, c) /\ ~ c.live /\ c.out # <<>> /\ ~ c.aborted
         \/ /\ c \in CallType /\ Counted(p, c) /\ Undecided(p, c)
            /\ c.ran = d.ran /\ c.tasks = s.tasks /\ c.next = s.next
            /\ p.factory = "sequence" => v = i
    BY <1>0, <2>1, <2>7, <2>8, <2>9, Acted
  <2>11. c \in CallType /\ c.threw = FALSE /\ c.live \in BOOLEAN /\ c.aborted \in BOOLEAN /\ s.aborted \in BOOLEAN
    <3>1. c \in CallType
      BY <2>10 DEF CallInv
    <3> QED BY <1>0, <3>1, CallFields
  <2>12. a = IF c.live THEN [c EXCEPT !.tasks = Append(@, Requests!NextInput(v))] ELSE c
    BY <1>5, <1>6, <1>8, <2>6, <2>9, <2>11 DEF Requests!Callback
  <2>13. CASE ~ c.live
    <3>1. a = c
      BY <2>12, <2>13
    <3>2. CallInv(p, c) /\ c.out # <<>> /\ ~ c.aborted
      BY <2>10, <2>13 DEF Counted
    <3> QED BY <1>8, <2>1, <2>11, <2>13, <3>1, <3>2 DEF Moved
  <2>14. CASE c.live
    <3>1. /\ c \in CallType /\ Counted(p, c) /\ Undecided(p, c)
          /\ c.ran = d.ran /\ c.tasks = s.tasks /\ c.next = s.next
          /\ p.factory = "sequence" => v = i
      BY <2>10, <2>14
    <3>2. PICK w : w = Requests!NextInput(v)
      OBVIOUS
    <3>3. w \in Nat /\ w = IF p.factory = "sequence" THEN i ELSE Size + 1
      BY <1>0, <3>1, <3>2 DEF Requests!NextInput, Requests!Input
    <3>9. Feeds(p, i, w)
      BY <3>3 DEF Feeds
    <3>4. PICK t : t = Append(c.tasks, w)
      OBVIOUS
    <3>5. a = Rescheduled(c, t)
      BY <2>12, <2>14, <3>2, <3>4, <3>1 DEF CallType, Rescheduled
    <3>6. c.ran[i] = "done" /\ \A j \in 1 .. Size : j # i => c.ran[j] = s.ran[j]
      BY <2>4, <2>7, <3>1
    <3>7. CallInv(p, a) /\ a.live /\ ~ a.aborted /\ a.out = <<>>
      <4>1. t \in Seq(Nat) /\ Len(t) = Len(c.tasks) + 1 /\ (c.tasks = <<>> => t = <<w>>)
        BY <1>1, <3>1, <3>3, <3>4, OneTaskMore
      <4>2. w \in Nat /\ i \in Active(p, s)
        BY <2>1, <3>3
      <4> QED BY <1>0, <2>1, <3>1, <3>5, <3>6, <3>9, <4>1, <4>2, NextScheduled
    <3>8. a.threw = FALSE /\ a.live \in BOOLEAN /\ a.aborted \in BOOLEAN
      BY <3>7, CallFields DEF CallInv
    <3> QED BY <1>8, <2>1, <2>11, <3>7, <3>8 DEF Moved
  <2> QED BY <2>13, <2>14
<1> QED BY <1>7, <1>8
(* A requestor is started with the value of the first task.                *)
Taking(s) == [s EXCEPT !.tasks = Tail(@), !.next = @ + 1, !.ran[s.next] = "running",
                       !.input[s.next] = Head(s.tasks)]
LEMMA Taken ==
  ASSUME NEW p \in Requests!Plans, NEW s, CallInv(p, s), s.tasks # <<>>, s.next <= Total(p),
         NEW e, e = Taking(s)
  PROVE  /\ CallInv(p, e) /\ Counted(p, e) /\ Undecided(p, e) /\ Throttled(p, e)
         /\ s.live /\ s.next \in Active(p, e) /\ Head(s.tasks) \in Nat
         /\ e.ran[s.next] = "running" /\ e.answer[s.next] = Size + 2
         /\ p.factory = "fallback" => Head(s.tasks) = Size + 1
<1>1. s \in CallType /\ Counted(p, s) /\ Undecided(p, s) /\ Throttled(p, s)
  BY DEF CallInv, Stopped
<1>2. /\ s.next \in Nat \ {0} /\ s.tasks \in Seq(Nat)
      /\ s.ran \in [1 .. Size -> {"waiting", "running", "done"}] /\ s.input \in [1 .. Size -> Nat]
      /\ s.answer \in [1 .. Size -> Nat] /\ s.results \in [1 .. Size -> Nat]
  BY <1>1, CallFields
<1>3. PICK i : i = s.next
  OBVIOUS
<1>4. /\ i \in 1 .. Total(p) /\ i \in 1 .. Size /\ Total(p) \in 0 .. Size
      /\ Size \in Nat /\ p.required \in Nat /\ p.required <= Total(p)
  BY <1>2, <1>3, PlanFacts
<1>5. Head(s.tasks) \in Nat /\ Tail(s.tasks) \in Seq(Nat) /\ Len(Tail(s.tasks)) = Len(s.tasks) - 1 /\ Len(s.tasks) \in Nat
  BY <1>2, HeadTailProperties
<1>6. PICK f : f = [s.ran EXCEPT ![i] = "running"]
  OBVIOUS
<1>7. PICK g : g = [s.input EXCEPT ![i] = Head(s.tasks)]
  OBVIOUS
<1>8. /\ f \in [1 .. Size -> {"waiting", "running", "done"}] /\ f[i] = "running"
      /\ \A j \in 1 .. Size : j # i => f[j] = s.ran[j]
  BY <1>2, <1>4, <1>6
<1>9. /\ g \in [1 .. Size -> Nat] /\ g[i] = Head(s.tasks)
      /\ \A j \in 1 .. Size : j # i => g[j] = s.input[j]
  BY <1>2, <1>4, <1>5, <1>7
<1>10. PICK t \in Seq(Nat) : t = Tail(s.tasks)
  BY <1>5
<1>11. e = [s EXCEPT !.tasks = t, !.next = i + 1, !.ran = f, !.input = g]
  BY <1>1, <1>3, <1>6, <1>7, <1>10 DEF CallType, Taking
<1>12. /\ e \in CallType /\ e.tasks = t /\ e.next = i + 1 /\ e.ran = f /\ e.input = g
       /\ e.live = s.live /\ e.cancels = s.cancels /\ e.out = s.out
       /\ e.answer = s.answer /\ e.expired = s.expired /\ e.aborted = s.aborted
       /\ e.results = s.results /\ e.pending = s.pending /\ e.required = s.required
  <2>1. i + 1 \in Nat \ {0}
    BY <1>4
  <2> QED BY <1>1, <1>8, <1>9, <1>11, <2>1, ZenonT(60) DEF CallType
<1>13. s.ran[i] = "waiting" /\ s.answer[i] = Size + 2 /\ (Gathers(p) => s.results[i] = 0)
  <2>1. s.ran[i] = "waiting"
    BY <1>1, <1>3, <1>4 DEF Counted
  <2> QED BY <1>1, <1>4, <2>1 DEF Counted
<1>14. Open(p, e) = Open(p, s) /\ Due(p, e) = Due(p, s) /\ Active(p, e) = Active(p, s) \cup {i} /\ i \notin Active(p, s)
  <2>1. \A j \in 1 .. Total(p) : j \in 1 .. Size
    BY <1>4
  <2>2. \A j \in 1 .. p.required : j \in 1 .. Size
    BY <1>4
  <2>3. \A j \in 1 .. Size : e.ran[j] # "done" <=> s.ran[j] # "done"
    BY <1>8, <1>12, <1>13
  <2>4. \A j \in 1 .. Size : e.ran[j] = "running" <=> s.ran[j] = "running" \/ j = i
    BY <1>8, <1>12, <1>13
  <2>5. Open(p, e) = Open(p, s)
    BY <2>1, <2>3 DEF Open
  <2>6. Due(p, e) = Due(p, s)
    BY <2>2, <2>3 DEF Due
  <2>7. Active(p, e) = Active(p, s) \cup {i} /\ i \notin Active(p, s)
    BY <1>4, <1>13, <2>1, <2>4 DEF Active
  <2> QED BY <2>5, <2>6, <2>7
<1>15. p.factory \in {"fallback", "sequence"} => s.tasks = <<Given(p, s)>> /\ Active(p, s) = {}
  BY <1>1 DEF Throttled
<1>16. p.factory \in {"fallback", "sequence"} => Head(s.tasks) = Given(p, s) /\ t = <<>>
  <2>1. \A x : Head(<<x>>) = x /\ Tail(<<x>>) = <<>>
    OBVIOUS
  <2> QED BY <1>10, <1>15, <2>1
<1>17. Counted(p, e)
  <2>1. /\ e.live /\ e.out = <<>> /\ ~ e.aborted /\ Total(p) > 0
        /\ e.pending = Cardinality(Open(p, e)) /\ (Gathers(p) => e.required = Cardinality(Due(p, e)))
        /\ e.next \in 1 .. Total(p) + 1
    BY <1>1, <1>4, <1>12, <1>14 DEF Counted
  <2>2. ASSUME NEW j \in 1 .. Size
        PROVE  /\ e.ran[j] = "waiting" <=> j >= e.next
               /\ e.answer[j] = IF e.ran[j] = "done" THEN e.answer[j] ELSE Size + 2
               /\ e.ran[j] = "done" => e.answer[j] \in {j, 0}
               /\ Gathers(p) => e.results[j] = IF e.ran[j] = "done" THEN e.answer[j] ELSE 0
    <3>1. CASE j = i
      BY <1>4, <1>8, <1>12, <1>13, <3>1
    <3>2. CASE j # i
      <4>1. e.ran[j] = s.ran[j] /\ e.answer[j] = s.answer[j] /\ e.results[j] = s.results[j]
        BY <1>8, <1>12, <3>2
      <4>2. j >= i <=> j >= e.next
        BY <1>4, <1>12, <3>2
      <4> QED BY <1>1, <1>3, <4>1, <4>2 DEF Counted
    <3> QED BY <3>1, <3>2
  <2>3. ASSUME p.factory = "sequence", NEW j \in 1 .. e.next - 1 PROVE e.input[j] = IF j = 1 THEN Size + 1 ELSE j - 1
    <3>1. j \in 1 .. i /\ j \in 1 .. Size
      BY <1>4, <1>12
    <3>2. CASE j = i
      BY <1>3, <1>4, <1>9, <1>12, <1>16, <2>3, <3>2 DEF Given
    <3>3. CASE j # i
      <4>1. j \in 1 .. s.next - 1
        BY <1>3, <1>4, <3>1, <3>3
      <4>2. e.input[j] = s.input[j]
        BY <1>9, <1>12, <3>1, <3>3
      <4> QED BY <1>1, <2>3, <4>1, <4>2 DEF Counted
    <3> QED BY <3>2, <3>3
  <2> QED BY <2>1, <2>2, <2>3 DEF Counted
<1>18. Undecided(p, e)
  <2>1. ASSUME NEW j \in 1 .. Total(p), e.ran[j] = "done" PROVE s.ran[j] = "done" /\ e.answer[j] = s.answer[j]
    <3>1. j \in 1 .. Size
      BY <1>4
    <3> QED BY <1>8, <1>12, <2>1, <3>1
  <2>2. \A j \in 1 .. p.required : j \in 1 .. Total(p)
    BY <1>4
  <2> QED BY <1>1, <2>1, <2>2 DEF Undecided
<1>19. Throttled(p, e)
  <2>1. IsFiniteSet(Active(p, s)) /\ Cardinality(Active(p, s)) \in Nat
    BY FewRequestors
  <2>2. Cardinality(Active(p, e)) = Cardinality(Active(p, s)) + 1
    BY <1>14, <2>1, FS_AddElement
  <2>3. Cardinality(Active(p, e)) + Len(e.tasks) = Cardinality(Active(p, s)) + Len(s.tasks)
    BY <1>5, <1>10, <1>12, <2>1, <2>2
  <2>4. p.factory \in {"fallback", "sequence"} => e.tasks = <<>> /\ Active(p, e) \subseteq {e.next - 1}
    BY <1>4, <1>12, <1>14, <1>15, <1>16
  <2> QED BY <1>1, <2>3, <2>4 DEF Throttled
<1>20. s.live /\ i \in Active(p, e) /\ (p.factory = "fallback" => Head(s.tasks) = Size + 1)
  BY <1>1, <1>14, <1>16 DEF Counted, Given
<1> QED BY <1>3, <1>5, <1>8, <1>12, <1>13, <1>17, <1>18, <1>19, <1>20 DEF CallInv

(* There is no requestor left to start.                                    *)
Dropping(s) == [s EXCEPT !.tasks = Tail(@)]
LEMMA Dropped ==
  ASSUME NEW p \in Requests!Plans, NEW s, CallInv(p, s), s.tasks # <<>>,
         NEW e, e = Dropping(s)
  PROVE  CallInv(p, e) /\ e.live = s.live /\ e.out = s.out /\ e.aborted = s.aborted
<1>1. s \in CallType /\ Counted(p, s) /\ Undecided(p, s) /\ Throttled(p, s)
  BY DEF CallInv, Stopped
<1>2. s.tasks \in Seq(Nat)
  BY <1>1, CallFields
<1>3. Tail(s.tasks) \in Seq(Nat) /\ Len(Tail(s.tasks)) = Len(s.tasks) - 1 /\ Len(s.tasks) \in Nat
  BY <1>2, HeadTailProperties
<1>4. PICK t \in Seq(Nat) : t = Tail(s.tasks)
  BY <1>3
<1>5. e = [s EXCEPT !.tasks = t]
  BY <1>1, <1>4 DEF CallType, Dropping
<1>6. /\ e \in CallType /\ e.tasks = t /\ e.live = s.live /\ e.next = s.next /\ e.ran = s.ran /\ e.cancels = s.cancels
      /\ e.results = s.results /\ e.pending = s.pending /\ e.required = s.required /\ e.out = s.out
      /\ e.input = s.input /\ e.answer = s.answer /\ e.aborted = s.aborted
  BY <1>1, <1>5 DEF CallType
<1>7. Open(p, e) = Open(p, s) /\ Due(p, e) = Due(p, s) /\ Active(p, e) = Active(p, s)
  BY <1>6 DEF Open, Due, Active
<1>8. Counted(p, e) /\ Undecided(p, e)
  <2>1. Counted(p, e)
    BY <1>1, <1>6, <1>7, ZenonT(60) DEF Counted
  <2>2. Undecided(p, e)
    BY <1>1, <1>6, <1>7 DEF Undecided
  <2> QED BY <2>1, <2>2
<1>9. p.factory \in {"fallback", "sequence"} => t = <<>> /\ Active(p, s) = {}
  <2>1. \A x : Tail(<<x>>) = <<>>
    OBVIOUS
  <2> QED BY <1>1, <1>4, <2>1 DEF Throttled
<1>10. Cardinality(Active(p, s)) \in Nat
  BY FewRequestors
<1>11. Cardinality(Active(p, e)) + Len(e.tasks) <= Most(p)
  <2>1. Most(p) \in Nat
    BY PlanFacts DEF Most
  <2>2. Cardinality(Active(p, s)) + Len(s.tasks) <= Most(p)
    BY <1>1 DEF Throttled
  <2>3. Len(e.tasks) = Len(s.tasks) - 1 /\ Active(p, e) = Active(p, s)
    BY <1>3, <1>4, <1>6, <1>7
  <2> QED BY <1>3, <1>10, <2>1, <2>2, <2>3
<1>12. Throttled(p, e)
  BY <1>6, <1>7, <1>9, <1>11 DEF Throttled
<1> QED BY <1>6, <1>8, <1>12 DEF CallInv
(* A requestor that throws has failed.                                     *)
Failing(s, i) == [s EXCEPT !.answer[i] = 0]
LEMMA CaughtKept ==
  ASSUME NEW p \in Requests!Plans, p = plan, ~ Throws, time_option \in {"none", "true", "false"},
         NEW s, CallInv(p, s), s.live, NEW i \in Active(p, s),
         NEW given \in Nat, p.factory = "fallback" => given = Size + 1,
         NEW a, a = Requests!Caught(Failing(s, i), given, i)
  PROVE  CallInv(p, a) /\ a.live \in BOOLEAN /\ ~ a.aborted /\ (a.live <=> a.out = <<>>)
<1>0. s \in CallType /\ i \in 1 .. Total(p) /\ i \in 1 .. Size /\ Total(p) \in 0 .. Size /\ Size \in Nat /\ 0 \in {i, 0}
  BY PlanFacts DEF CallInv, Active
<1>1. /\ s.ran \in [1 .. Size -> {"waiting", "running", "done"}] /\ s.answer \in [1 .. Size -> Nat]
      /\ s.tasks \in Seq(Nat) /\ s.threw = FALSE
  BY <1>0, CallFields
<1>2. Counted(p, s) /\ Undecided(p, s) /\ Throttled(p, s) /\ ~ s.aborted /\ s.out = <<>>
  BY DEF CallInv, Stopped, Counted
<1>3. PICK f : f = [s.answer EXCEPT ![i] = 0]
  OBVIOUS
<1>4. PICK g : g = [s.ran EXCEPT ![i] = "done"]
  OBVIOUS
<1>5. /\ f \in [1 .. Size -> Nat] /\ f[i] = 0 /\ \A j \in 1 .. Size : j # i => f[j] = s.answer[j]
  BY <1>0, <1>1, <1>3
<1>6. /\ g \in [1 .. Size -> {"waiting", "running", "done"}] /\ g[i] = "done"
      /\ \A j \in 1 .. Size : j # i => g[j] = s.ran[j]
  BY <1>0, <1>1, <1>4
<1>7. PICK d : d = [s EXCEPT !.answer = f, !.threw = FALSE, !.ran = g]
  OBVIOUS
<1>8. d = [Failing(s, i) EXCEPT !.threw = FALSE, !.ran[i] = "done"]
  BY <1>0, <1>3, <1>4, <1>7 DEF Failing, CallType
<1>9. /\ d \in CallType /\ d.live = s.live /\ d.ran = g /\ d.answer = f
      /\ d.next = s.next /\ d.tasks = s.tasks /\ d.timer = s.timer
      /\ d.cancels = s.cancels /\ d.out = s.out /\ d.input = s.input
      /\ d.expired = s.expired /\ d.aborted = s.aborted
      /\ d.results = s.results /\ d.pending = s.pending /\ d.required = s.required
  BY <1>0, <1>5, <1>6, <1>7 DEF CallType
<1>10. Answering(s, d, i, 0)
  BY <1>5, <1>6, <1>9 DEF Answering
<1>11. PICK c : c = Requests!Action(d, 0, i)
  OBVIOUS
<1>12. \/ CallInv(p, c) /\ ~ c.live /\ c.out # <<>> /\ ~ c.aborted
       \/ /\ c \in CallType /\ Counted(p, c) /\ Undecided(p, c)
          /\ c.ran = d.ran /\ c.tasks = s.tasks /\ c.next = s.next
          /\ p.factory = "sequence" => 0 = i
  BY <1>0, <1>2, <1>9, <1>10, <1>11, Acted
<1>13. c \in CallType /\ c.live \in BOOLEAN
  <2>1. c \in CallType
    BY <1>12 DEF CallInv
  <2> QED BY <2>1, CallFields
<1>14. a = IF c.live THEN [c EXCEPT !.tasks = <<given>> \o @] ELSE c
  BY <1>8, <1>11 DEF Requests!Caught, Requests!Fail
<1>15. CASE ~ c.live
  BY <1>12, <1>13, <1>14, <1>15 DEF Counted
<1>16. CASE c.live
  <2>1. /\ c \in CallType /\ Counted(p, c) /\ Undecided(p, c)
        /\ c.ran = d.ran /\ c.tasks = s.tasks /\ c.next = s.next
        /\ p.factory # "sequence"
    BY <1>0, <1>12, <1>16
  <2>2. Feeds(p, i, given)
    BY <2>1 DEF Feeds
  <2>3. PICK t : t = <<given>> \o c.tasks
    OBVIOUS
  <2>4. a = Rescheduled(c, t)
    BY <1>14, <1>16, <2>1, <2>3 DEF CallType, Rescheduled
  <2>5. c.ran[i] = "done" /\ \A j \in 1 .. Size : j # i => c.ran[j] = s.ran[j]
    BY <1>6, <1>9, <2>1
  <2>6. CallInv(p, a) /\ a.live /\ ~ a.aborted /\ a.out = <<>>
    <3>1. t \in Seq(Nat) /\ Len(t) = Len(c.tasks) + 1 /\ (c.tasks = <<>> => t = <<given>>)
      BY <1>1, <2>1, <2>3, OneTaskMore
    <3> QED BY <1>0, <1>2, <2>1, <2>2, <2>4, <2>5, <3>1, NextScheduled, ZenonT(60)
  <2>7. a.live \in BOOLEAN
    BY <2>6, CallFields DEF CallInv
  <2> QED BY <2>6, <2>7
<1> QED BY <1>15, <1>16

(* The time limit ends the call, or the time option forgets it.            *)
LEMMA TimeoutKept ==
  ASSUME NEW p \in Requests!Plans, p = plan, ~ Throws, time_option \in {"none", "true", "false"},
         p.factory # "parallel" => time_option = "none",
         CallInv(p, r), Requests!Timeout
  PROVE  /\ CallInv(p, r') /\ r.live /\ ~ r'.aborted /\ r'.live \in BOOLEAN /\ (r'.live <=> r'.out = <<>>)
         /\ time_option' \in {"none", time_option}
<1>1. PICK s : s = r
  OBVIOUS
<1>2. PICK e : e = [s EXCEPT !.timer = FALSE, !.expired = TRUE]
  OBVIOUS
<1>3. /\ s.timer
      /\ r' = IF time_option = "false"
              THEN IF e.required < 1 THEN Requests!Return(Requests!Cancel(e), Requests!Success(e)) ELSE e
              ELSE Requests!Return(Requests!Cancel(e),
                          IF p.factory \in {"parallel", "sequence"} /\ e.required < 1
                          THEN Requests!Success(e) ELSE Requests!Failure)
      /\ time_option' \in {"none", time_option}
  BY <1>1, <1>2 DEF Requests!Timeout
<1>4. s \in CallType /\ Counted(p, s) /\ Undecided(p, s) /\ Throttled(p, s)
  BY <1>1, <1>3 DEF CallInv, Stopped
<1>5. /\ e \in CallType /\ e.tasks = s.tasks /\ e.live = s.live /\ e.next = s.next /\ e.ran = s.ran /\ e.cancels = s.cancels
      /\ e.results = s.results /\ e.pending = s.pending /\ e.required = s.required /\ e.out = s.out
      /\ e.input = s.input /\ e.answer = s.answer /\ e.aborted = s.aborted /\ e.expired
  BY <1>2, <1>4 DEF CallType
<1>6. Open(p, e) = Open(p, s) /\ Due(p, e) = Due(p, s) /\ Active(p, e) = Active(p, s)
  BY <1>5 DEF Open, Due, Active
<1>7. Counted(p, e) /\ Undecided(p, e)
  BY <1>4, <1>5, <1>6 DEF Counted, Undecided
<1>8. e.live /\ ~ e.aborted /\ e.out = <<>>
  BY <1>7 DEF Counted
<1>9. Throttled(p, e)
  <2>1. Given(p, e) = Given(p, s)
    BY <1>5 DEF Given
  <2> QED BY <1>4, <1>5, <1>6, <2>1 DEF Throttled
<1>11. CASE time_option = "false" /\ ~ (e.required < 1)
  <2>1. r' = e
    BY <1>3, <1>11
  <2> QED BY <1>1, <1>3, <1>5, <1>7, <1>8, <1>9, <2>1 DEF CallInv
<1>12. ASSUME NEW o, Told(p, e, o), r' = Requests!Return(Requests!Cancel(e), o)
       PROVE  CallInv(p, r') /\ r.live /\ ~ r'.aborted /\ r'.live \in BOOLEAN /\ (r'.live <=> r'.out = <<>>)
  <2>1. PICK c : c = r'
    OBVIOUS
  <2>2. CallInv(p, c) /\ ~ c.live /\ c.out # <<>> /\ c.aborted = e.aborted
    BY <1>5, <1>8, <1>12, <2>1, Stops
  <2>3. c.live \in BOOLEAN
    BY <2>2, CallFields DEF CallInv
  <2> QED BY <1>1, <1>5, <1>8, <2>1, <2>2, <2>3
<1>13. CASE Gathers(p) /\ e.required < 1
  <2>1. Told(p, e, Requests!Success(e))
    BY <1>5, <1>7, <1>13, GatheredTold
  <2>2. r' = Requests!Return(Requests!Cancel(e), Requests!Success(e))
    BY <1>3, <1>13 DEF Gathers
  <2> QED BY <1>3, <1>12, <2>1, <2>2
<1>14. CASE time_option # "false" /\ ~ (Gathers(p) /\ e.required < 1)
  <2>1. Requests!Failure \in Verdict /\ ~ Requests!Failure.ok
    BY EmptySeq DEF Requests!Failure, Verdict
  <2>2. Told(p, e, Requests!Failure)
    BY <1>5, <2>1 DEF Told
  <2>3. r' = Requests!Return(Requests!Cancel(e), Requests!Failure)
    BY <1>3, <1>14 DEF Gathers
  <2> QED BY <1>3, <1>12, <2>2, <2>3
<1>15. time_option = "false" => Gathers(p)
  BY DEF Gathers
<1> QED BY <1>11, <1>13, <1>14, <1>15
(* A call that has not begun.                                              *)
LEMMA IdleStopped ==
  ASSUME NEW p
  PROVE  /\ CallInv(p, Requests!Idle) /\ Requests!Idle.live = FALSE /\ Requests!Idle.out = <<>>
         /\ Requests!Idle.aborted = FALSE /\ Requests!Idle \in CallType
<1>1. PICK s : s = Requests!Idle
  OBVIOUS
<1>2. PICK f \in [1 .. Size -> {"waiting", "running", "done"}] : f = [i \in 1 .. Size |-> "waiting"]
  OBVIOUS
<1>3. PICK z \in [1 .. Size -> Nat] : z = [i \in 1 .. Size |-> 0]
  OBVIOUS
<1>4. PICK u \in [1 .. Size -> Nat] : u = [i \in 1 .. Size |-> Size + 2]
  <2>1. PICK n \in Nat : n = Size + 2
    BY RequestsAssumption
  <2> QED BY <2>1
<1>b. PICK b \in [1 .. Size -> BOOLEAN] : b = [i \in 1 .. Size |-> FALSE]
  OBVIOUS
<1>5. s = [live |-> FALSE, next |-> 1, tasks |-> <<>>, timer |-> FALSE, ran |-> f, early |-> b, cancels |-> z,
           results |-> z, pending |-> 0, required |-> 0, out |-> <<>>, threw |-> FALSE,
           input |-> z, answer |-> u, expired |-> FALSE, aborted |-> FALSE, spoilt |-> FALSE]
  BY <1>1, <1>2, <1>3, <1>4, <1>b DEF Requests!Idle, Requests!Fail, Requests!Unanswered
<1>6. <<>> \in Seq(Nat) /\ <<>> \in Seq(Verdict)
  BY EmptySeq
<1>7. s \in CallType
  BY <1>5, <1>6 DEF CallType
<1>10. s.live = FALSE /\ s.out = <<>> /\ s.aborted = FALSE /\ s.tasks = <<>> /\ ~ s.timer
  BY <1>5
<1>11. Stopped(p, s)
  BY <1>10 DEF Stopped
<1> QED BY <1>1, <1>7, <1>10, <1>11 DEF CallInv

(* The requestor is called.                                                *)
LEMMA CallKept ==
  ASSUME NEW p \in Requests!Plans, p = plan, ~ Throws, Requests!Call
  PROVE  CallInv(p, r') /\ ~ r'.aborted /\ r'.live \in BOOLEAN /\ (r'.live <=> r'.out = <<>>)
         /\ (r'.out # <<>> => \E o \in Verdict : o.ok /\ r'.out = <<o>>)
<1>0. /\ Total(p) \in 0 .. Size /\ Requests!N = Total(p) /\ Size \in Nat /\ p.limit \in BOOLEAN /\ p.required \in Nat
      /\ p.required <= Total(p) /\ p.throttle \in Nat
  BY PlanFacts DEF Requests!N, Total
<1>1. PICK s : s = Requests!Idle
  OBVIOUS
<1>2. /\ s \in CallType /\ CallInv(p, s) /\ ~ s.live /\ s.out = <<>> /\ ~ s.aborted
  BY <1>1, IdleStopped
<1>3. CASE Total(p) = 0
  <2>1. PICK o : o = [ok |-> TRUE, value |-> IF p.factory = "sequence" THEN <<Size + 1>> ELSE <<>>]
    OBVIOUS
  <2>2. o \in Verdict /\ o.ok
    <3>1. <<Size + 1>> \in Seq(Nat) /\ <<>> \in Seq(Nat)
      BY <1>0, EmptySeq
    <3> QED BY <2>1, <3>1 DEF Verdict
  <2>3. PICK c : c = r'
    OBVIOUS
  <2>4. c = Requests!Return(s, o)
    BY <1>0, <1>1, <1>3, <2>1, <2>3 DEF Requests!Call, Requests!Input
  <2>5. /\ c \in CallType /\ c.out = <<o>> /\ c.live = s.live /\ c.timer = s.timer /\ c.tasks = s.tasks
        /\ c.cancels = s.cancels /\ c.ran = s.ran /\ c.aborted = s.aborted
    BY <1>2, <2>2, <2>4, Returned
  <2>6. Told(p, c, o)
    <3>1. Gathers(p)
      BY <1>0, <1>3, PlanFacts DEF Total
    <3> QED BY <1>0, <1>3, <2>1, <2>2, <3>1 DEF Told
  <2>7. Stopped(p, s)
    BY <1>2 DEF CallInv, Counted
  <2>9. Stopped(p, c)
    BY <2>5, <2>6, <2>7 DEF Stopped
  <2>10. <<o>> # <<>> /\ c.live \in BOOLEAN
    BY <1>2, <2>5, CallFields
  <2> QED BY <1>2, <2>2, <2>3, <2>5, <2>9, <2>10 DEF CallInv
<1>4. CASE Total(p) > 0
  <2>1. PICK m : m = Most(p)
    OBVIOUS
  <2>2. m \in Nat /\ m > 0 /\ (p.throttle = 1 => m = 1)
    BY <1>0, <1>4, <2>1 DEF Most
  <2>3. PICK t : t = [k \in 1 .. m |-> Size + 1]
    OBVIOUS
  <2>4. t \in Seq(Nat) /\ Len(t) = m
    BY <1>0, <2>2, <2>3
  <2>5. p.factory \in {"fallback", "sequence"} => t = <<Size + 1>>
    <3>1. ASSUME p.factory \in {"fallback", "sequence"} PROVE m = 1
      BY <2>2, <3>1, PlanFacts
    <3>2. ASSUME m = 1 PROVE t = <<Size + 1>>
      <4>1. t[1] = Size + 1
        BY <2>3, <3>2
      <4>2. <<Size + 1>> \in Seq(Nat) /\ Len(<<Size + 1>>) = 1 /\ <<Size + 1>>[1] = Size + 1
        BY <1>0
      <4> QED BY <2>4, <3>2, <4>1, <4>2, SeqEqual
    <3> QED BY <3>1, <3>2
  <2>6. PICK c : c = r'
    OBVIOUS
  <2>7. c = [s EXCEPT !.live = TRUE, !.timer = p.limit, !.tasks = t, !.pending = Total(p), !.required = p.required]
    <3>1. m = Requests!Limit(Requests!N)
      BY <1>0, <2>1 DEF Requests!Limit, Most
    <3> QED BY <1>0, <1>1, <1>4, <2>3, <2>6, <3>1 DEF Requests!Call, Requests!Input
  <2>8. /\ c \in CallType /\ c.live = TRUE /\ c.tasks = t /\ c.pending = Total(p) /\ c.required = p.required
        /\ c.ran = s.ran /\ c.results = s.results /\ c.answer = s.answer
        /\ c.next = s.next /\ c.out = <<>> /\ c.aborted = s.aborted
    <3>1. PICK n \in Int, m1 \in Int : n = Total(p) /\ m1 = p.required
      BY <1>0
    <3>2. c = [s EXCEPT !.live = TRUE, !.timer = p.limit, !.tasks = t, !.pending = n, !.required = m1]
      BY <2>7, <3>1
    <3>3. p.limit \in BOOLEAN /\ t \in Seq(Nat) /\ s \in CallType /\ s.out = <<>>
      BY <1>0, <1>2, <2>4
    <3> QED BY <3>1, <3>2, <3>3 DEF CallType
  <2>9. /\ s.next = 1
        /\ \A i \in 1 .. Size : s.ran[i] = "waiting" /\ s.results[i] = 0 /\ s.answer[i] = Size + 2
    BY <1>0, <1>1 DEF Requests!Idle, Requests!Fail, Requests!Unanswered
  <2>10. Open(p, c) = 1 .. Total(p) /\ Due(p, c) = 1 .. p.required /\ Active(p, c) = {}
    <3>1. (\A i \in 1 .. Total(p) : i \in 1 .. Size) /\ (\A i \in 1 .. p.required : i \in 1 .. Size)
      BY <1>0
    <3>2. \A i \in 1 .. Size : c.ran[i] = "waiting"
      BY <2>8, <2>9
    <3> QED BY <3>1, <3>2 DEF Open, Due, Active
  <2>11. Cardinality(Open(p, c)) = Total(p) /\ Cardinality(Due(p, c)) = p.required /\ Cardinality(Active(p, c)) = 0
    <3>1. ASSUME NEW n \in Nat PROVE Cardinality(1 .. n) = n
      BY FS_Interval
    <3> QED BY <1>0, <2>10, <3>1, FS_EmptySet
  <2>12. Counted(p, c)
    BY <1>0, <1>2, <1>4, <2>8, <2>9, <2>11 DEF Counted
  <2>13. Undecided(p, c)
    <3>1. (\A i \in 1 .. Total(p) : i \in 1 .. Size) /\ (\A i \in 1 .. p.required : i \in 1 .. Size)
      BY <1>0
    <3> QED BY <2>8, <2>9, <3>1 DEF Undecided
  <2>14. Throttled(p, c)
    <3>1. Given(p, c) = Size + 1
      BY <2>8, <2>9 DEF Given
    <3> QED BY <2>1, <2>2, <2>4, <2>5, <2>8, <2>10, <2>11, <3>1 DEF Throttled
  <2> QED BY <1>2, <2>6, <2>8, <2>12, <2>13, <2>14 DEF CallInv
<1> QED BY <1>0, <1>3, <1>4

(* The caller cancels the call.                                            *)
LEMMA AbortKept ==
  ASSUME NEW p \in Requests!Plans, CallInv(p, r), r.live, Requests!Abort
  PROVE  CallInv(p, r') /\ r'.aborted /\ ~ r'.live /\ r'.live \in BOOLEAN /\ r'.out = <<>>
<1>1. PICK s : s = r
  OBVIOUS
<1>2. PICK d : d = Requests!Cancel(s)
  OBVIOUS
<1>3. PICK c : c = [d EXCEPT !.aborted = TRUE]
  OBVIOUS
<1>4. r' = c
  BY <1>1, <1>2, <1>3 DEF Requests!Abort
<1>5. s \in CallType /\ Counted(p, s)
  BY <1>1 DEF CallInv, Stopped
<1>6. d \in CallType /\ ~ d.live /\ ~ d.timer /\ d.tasks = <<>> /\ d.out = s.out /\ d.ran = s.ran
  BY <1>2, <1>5, Cancelled
<1>7. /\ c \in CallType /\ c.aborted /\ ~ c.live /\ ~ c.timer /\ c.tasks = <<>> /\ c.out = s.out /\ c.ran = s.ran
      /\ c.live \in BOOLEAN
  BY <1>3, <1>6 DEF CallType
<1>8. s.out = <<>> /\ s.live
  BY <1>1, <1>5 DEF Counted
<1>11. Stopped(p, c)
  BY <1>7, <1>8 DEF Stopped
<1> QED BY <1>4, <1>7, <1>8, <1>11 DEF CallInv
-----------------------------------------------------------------------------
(***************************************************************************)
(* What holds of every call, of one whose counts are spoilt by a requestor *)
(* that threw after it had answered as well: what has ended was stopped,   *)
(* what goes on was not, and the callback is called once.                  *)
(***************************************************************************)
Held(p, s) ==
  /\ s \in CallType
  /\ \A i \in 1 .. Size : s.ran[i] = "running" => i \in 1 .. Total(p)
  /\ s.live => s.out = <<>> /\ ~ s.aborted /\ \A i \in 1 .. Size : s.cancels[i] = 0
  /\ ~ s.live =>
       /\ s.tasks = <<>> /\ ~ s.timer
       /\ \A i \in 1 .. Size : s.cancels[i] = IF s.ran[i] = "running" \/ s.early[i] THEN 1 ELSE 0
  /\ s.out = <<>> \/ \E o \in Verdict : s.out = <<o>>

(* What becomes of a call that goes on.                                    *)
Becomes(p, s, a) ==
  /\ Held(p, a) /\ ~ a.aborted /\ a.live \in BOOLEAN /\ (a.live <=> a.out = <<>>)
  /\ s.spoilt => a.spoilt

LEMMA Ends ==
  ASSUME NEW p, ~ Throws, NEW s, Held(p, s), s.live, NEW o \in Verdict, NEW c, c = Requests!Return(Requests!Cancel(s), o)
  PROVE  Becomes(p, s, c)
<1>1. PICK d : d = Requests!Cancel(s)
  OBVIOUS
<1>2. /\ s \in CallType /\ s.out = <<>> /\ ~ s.aborted
      /\ \A i \in 1 .. Size : s.cancels[i] = 0 /\ (s.ran[i] = "running" => i \in 1 .. Total(p))
  BY DEF Held
<1>3. /\ d \in CallType /\ ~ d.live /\ ~ d.timer /\ d.tasks = <<>> /\ d.out = <<>> /\ ~ d.aborted
      /\ \A i \in 1 .. Size : d.cancels[i] = IF s.live /\ (s.ran[i] = "running" \/ s.early[i]) THEN s.cancels[i] + 1 ELSE s.cancels[i]
      /\ d.ran = s.ran /\ d.early = s.early /\ d.spoilt = s.spoilt
  BY <1>1, <1>2, Cancelled
<1>4. \A i \in 1 .. Size : d.cancels[i] = IF d.ran[i] = "running" \/ d.early[i] THEN 1 ELSE 0
  BY <1>2, <1>3
<1>5. c = Requests!Return(d, o)
  BY <1>1
<1>6. /\ c \in CallType /\ c.out = <<o>> /\ c.live = d.live /\ c.timer = d.timer /\ c.tasks = d.tasks
      /\ c.cancels = d.cancels /\ c.ran = d.ran /\ c.aborted = d.aborted /\ c.early = d.early /\ c.spoilt = d.spoilt
  BY <1>3, <1>5, Returned
<1>7. <<o>> # <<>> /\ c.live \in BOOLEAN
  BY <1>6, CallFields
<1>8. Held(p, c)
  BY <1>2, <1>3, <1>4, <1>6 DEF Held
<1> QED BY <1>3, <1>6, <1>7, <1>8 DEF Becomes

(* A call that goes on, changed in what does not matter to that.           *)
LEMMA GoesOn ==
  ASSUME NEW p, NEW s, Held(p, s), s.live, NEW e \in CallType,
         \A i \in 1 .. Size : e.ran[i] = "running" => s.ran[i] = "running" \/ i \in 1 .. Total(p),
         e.cancels = s.cancels, e.live = s.live, e.out = s.out, e.aborted = s.aborted, s.spoilt => e.spoilt
  PROVE  Becomes(p, s, e) /\ e.live
<1>1. /\ s.out = <<>> /\ ~ s.aborted
      /\ \A i \in 1 .. Size : s.cancels[i] = 0 /\ (s.ran[i] = "running" => i \in 1 .. Total(p))
  BY DEF Held
<1>2. Held(p, e)
  BY <1>1 DEF Held
<1>3. e.live \in BOOLEAN
  BY CallFields
<1> QED BY <1>1, <1>2, <1>3 DEF Becomes

LEMMA BecomesOn ==
  ASSUME NEW p, NEW s, NEW e, NEW a, Becomes(p, s, e), Becomes(p, e, a)
  PROVE  Becomes(p, s, a)
BY DEF Becomes

(* What a callback may be told.                                            *)
LEMMA Verdicts ==
  ASSUME NEW p \in Requests!Plans, p = plan, NEW s \in CallType
  PROVE  Requests!Success(s) \in Verdict /\ Requests!Failure \in Verdict
<1>1. /\ s.results \in [1 .. Size -> Nat] /\ Requests!Requestors = 1 .. Total(p)
      /\ Total(p) \in 0 .. Size /\ Size \in Nat
  BY CallFields, PlanFacts DEF Requests!Requestors, Requests!N, Total
<1>2. \A i \in 1 .. Total(p) : s.results[i] \in Nat
  BY <1>1
<1>3. PICK w : w = [i \in 1 .. Total(p) |-> s.results[i]]
  OBVIOUS
<1>4. w \in Seq(Nat)
  BY <1>1, <1>2, <1>3
<1>5. Requests!Popped(s) \in Nat
  <2>1. ASSUME \E i \in Requests!Requestors : Requests!LastDone(s, i)
        PROVE  (CHOOSE i \in Requests!Requestors : Requests!LastDone(s, i)) \in 1 .. Total(p)
    BY <1>1, <2>1
  <2>2. PICK c : c = CHOOSE i \in Requests!Requestors : Requests!LastDone(s, i)
    OBVIOUS
  <2>3. CASE \E i \in Requests!Requestors : Requests!LastDone(s, i)
    <3>1. c \in 1 .. Total(p)
      BY <2>1, <2>2, <2>3
    <3>2. Requests!Popped(s) = s.results[c]
      BY <2>2, <2>3 DEF Requests!Popped
    <3> QED BY <1>2, <3>1, <3>2
  <2>4. CASE ~ \E i \in Requests!Requestors : Requests!LastDone(s, i)
    BY <2>4 DEF Requests!Popped, Requests!Fail
  <2> QED BY <2>3, <2>4
<1>6. PICK q \in Seq(Nat) : q = <<Requests!Popped(s)>>
  <2>1. PICK n \in Nat : n = Requests!Popped(s)
    BY <1>5
  <2>2. <<n>> \in Seq(Nat)
    OBVIOUS
  <2> QED BY <2>1, <2>2
<1>7. PICK x : x = IF p.factory = "sequence" THEN q ELSE w
  OBVIOUS
<1>9. x \in Seq(Nat)
  BY <1>4, <1>7
<1>10. Requests!Success(s) = [ok |-> TRUE, value |-> x]
  <2>1. CASE p.factory = "sequence"
    BY <1>6, <1>7, <2>1 DEF Requests!Success
  <2>2. CASE p.factory # "sequence"
    BY <1>1, <1>3, <1>7, <2>2 DEF Requests!Success
  <2> QED BY <2>1, <2>2
<1>8. Requests!Failure \in Verdict
  BY EmptySeq DEF Requests!Failure, Verdict
<1> QED BY <1>8, <1>9, <1>10 DEF Verdict

(* The action of a factory, of whatever call.                              *)
LEMMA Acts ==
  ASSUME NEW p \in Requests!Plans, p = plan, ~ Throws, NEW s, Held(p, s), s.live,
         NEW i \in Nat, NEW v \in Nat, NEW a, a = Requests!Action(s, v, i)
  PROVE  Becomes(p, s, a)
<1>1. s \in CallType
  BY DEF Held
<1>2. s.results \in [1 .. Size -> Nat] /\ s.pending \in Int /\ s.required \in Int
  BY <1>1, CallFields
<1>3. ASSUME NEW e \in CallType, e.ran = s.ran, e.cancels = s.cancels, e.live = s.live, e.out = s.out,
             e.aborted = s.aborted, e.spoilt = s.spoilt
      PROVE  /\ Becomes(p, s, e)
             /\ Becomes(p, s, Requests!Return(Requests!Cancel(e), Requests!Success(e)))
             /\ Becomes(p, s, Requests!Return(Requests!Cancel(e), Requests!Failure))
             /\ Becomes(p, s, Requests!Return(Requests!Cancel(e), [ok |-> TRUE, value |-> <<v>>]))
  <2>1. Becomes(p, s, e) /\ e.live
    BY <1>3, GoesOn
  <2>2. Held(p, e)
    BY <2>1 DEF Becomes
  <2>3. /\ Requests!Success(e) \in Verdict /\ Requests!Failure \in Verdict
        /\ [ok |-> TRUE, value |-> <<v>>] \in Verdict
    <3>1. Requests!Success(e) \in Verdict /\ Requests!Failure \in Verdict
      BY <1>3, Verdicts
    <3>2. <<v>> \in Seq(Nat)
      OBVIOUS
    <3> QED BY <3>1, <3>2 DEF Verdict
  <2>4. ASSUME NEW o \in Verdict PROVE Becomes(p, s, Requests!Return(Requests!Cancel(e), o))
    <3>1. PICK c : c = Requests!Return(Requests!Cancel(e), o)
      OBVIOUS
    <3>2. Becomes(p, e, c)
      BY <2>1, <2>2, <3>1, Ends
    <3> QED BY <2>1, <3>1, <3>2, BecomesOn
  <2> QED BY <2>1, <2>3, <2>4
<1>4. CASE p.factory \in {"race", "fallback"}
  <2>1. PICK m \in Int : m = s.pending - 1
    BY <1>2
  <2>2. PICK e : e = [s EXCEPT !.pending = m]
    OBVIOUS
  <2>3. /\ e \in CallType /\ e.ran = s.ran /\ e.cancels = s.cancels /\ e.live = s.live /\ e.out = s.out
        /\ e.aborted = s.aborted /\ e.spoilt = s.spoilt
    BY <1>1, <2>2 DEF CallType
  <2>4. e = [s EXCEPT !.pending = @ - 1]
    BY <1>1, <2>1, <2>2 DEF CallType
  <2>5. a \in {e, Requests!Return(Requests!Cancel(e), Requests!Failure),
               Requests!Return(Requests!Cancel(e), [ok |-> TRUE, value |-> <<v>>])}
    BY <1>4, <2>4 DEF Requests!Action, Requests!RaceAction
  <2> QED BY <1>3, <2>3, <2>5
<1>5. CASE ~ (p.factory \in {"race", "fallback"})
  <2>1. PICK m \in Int, n \in Int : m = s.pending - 1 /\ n = IF i <= p.required THEN s.required - 1 ELSE s.required
    BY <1>2
  <2>2. PICK f \in [1 .. Size -> Nat] : f = [s.results EXCEPT ![i] = v]
    BY <1>2
  <2>3. PICK e : e = [s EXCEPT !.results = f, !.pending = m, !.required = n]
    OBVIOUS
  <2>4. /\ e \in CallType /\ e.ran = s.ran /\ e.cancels = s.cancels /\ e.live = s.live /\ e.out = s.out
        /\ e.aborted = s.aborted /\ e.spoilt = s.spoilt
    BY <1>1, <2>3 DEF CallType
  <2>5. e = [s EXCEPT !.results[i] = v, !.pending = @ - 1, !.required = IF i <= p.required THEN @ - 1 ELSE @]
    BY <1>1, <2>1, <2>2, <2>3 DEF CallType
  <2>6. a \in {e, Requests!Return(Requests!Cancel(e), Requests!Failure),
               Requests!Return(Requests!Cancel(e), Requests!Success(e))}
    BY <1>5, <2>5 DEF Requests!Action, Requests!ParallelAction
  <2> QED BY <1>3, <2>4, <2>6
<1> QED BY <1>4, <1>5

(* One more task.                                                          *)
LEMMA Scheduled ==
  ASSUME NEW p, NEW s, Held(p, s), s.live, NEW t \in Seq(Nat), NEW e, e = [s EXCEPT !.tasks = t]
  PROVE  Becomes(p, s, e)
<1>1. s \in CallType
  BY DEF Held
<1>2. /\ e \in CallType /\ e.ran = s.ran /\ e.cancels = s.cancels /\ e.live = s.live /\ e.out = s.out
      /\ e.aborted = s.aborted /\ e.spoilt = s.spoilt
  BY <1>1 DEF CallType
<1> QED BY <1>2, GoesOn

(* An answer.                                                              *)
LEMMA Answers ==
  ASSUME NEW p \in Requests!Plans, p = plan, ~ Throws, NEW s, Held(p, s),
         NEW i \in 1 .. Total(p), NEW v \in {i, 0}, NEW a, a = Requests!Answered(s, v, i)
  PROVE  /\ s.live => Becomes(p, s, a)
         /\ ~ s.live => a = s
<1>1. s \in CallType /\ i \in 1 .. Size /\ i \in Nat /\ v \in Nat /\ Size \in Nat
  BY PlanFacts DEF Held
<1>2. s.ran \in [1 .. Size -> {"waiting", "running", "done"}] /\ s.answer \in [1 .. Size -> Nat] /\ s.live \in BOOLEAN
  BY <1>1, CallFields
<1>3. PICK f : f = [s.answer EXCEPT ![i] = IF s.live /\ @ = Size + 2 THEN v ELSE @]
  OBVIOUS
<1>4. f \in [1 .. Size -> Nat] /\ (~ s.live => f = s.answer)
  BY <1>1, <1>2, <1>3
<1>5. PICK b : b = [s EXCEPT !.answer = f]
  OBVIOUS
<1>6. a = Requests!Callback(b, v, i)
  <2>1. b = [s EXCEPT !.answer[i] = IF s.live /\ @ = Requests!Unanswered THEN v ELSE @]
    BY <1>1, <1>3, <1>5 DEF Requests!Unanswered, CallType
  <2> QED BY <2>1 DEF Requests!Answered
<1>7. CASE ~ s.live
  <2>1. b = s
    BY <1>1, <1>4, <1>5, <1>7 DEF CallType
  <2> QED BY <1>6, <1>7, <2>1 DEF Requests!Callback
<1>8. CASE s.live
  <2>1. /\ b \in CallType /\ b.ran = s.ran /\ b.cancels = s.cancels /\ b.live = s.live /\ b.out = s.out
        /\ b.aborted = s.aborted /\ b.spoilt = s.spoilt
    BY <1>1, <1>4, <1>5 DEF CallType
  <2>2. Becomes(p, s, b) /\ b.live
    BY <1>8, <2>1, GoesOn
  <2>3. CASE b.ran[i] # "running"
    BY <1>6, <1>8, <2>2, <2>3 DEF Requests!Callback
  <2>4. CASE b.ran[i] = "running"
    <3>1. PICK g : g = [b.ran EXCEPT ![i] = "done"]
      OBVIOUS
    <3>2. g \in [1 .. Size -> {"waiting", "running", "done"}] /\ \A j \in 1 .. Size : g[j] = "running" => b.ran[j] = "running"
      BY <1>1, <1>2, <2>1, <3>1
    <3>3. PICK d : d = [b EXCEPT !.ran = g]
      OBVIOUS
    <3>4. /\ d \in CallType /\ d.ran = g /\ d.cancels = b.cancels /\ d.live = b.live /\ d.out = b.out
          /\ d.aborted = b.aborted /\ d.spoilt = b.spoilt
      BY <2>1, <3>2, <3>3 DEF CallType
    <3>5. Held(p, b)
      BY <2>2 DEF Becomes
    <3>6. Becomes(p, b, d) /\ d.live
      BY <2>2, <3>2, <3>4, <3>5, GoesOn
    <3>7. PICK c : c = Requests!Action(d, v, i)
      OBVIOUS
    <3>8. Becomes(p, d, c)
      BY <1>1, <3>6, <3>7, Acts DEF Becomes
    <3>9. Becomes(p, s, c)
      BY <2>2, <3>6, <3>8, BecomesOn
    <3>10. c \in CallType /\ c.threw = FALSE /\ c.tasks \in Seq(Nat) /\ Held(p, c)
      <4>1. c \in CallType /\ Held(p, c)
        BY <3>9 DEF Becomes, Held
      <4> QED BY <4>1, CallFields
    <3>11. d = [b EXCEPT !.ran[i] = "done"]
      BY <3>1, <3>3
    <3>12. a = IF c.live THEN [c EXCEPT !.tasks = Append(@, Requests!NextInput(v))] ELSE c
      BY <1>6, <2>2, <2>4, <3>7, <3>10, <3>11 DEF Requests!Callback
    <3>13. CASE ~ c.live
      BY <1>8, <3>9, <3>12, <3>13
    <3>14. CASE c.live
      <4>1. PICK w \in Nat : w = Requests!NextInput(v)
        BY <1>1 DEF Requests!NextInput, Requests!Input
      <4>2. PICK t : t = Append(c.tasks, w)
        OBVIOUS
      <4>5. t \in Seq(Nat)
        BY <3>10, <4>1, <4>2
      <4>3. a = Rescheduled(c, t)
        BY <3>10, <3>12, <3>14, <4>1, <4>2 DEF CallType, Rescheduled
      <4>4. Becomes(p, c, a)
        BY <3>10, <3>14, <4>3, <4>5, Scheduled DEF Rescheduled
      <4> QED BY <1>8, <3>9, <4>4, BecomesOn
    <3> QED BY <3>13, <3>14
  <2> QED BY <2>3, <2>4
<1> QED BY <1>7, <1>8

(* A requestor throws, before it answers or after.                         *)
LEMMA Throwing ==
  ASSUME NEW p \in Requests!Plans, p = plan, ~ Throws, NEW s, Held(p, s), s.live, NEW d \in CallType,
         \A j \in 1 .. Size : d.ran[j] = "running" => s.ran[j] = "running",
         d.cancels = s.cancels, d.live = s.live, d.out = s.out, d.aborted = s.aborted, s.spoilt => d.spoilt,
         NEW given \in Nat, NEW i \in Nat, NEW a,
         a = LET s1 == Requests!Action(d, 0, i)
             IN  IF s1.live THEN [s1 EXCEPT !.tasks = <<given>> \o @] ELSE s1
  PROVE  Becomes(p, s, a) /\ Becomes(p, d, a)
<1>1. Becomes(p, s, d) /\ d.live
  BY GoesOn
<1>2. PICK c : c = Requests!Action(d, 0, i)
  OBVIOUS
<1>3. Becomes(p, d, c)
  <2>1. Held(p, d)
    BY <1>1 DEF Becomes
  <2> QED BY <1>1, <1>2, <2>1, Acts
<1>4. Becomes(p, s, c)
  BY <1>1, <1>3, BecomesOn
<1>5. a = IF c.live THEN [c EXCEPT !.tasks = <<given>> \o @] ELSE c
  BY <1>2
<1>6. CASE ~ c.live
  BY <1>3, <1>4, <1>5, <1>6
<1>7. CASE c.live
  <2>1. Held(p, c) /\ c \in CallType
    BY <1>4 DEF Becomes, Held
  <2>2. c.tasks \in Seq(Nat)
    BY <2>1, CallFields
  <2>3. PICK t : t = <<given>> \o c.tasks
    OBVIOUS
  <2>6. t \in Seq(Nat)
    BY <2>2, <2>3
  <2>4. a = Rescheduled(c, t)
    BY <1>5, <1>7, <2>1, <2>3 DEF CallType, Rescheduled
  <2>5. Becomes(p, c, a)
    BY <1>7, <2>1, <2>4, <2>6, Scheduled DEF Rescheduled
  <2> QED BY <1>3, <1>4, <2>5, BecomesOn
<1> QED BY <1>6, <1>7

(* A requestor throws after it has answered: if the call goes on, it is    *)
(* spoilt.                                                                 *)
LEMMA ThrowsLate ==
  ASSUME NEW p \in Requests!Plans, p = plan, ~ Throws, NEW s, Held(p, s), NEW given \in Nat,
         NEW a, a = Requests!CaughtLate(s, given)
  PROVE  /\ s.live => Becomes(p, s, a) /\ a.spoilt
         /\ ~ s.live => a = s
<1>1. CASE ~ s.live
  BY <1>1 DEF Requests!CaughtLate
<1>2. CASE s.live
  <2>1. PICK d : d = [s EXCEPT !.spoilt = TRUE]
    OBVIOUS
  <2>2. s \in CallType
    BY DEF Held
  <2>3. /\ d \in CallType /\ d.ran = s.ran /\ d.cancels = s.cancels /\ d.live = s.live /\ d.out = s.out
        /\ d.aborted = s.aborted /\ d.spoilt
    BY <2>1, <2>2 DEF CallType
  <2>4. PICK i \in Nat : i = Size + 1
    BY RequestsAssumption
  <2>5. a = LET s1 == Requests!Action(d, 0, i)
            IN  IF s1.live THEN [s1 EXCEPT !.tasks = <<given>> \o @] ELSE s1
    BY <1>2, <2>1, <2>4 DEF Requests!CaughtLate, Requests!Fail, Requests!NoNumber
  <2>6. Becomes(p, s, a) /\ Becomes(p, d, a)
    BY <1>2, <2>3, <2>5, Throwing
  <2> QED BY <1>2, <2>3, <2>6 DEF Becomes
<1> QED BY <1>1, <1>2

(* The cancel function of one that has answered is kept.                   *)
LEMMA Stores ==
  ASSUME NEW p \in Requests!Plans, NEW s, Held(p, s), NEW i \in 1 .. Total(p), NEW a, a = Requests!Stored(s, i)
  PROVE  /\ s.live => Becomes(p, s, a)
         /\ ~ s.live => a = s
         /\ CallInv(p, s) => CallInv(p, a)
<1>1. CASE ~ s.live
  BY <1>1 DEF Requests!Stored
<1>2. CASE s.live
  <2>1. s \in CallType
    BY DEF Held
  <2>2. s.early \in [1 .. Size -> BOOLEAN]
    BY <2>1, CallFields
  <2>3. PICK f \in [1 .. Size -> BOOLEAN] : f = [s.early EXCEPT ![i] = TRUE]
    BY <2>2
  <2>4. a = [s EXCEPT !.early = f]
    BY <1>2, <2>3 DEF Requests!Stored
  <2>5. /\ a \in CallType /\ a.tasks = s.tasks /\ a.live = s.live /\ a.next = s.next /\ a.ran = s.ran /\ a.cancels = s.cancels
        /\ a.results = s.results /\ a.pending = s.pending /\ a.required = s.required /\ a.out = s.out
        /\ a.input = s.input /\ a.answer = s.answer /\ a.aborted = s.aborted /\ a.spoilt = s.spoilt
        /\ a.timer = s.timer
    BY <2>1, <2>4 DEF CallType
  <2>6. Becomes(p, s, a)
    BY <1>2, <2>5, GoesOn
  <2>7. ASSUME CallInv(p, s) PROVE CallInv(p, a)
    <3>1. Counted(p, s) /\ Undecided(p, s) /\ Throttled(p, s)
      BY <1>2, <2>7 DEF CallInv, Stopped
    <3>2. /\ Open(p, a) = Open(p, s) /\ Due(p, a) = Due(p, s) /\ Active(p, a) = Active(p, s)
          /\ Given(p, a) = Given(p, s)
      BY <2>5 DEF Open, Due, Active, Given
    <3>3. Counted(p, a)
      BY <2>5, <3>1, <3>2, ZenonT(60) DEF Counted
    <3>4. Undecided(p, a)
      BY <2>5, <3>1 DEF Undecided
    <3>5. Throttled(p, a)
      BY <2>5, <3>1, <3>2 DEF Throttled
    <3> QED BY <2>5, <3>3, <3>4, <3>5 DEF CallInv
  <2> QED BY <1>2, <2>6, <2>7
<1> QED BY <1>1, <1>2

(* A requestor is started, in whatever call.                               *)
LEMMA TakenHeld ==
  ASSUME NEW p \in Requests!Plans, NEW s, Held(p, s), s.live, s.tasks # <<>>, s.next <= Total(p),
         NEW e, e = Taking(s)
  PROVE  Becomes(p, s, e) /\ e.live /\ Held(p, e)
<1>1. PICK i : i = s.next
  OBVIOUS
<1>2. s \in CallType /\ Total(p) \in 0 .. Size /\ Size \in Nat
  BY PlanFacts DEF Held
<1>3. /\ i \in Nat \ {0} /\ s.tasks \in Seq(Nat) /\ s.input \in [1 .. Size -> Nat]
      /\ s.ran \in [1 .. Size -> {"waiting", "running", "done"}]
  BY <1>1, <1>2, CallFields
<1>4. PICK t, g : t = Tail(s.tasks) /\ g = Head(s.tasks)
  OBVIOUS
<1>5. t \in Seq(Nat) /\ g \in Nat
  BY <1>3, <1>4, HeadTailProperties
<1>6. i \in 1 .. Total(p) /\ i \in 1 .. Size /\ i \in Nat /\ i + 1 \in Nat \ {0}
  BY <1>1, <1>2, <1>3
<1>7. PICK f : f = [s.ran EXCEPT ![i] = "running"]
  OBVIOUS
<1>8. PICK h : h = [s.input EXCEPT ![i] = g]
  OBVIOUS
<1>9. /\ f \in [1 .. Size -> {"waiting", "running", "done"}]
      /\ \A j \in 1 .. Size : f[j] = "running" => s.ran[j] = "running" \/ j \in 1 .. Total(p)
  BY <1>3, <1>6, <1>7
<1>10. h \in [1 .. Size -> Nat]
  BY <1>3, <1>5, <1>6, <1>8
<1>11. e = [s EXCEPT !.tasks = t, !.next = i + 1, !.ran = f, !.input = h]
  BY <1>1, <1>2, <1>4, <1>7, <1>8 DEF CallType, Taking
<1>12. /\ e \in CallType /\ e.ran = f /\ e.cancels = s.cancels /\ e.live = s.live /\ e.out = s.out
       /\ e.aborted = s.aborted /\ e.spoilt = s.spoilt
  BY <1>2, <1>5, <1>6, <1>9, <1>10, <1>11, ZenonT(60) DEF CallType
<1>13. Becomes(p, s, e) /\ e.live
  BY <1>9, <1>12, GoesOn
<1> QED BY <1>13 DEF Becomes

(* The event loop starts the next requestor.                               *)
LEMMA HeldStart ==
  ASSUME NEW p \in Requests!Plans, p = plan, ~ Throws, Held(p, r), Requests!Start
  PROVE  r.live /\ Becomes(p, r, r')
<1>1. PICK s, i : s = r /\ i = r.next
  OBVIOUS
<1>2. s \in CallType /\ s.live /\ s.tasks # <<>> /\ Requests!N = Total(p) /\ Total(p) \in 0 .. Size /\ Size \in Nat
  BY <1>1, PlanFacts DEF Requests!Start, Held, Requests!N, Total
<1>3. /\ i \in Nat \ {0} /\ s.tasks \in Seq(Nat)
  BY <1>1, <1>2, CallFields
<1>4. PICK t, g : t = Tail(s.tasks) /\ g = Head(s.tasks)
  OBVIOUS
<1>5. t \in Seq(Nat) /\ g \in Nat
  BY <1>2, <1>3, <1>4, HeadTailProperties
<1>6. CASE i > Total(p)
  <2>1. r' = [s EXCEPT !.tasks = t]
    <3>1. r' = [s EXCEPT !.tasks = Tail(@)]
      BY <1>1, <1>2, <1>6 DEF Requests!Start
    <3> QED BY <1>2, <1>4, <3>1 DEF CallType
  <2> QED BY <1>1, <1>2, <1>5, <2>1, Scheduled
<1>7. CASE ~ (i > Total(p))
  <2>1. i \in 1 .. Total(p) /\ i \in 1 .. Size /\ i \in Nat
    BY <1>2, <1>3, <1>7
  <2>2. PICK e : e = Taking(s)
    OBVIOUS
  <2>10. Becomes(p, s, e) /\ e.live /\ Held(p, e)
    BY <1>1, <1>2, <1>3, <1>7, <2>1, <2>2, TakenHeld
  <2>11. e \in CallType
    BY <2>10 DEF Held
  <2>12. \/ r' = e
         \/ r' = Requests!Caught([e EXCEPT !.answer[i] = 0], g, i)
         \/ \E v \in {i, 0} :
              LET s1 == Requests!Answered(e, v, i)
              IN  IF s1.threw THEN r' = Requests!Caught(s1, g, i)
                  ELSE r' \in {s1, Requests!Stored(s1, i), Requests!CaughtLate(s1, g)}
    BY <1>1, <1>2, <1>4, <1>7, <2>2 DEF Requests!Start, Taking, Requests!Fail
  <2>13. CASE r' = e
    BY <1>1, <1>2, <2>10, <2>13
  <2>14. CASE r' = Requests!Caught([e EXCEPT !.answer[i] = 0], g, i)
    <3>1. PICK u : u = [e.answer EXCEPT ![i] = 0]
      OBVIOUS
    <3>2. PICK w : w = [e.ran EXCEPT ![i] = "done"]
      OBVIOUS
    <3>3. u \in [1 .. Size -> Nat] /\ w \in [1 .. Size -> {"waiting", "running", "done"}]
          /\ \A j \in 1 .. Size : w[j] = "running" => e.ran[j] = "running"
      <4>1. e.ran \in [1 .. Size -> {"waiting", "running", "done"}] /\ e.answer \in [1 .. Size -> Nat]
        BY <2>11, CallFields
      <4> QED BY <2>1, <3>1, <3>2, <4>1
    <3>4. PICK d : d = [e EXCEPT !.answer = u, !.threw = FALSE, !.ran = w]
      OBVIOUS
    <3>5. d = [[e EXCEPT !.answer[i] = 0] EXCEPT !.threw = FALSE, !.ran[i] = "done"]
      BY <2>11, <3>1, <3>2, <3>4 DEF CallType
    <3>6. /\ d \in CallType /\ d.ran = w /\ d.cancels = e.cancels /\ d.live = e.live /\ d.out = e.out
          /\ d.aborted = e.aborted /\ d.spoilt = e.spoilt
      BY <2>11, <3>3, <3>4 DEF CallType
    <3>7. PICK a : a = r'
      OBVIOUS
    <3>8. a = LET s1 == Requests!Action(d, 0, i)
              IN  IF s1.live THEN [s1 EXCEPT !.tasks = <<g>> \o @] ELSE s1
      BY <2>14, <3>5, <3>7 DEF Requests!Caught, Requests!Fail
    <3>9. Becomes(p, e, a)
      BY <1>5, <2>1, <2>10, <3>3, <3>6, <3>8, Throwing
    <3> QED BY <1>1, <1>2, <2>10, <3>7, <3>9, BecomesOn
  <2>15. ASSUME NEW v \in {i, 0},
                LET s1 == Requests!Answered(e, v, i)
                IN  IF s1.threw THEN r' = Requests!Caught(s1, g, i)
                    ELSE r' \in {s1, Requests!Stored(s1, i), Requests!CaughtLate(s1, g)}
         PROVE  Becomes(p, s, r')
    <3>1. PICK a : a = Requests!Answered(e, v, i)
      OBVIOUS
    <3>2. Becomes(p, e, a)
      BY <2>1, <2>10, <3>1, Answers
    <3>3. Held(p, a) /\ a \in CallType /\ a.threw = FALSE
      <4>1. Held(p, a) /\ a \in CallType
        BY <3>2 DEF Becomes, Held
      <4> QED BY <4>1, CallFields
    <3>4. PICK b, c : b = Requests!Stored(a, i) /\ c = Requests!CaughtLate(a, g)
      OBVIOUS
    <3>5. r' \in {a, b, c}
      BY <2>15, <3>1, <3>3, <3>4
    <3>6. a.live => Becomes(p, a, b)
      BY <2>1, <3>3, <3>4, Stores
    <3>7. a.live => Becomes(p, a, c)
      BY <1>5, <3>3, <3>4, ThrowsLate
    <3>8. ~ a.live => b = a /\ c = a
      BY <1>5, <2>1, <3>3, <3>4, Stores, ThrowsLate
    <3>9. r' = a \/ Becomes(p, a, r')
      BY <3>5, <3>6, <3>7, <3>8
    <3>10. Becomes(p, s, a)
      BY <2>10, <3>2, BecomesOn
    <3> QED BY <3>9, <3>10, BecomesOn
  <2> QED BY <1>1, <1>2, <2>12, <2>13, <2>14, <2>15
<1> QED BY <1>6, <1>7

LEMMA StartKept ==
  ASSUME NEW p \in Requests!Plans, p = plan, ~ Throws, time_option \in {"none", "true", "false"},
         Held(p, r), CallInv(p, r), Requests!Start, ~ r'.spoilt
  PROVE  CallInv(p, r')
<1>1. PICK s, i : s = r /\ i = r.next
  OBVIOUS
<1>2. s.tasks # <<>> /\ s.live /\ s \in CallType /\ Requests!N = Total(p) /\ Total(p) \in 0 .. Size /\ Size \in Nat
  BY <1>1, PlanFacts DEF Requests!Start, CallInv, Stopped, Counted, Requests!N, Total
<1>3. s.next \in Nat \ {0}
  BY <1>2, CallFields
<1>4. CASE i > Total(p)
  <2>1. PICK e : e = Dropping(s)
    OBVIOUS
  <2>2. r' = e
    BY <1>1, <1>2, <1>4, <2>1 DEF Requests!Start, Dropping
  <2>3. CallInv(p, e)
    BY <1>1, <1>2, <2>1, Dropped
  <2> QED BY <2>2, <2>3
<1>5. CASE ~ (i > Total(p))
  <2>1. PICK e : e = Taking(s)
    OBVIOUS
  <2>2. s.next <= Total(p)
    BY <1>1, <1>2, <1>3, <1>5
  <2>3. /\ CallInv(p, e) /\ Counted(p, e) /\ i \in Active(p, e) /\ Head(s.tasks) \in Nat
        /\ e.ran[i] = "running" /\ (p.factory = "fallback" => Head(s.tasks) = Size + 1)
    BY <1>1, <1>2, <2>1, <2>2, Taken
  <2>4. e.live /\ i \in 1 .. Total(p)
    BY <2>3 DEF Counted, Active
  <2>5. \/ r' = e
        \/ r' = Requests!Caught([e EXCEPT !.answer[i] = 0], Head(s.tasks), i)
        \/ \E v \in {i, 0} :
             LET s1 == Requests!Answered(e, v, i)
             IN  IF s1.threw THEN r' = Requests!Caught(s1, Head(s.tasks), i)
                 ELSE r' \in {s1, Requests!Stored(s1, i), Requests!CaughtLate(s1, Head(s.tasks))}
    BY <1>1, <1>2, <1>5, <2>1 DEF Requests!Start, Taking, Requests!Fail
  <2>6. CASE r' = e
    BY <2>3, <2>6
  <2>7. CASE r' = Requests!Caught([e EXCEPT !.answer[i] = 0], Head(s.tasks), i)
    <3>1. PICK c : c = r'
      OBVIOUS
    <3>2. c = Requests!Caught(Failing(e, i), Head(s.tasks), i)
      BY <2>7, <3>1 DEF Failing
    <3>3. CallInv(p, c)
      BY <2>3, <2>4, <3>2, CaughtKept
    <3> QED BY <3>1, <3>3
  <2>8. ASSUME NEW v \in {i, 0},
               LET s1 == Requests!Answered(e, v, i)
               IN  IF s1.threw THEN r' = Requests!Caught(s1, Head(s.tasks), i)
                   ELSE r' \in {s1, Requests!Stored(s1, i), Requests!CaughtLate(s1, Head(s.tasks))}
        PROVE  CallInv(p, r')
    <3>1. PICK a : a = Requests!Answered(e, v, i)
      OBVIOUS
    <3>2. Begun(p, e, i)
      BY <2>3 DEF Active, Begun
    <3>3. CallInv(p, a) /\ Moved(e, a)
      BY ONLY p \in Requests!Plans, p = plan, ~ Throws, time_option \in {"none", "true", "false"}, v \in {i, 0},
        <2>3, <3>1, <3>2, AnsweredKept
    <3>4. PICK b, c : b = Requests!Stored(a, i) /\ c = Requests!CaughtLate(a, Head(s.tasks))
      OBVIOUS
    <3>5. r' \in {a, b, c}
      BY <2>8, <3>1, <3>3, <3>4 DEF Moved
    <3>6. Held(p, a)
      <4>2. Held(p, e)
        BY <1>1, <1>2, <2>1, <2>2, TakenHeld
      <4>3. Becomes(p, e, a)
        BY <2>4, <3>1, <4>2, Answers
      <4> QED BY <4>3 DEF Becomes
    <3>7. CallInv(p, b)
      BY <2>4, <3>3, <3>4, <3>6, Stores
    <3>8. c = a \/ c.spoilt
      BY <2>3, <3>4, <3>6, ThrowsLate
    <3> QED BY <3>3, <3>5, <3>7, <3>8
  <2> QED BY <2>5, <2>6, <2>7, <2>8
<1> QED BY <1>4, <1>5
(* A requestor answers later.                                              *)
LEMMA HeldAnswer ==
  ASSUME NEW p \in Requests!Plans, p = plan, ~ Throws, Held(p, r), NEW i \in 1 .. Total(p), Requests!Answer(i)
  PROVE  IF r.live THEN Becomes(p, r, r') ELSE r' = r
<1>1. PICK s : s = r
  OBVIOUS
<1>2. s \in CallType /\ s.threw = FALSE
  BY <1>1, CallFields DEF Held
<1>3. [s EXCEPT !.threw = FALSE] = s
  BY <1>2 DEF CallType
<1>4. PICK v \in {i, 0} : r' = Requests!Answered([s EXCEPT !.threw = FALSE], v, i)
  BY <1>1 DEF Requests!Answer, Requests!Fail
<1>5. PICK a : a = r'
  OBVIOUS
<1>6. a = Requests!Answered(s, v, i)
  BY <1>3, <1>4, <1>5
<1>7. (s.live => Becomes(p, s, a)) /\ (~ s.live => a = s)
  BY <1>1, <1>6, Answers
<1> QED BY <1>1, <1>5, <1>7

LEMMA AnswerKept ==
  ASSUME NEW p \in Requests!Plans, p = plan, ~ Throws, time_option \in {"none", "true", "false"},
         CallInv(p, r), NEW i \in 1 .. Total(p), Requests!Answer(i)
  PROVE  CallInv(p, r')
<1>1. PICK s : s = r
  OBVIOUS
<1>2. s \in CallType /\ s.threw = FALSE
  BY <1>1, CallFields DEF CallInv
<1>3. [s EXCEPT !.threw = FALSE] = s
  BY <1>2 DEF CallType
<1>4. PICK v \in {i, 0} : r' = Requests!Answered([s EXCEPT !.threw = FALSE], v, i)
  BY <1>1 DEF Requests!Answer, Requests!Fail
<1>5. PICK a : a = r'
  OBVIOUS
<1>6. a = Requests!Answered(s, v, i)
  BY <1>3, <1>4, <1>5
<1>7. Begun(p, s, i) /\ v \in {i, 0}
  BY <1>1, <1>4 DEF Requests!Answer, Begun
<1>8. CallInv(p, a)
  BY <1>1, <1>6, <1>7, AnsweredKept
<1> QED BY <1>5, <1>8

(* The time limit.                                                         *)
LEMMA HeldTimeout ==
  ASSUME NEW p \in Requests!Plans, p = plan, ~ Throws, Held(p, r), Requests!Timeout
  PROVE  r.live /\ Becomes(p, r, r')
<1>1. PICK s : s = r
  OBVIOUS
<1>2. s \in CallType /\ s.timer /\ s.live
  BY <1>1 DEF Held, Requests!Timeout
<1>3. PICK e : e = [s EXCEPT !.timer = FALSE, !.expired = TRUE]
  OBVIOUS
<1>4. /\ e \in CallType /\ e.ran = s.ran /\ e.cancels = s.cancels /\ e.live = s.live /\ e.out = s.out
      /\ e.aborted = s.aborted /\ e.spoilt = s.spoilt
  BY <1>2, <1>3 DEF CallType
<1>5. Becomes(p, s, e) /\ e.live
  BY <1>1, <1>2, <1>4, GoesOn
<1>6. Held(p, e)
  BY <1>5 DEF Becomes
<1>7. Requests!Success(e) \in Verdict /\ Requests!Failure \in Verdict
  BY <1>4, Verdicts
<1>8. r' \in {e, Requests!Return(Requests!Cancel(e), Requests!Success(e)),
              Requests!Return(Requests!Cancel(e), Requests!Failure)}
  BY <1>1, <1>3 DEF Requests!Timeout
<1>9. ASSUME NEW o \in Verdict PROVE Becomes(p, s, Requests!Return(Requests!Cancel(e), o))
  <2>1. PICK c : c = Requests!Return(Requests!Cancel(e), o)
    OBVIOUS
  <2>2. Becomes(p, e, c)
    BY <1>5, <1>6, <2>1, Ends
  <2> QED BY <1>5, <2>1, <2>2, BecomesOn
<1> QED BY <1>1, <1>2, <1>5, <1>7, <1>8, <1>9

(* A call that has not begun, and a new one.                               *)
LEMMA HeldIdle ==
  ASSUME NEW p
  PROVE  Held(p, Requests!Idle)
<1>1. PICK s : s = Requests!Idle
  OBVIOUS
<1>2. s \in CallType /\ s.live = FALSE /\ s.out = <<>>
  BY <1>1, IdleStopped
<1>3. \A i \in 1 .. Size : s.ran[i] = "waiting" /\ s.early[i] = FALSE /\ s.cancels[i] = 0
  BY <1>1 DEF Requests!Idle
<1>4. s.tasks = <<>> /\ ~ s.timer
  BY <1>1 DEF Requests!Idle
<1>5. Held(p, s)
  BY <1>2, <1>3, <1>4 DEF Held
<1> QED BY <1>1, <1>5

LEMMA HeldCall ==
  ASSUME NEW p \in Requests!Plans, p = plan, ~ Throws, Requests!Call
  PROVE  Held(p, r')
<1>1. PICK s : s = Requests!Idle
  OBVIOUS
<1>2. Held(p, s) /\ s \in CallType /\ s.live = FALSE /\ s.out = <<>>
  BY <1>1, HeldIdle DEF Held, Requests!Idle
<1>3. CallInv(p, r')
  BY CallKept
<1>4. PICK c : c = r'
  OBVIOUS
<1>5. c \in CallType
  BY <1>3, <1>4 DEF CallInv
<1>6. \A i \in 1 .. Size : s.ran[i] = "waiting" /\ s.early[i] = FALSE /\ s.cancels[i] = 0 /\ s.aborted = FALSE
  BY <1>1 DEF Requests!Idle
<1>7. CASE Requests!N = 0
  <2>1. PICK o : o = [ok |-> TRUE, value |-> IF p.factory = "sequence" THEN <<Requests!Input>> ELSE <<>>]
    OBVIOUS
  <2>2. o \in Verdict
    <3>1. PICK n \in Nat : n = Requests!Input
      BY RequestsAssumption DEF Requests!Input
    <3>2. <<n>> \in Seq(Nat) /\ <<>> \in Seq(Nat)
      BY EmptySeq
    <3> QED BY <2>1, <3>1, <3>2 DEF Verdict
  <2>3. c = Requests!Return(s, o)
    BY <1>1, <1>4, <1>7, <2>1 DEF Requests!Call
  <2>4. /\ c.out = <<o>> /\ c.live = s.live /\ c.timer = s.timer /\ c.tasks = s.tasks
        /\ c.cancels = s.cancels /\ c.ran = s.ran /\ c.early = s.early
    BY <1>2, <2>2, <2>3, Returned
  <2>5. Held(p, c)
    BY <1>2, <1>5, <1>6, <2>2, <2>4 DEF Held
  <2> QED BY <1>4, <2>5
<1>8. CASE Requests!N # 0
  <2>1. c = [s EXCEPT !.live = TRUE, !.timer = p.limit, !.tasks = [k \in 1 .. Requests!Limit(Requests!N) |-> Requests!Input],
                      !.pending = Requests!N, !.required = p.required]
    BY <1>1, <1>4, <1>8 DEF Requests!Call
  <2>2. c.live = TRUE /\ c.out = s.out /\ c.aborted = s.aborted /\ c.cancels = s.cancels /\ c.ran = s.ran
    BY <1>2, <2>1 DEF CallType
  <2>3. \A i \in 1 .. Size : c.ran[i] # "running"
    BY <1>6, <2>2
  <2>4. c.aborted = FALSE
    BY <1>1, <2>2 DEF Requests!Idle
  <2>5. Held(p, c)
    BY <1>2, <1>5, <1>6, <2>2, <2>3, <2>4 DEF Held
  <2> QED BY <1>4, <2>5
<1> QED BY <1>7, <1>8

(* The caller cancels a call.                                              *)
LEMMA HeldAbort ==
  ASSUME NEW p \in Requests!Plans, Held(p, r), r.live, Requests!Abort
  PROVE  Held(p, r') /\ r'.aborted /\ ~ r'.live /\ r'.out = <<>> /\ (r.spoilt => r'.spoilt)
<1>1. PICK s : s = r
  OBVIOUS
<1>2. PICK d : d = Requests!Cancel(s)
  OBVIOUS
<1>3. PICK c : c = [d EXCEPT !.aborted = TRUE]
  OBVIOUS
<1>4. r' = c
  BY <1>1, <1>2, <1>3 DEF Requests!Abort
<1>5. /\ s \in CallType /\ s.out = <<>> /\ s.live
      /\ \A i \in 1 .. Size : s.cancels[i] = 0 /\ (s.ran[i] = "running" => i \in 1 .. Total(p))
  BY <1>1 DEF Held
<1>6. /\ d \in CallType /\ ~ d.live /\ ~ d.timer /\ d.tasks = <<>> /\ d.out = s.out /\ d.ran = s.ran
      /\ d.early = s.early /\ d.spoilt = s.spoilt
      /\ \A i \in 1 .. Size : d.cancels[i] = IF s.live /\ (s.ran[i] = "running" \/ s.early[i]) THEN s.cancels[i] + 1 ELSE s.cancels[i]
  BY <1>2, <1>5, Cancelled
<1>7. \A i \in 1 .. Size : d.cancels[i] = IF d.ran[i] = "running" \/ d.early[i] THEN 1 ELSE 0
  BY <1>5, <1>6
<1>8. /\ c \in CallType /\ c.aborted /\ c.live = d.live /\ c.timer = d.timer /\ c.tasks = d.tasks /\ c.out = d.out
      /\ c.ran = d.ran /\ c.early = d.early /\ c.spoilt = d.spoilt /\ c.cancels = d.cancels
  BY <1>3, <1>6 DEF CallType
<1>9. Held(p, c)
  BY <1>5, <1>6, <1>7, <1>8 DEF Held
<1> QED BY <1>1, <1>4, <1>5, <1>6, <1>8, <1>9

(* The inductive invariant of a factory.                                   *)
RequestsInv ==
  /\ plan \in Requests!Plans
  /\ time_option \in {"none", "true", "false"}
  /\ plan.factory # "parallel" => time_option = "none"
  /\ calls \in Nat
  /\ Held(plan, r)
  /\ ~ r.spoilt => CallInv(plan, r)
  /\ r.live <=> calls > 0 /\ ~ r.aborted /\ r.out = <<>>

(* It holds to begin with.                                                 *)
LEMMA RequestsInit == Requests!Init => RequestsInv
<1> SUFFICES ASSUME Requests!Init PROVE RequestsInv
  OBVIOUS
<1>1. plan \in Requests!Plans /\ time_option = Requests!TimeOption(plan) /\ calls = 0 /\ r = Requests!Idle
  BY DEF Requests!Init
<1>2. plan.option \in {"none", "true", "false"} /\ (plan.factory # "parallel" => plan.option = "none")
  BY <1>1 DEF Requests!Plans
<1>3. time_option \in {"none", "true", "false"} /\ (plan.factory # "parallel" => time_option = "none")
  BY <1>1, <1>2 DEF Requests!TimeOption
<1>4. Held(plan, r) /\ CallInv(plan, r) /\ r.live = FALSE
  BY <1>1, IdleStopped, HeldIdle
<1> QED BY <1>1, <1>3, <1>4 DEF RequestsInv

(* A call is under way before a step of it, and after it unless the        *)
(* callback was called.                                                    *)
LEMMA CallGoesOn ==
  ASSUME RequestsInv, ~ Throws,
         Requests!Start \/ (\E i \in Requests!Requestors : Requests!Answer(i)) \/ Requests!Timeout
  PROVE  /\ r' = r \/ (r.live /\ Becomes(plan, r, r'))
         /\ ~ r'.spoilt => CallInv(plan, r')
         /\ calls' = calls /\ plan' = plan /\ time_option' \in {"none", time_option}
<1>1. PICK p : p = plan
  OBVIOUS
<1>2. /\ p \in Requests!Plans /\ Held(p, r) /\ time_option \in {"none", "true", "false"}
      /\ p.factory # "parallel" => time_option = "none"
      /\ ~ r.spoilt => CallInv(p, r)
  BY <1>1 DEF RequestsInv
<1>3. CASE Requests!Start
  <2>1. r.live /\ Becomes(p, r, r')
    BY <1>1, <1>2, <1>3, HeldStart
  <2>2. ASSUME ~ r'.spoilt PROVE CallInv(p, r')
    <3>1. ~ r.spoilt
      BY <2>1, <2>2 DEF Becomes
    <3> QED BY <1>1, <1>2, <1>3, <2>2, <3>1, StartKept
  <2> QED BY <1>1, <1>3, <2>1, <2>2 DEF Requests!Start
<1>4. ASSUME NEW i \in Requests!Requestors, Requests!Answer(i)
      PROVE  /\ r' = r \/ (r.live /\ Becomes(p, r, r'))
             /\ ~ r'.spoilt => CallInv(p, r')
             /\ calls' = calls /\ plan' = plan /\ time_option' = time_option
  <2>1. i \in 1 .. Total(p)
    BY <1>1 DEF Requests!Requestors, Requests!N, Total
  <2>2. IF r.live THEN Becomes(p, r, r') ELSE r' = r
    BY <1>1, <1>2, <1>4, <2>1, HeldAnswer
  <2>3. ASSUME ~ r'.spoilt PROVE CallInv(p, r')
    <3>1. ~ r.spoilt
      BY <2>2, <2>3 DEF Becomes
    <3> QED BY <1>1, <1>2, <1>4, <2>1, <3>1, AnswerKept
  <2> QED BY <1>4, <2>2, <2>3 DEF Requests!Answer
<1>5. CASE Requests!Timeout
  <2>1. r.live /\ Becomes(p, r, r')
    BY <1>1, <1>2, <1>5, HeldTimeout
  <2>2. ASSUME ~ r'.spoilt PROVE CallInv(p, r')
    <3>1. ~ r.spoilt
      BY <2>1, <2>2 DEF Becomes
    <3> QED BY <1>1, <1>2, <1>5, <3>1, TimeoutKept
  <2>3. calls' = calls /\ plan' = plan /\ time_option' \in {"none", time_option}
    BY <1>5 DEF Requests!Timeout
  <2> QED BY <1>1, <2>1, <2>2, <2>3
<1>6. CASE \E i \in Requests!Requestors : Requests!Answer(i)
  BY <1>1, <1>4, <1>6
<1> QED BY <1>3, <1>5, <1>6

(* Every step keeps it.                                                    *)
LEMMA RequestsNext ==
  ASSUME RequestsInv, ~ Throws, Requests!Next \/ UNCHANGED requests
  PROVE  RequestsInv'
<1>1. /\ plan \in Requests!Plans /\ Held(plan, r) /\ time_option \in {"none", "true", "false"} /\ calls \in Nat
      /\ plan.factory # "parallel" => time_option = "none"
      /\ ~ r.spoilt => CallInv(plan, r)
      /\ r.live <=> calls > 0 /\ ~ r.aborted /\ r.out = <<>>
  BY DEF RequestsInv
<1>2. r.live \in BOOLEAN /\ r.aborted \in BOOLEAN
  BY <1>1, CallFields DEF Held
<1>3. CASE UNCHANGED requests
  BY <1>1, <1>3 DEF requests, RequestsInv
<1>4. CASE Requests!Start \/ (\E i \in Requests!Requestors : Requests!Answer(i)) \/ Requests!Timeout
  <2>1. /\ r' = r \/ (r.live /\ Becomes(plan, r, r'))
        /\ ~ r'.spoilt => CallInv(plan, r')
        /\ calls' = calls /\ plan' = plan /\ time_option' \in {"none", time_option}
    BY <1>4, CallGoesOn
  <2>2. Held(plan, r') /\ (r' = r \/ (r.live /\ ~ r'.aborted /\ (r'.live <=> r'.out = <<>>)))
    BY <1>1, <2>1 DEF Becomes
  <2> QED BY <1>1, <2>1, <2>2 DEF RequestsInv
<1>5. CASE Requests!Call
  <2>1. CallInv(plan, r') /\ ~ r'.aborted /\ (r'.live <=> r'.out = <<>>)
    BY <1>1, <1>5, CallKept
  <2>2. Held(plan, r')
    BY <1>1, <1>5, HeldCall
  <2>3. calls' = calls + 1 /\ plan' = plan /\ time_option' = time_option
    BY <1>5 DEF Requests!Call
  <2> QED BY <1>1, <2>1, <2>2, <2>3 DEF RequestsInv
<1>6. CASE Requests!Abort
  <2>1. r.live /\ calls' = calls /\ plan' = plan /\ time_option' = time_option
    BY <1>1, <1>6 DEF Requests!Abort, Requests!Busy
  <2>2. Held(plan, r') /\ r'.aborted /\ ~ r'.live /\ (r.spoilt => r'.spoilt)
    BY <1>1, <1>6, <2>1, HeldAbort
  <2>3. ASSUME ~ r'.spoilt PROVE CallInv(plan, r')
    BY <1>1, <1>6, <2>1, <2>2, <2>3, AbortKept
  <2> QED BY <1>1, <2>1, <2>2, <2>3 DEF RequestsInv
<1> QED BY <1>3, <1>4, <1>5, <1>6 DEF Requests!Next

(* Nothing is left of a call that has ended, and no more runs than may.    *)
LEMMA NothingLeftRight == RequestsInv => Requests!NothingLeft
<1> SUFFICES ASSUME RequestsInv PROVE Requests!NothingLeft
  OBVIOUS
<1>1. PICK p, s : p = plan /\ s = r
  OBVIOUS
<1>2. p \in Requests!Plans /\ Held(p, s) /\ (~ s.spoilt => CallInv(p, s)) /\ s \in CallType
  BY <1>1 DEF RequestsInv, Held
<1>3. Requests!Running = Active(p, s) /\ Requests!N = Total(p)
  BY <1>1 DEF Requests!Running, Requests!Requestors, Requests!N, Active, Total
<1>4. ASSUME NEW i \in 1 .. Size
      PROVE  s.cancels[i] = IF ~ s.live /\ (i \in Requests!Running \/ s.early[i]) THEN 1 ELSE 0
  <2>1. i \in Requests!Running <=> s.ran[i] = "running"
    BY <1>2, <1>3 DEF Held, Active
  <2> QED BY <1>2, <2>1 DEF Held
<1>5. ASSUME s.live, ~ s.spoilt PROVE Requests!Cardinality(Requests!Running) <= Requests!Limit(Requests!N)
  <2>1. Throttled(p, s)
    BY <1>2, <1>5 DEF CallInv, Stopped
  <2>2. Cardinality(Active(p, s)) \in Nat
    BY <1>2, FewRequestors
  <2>3. Len(s.tasks) \in Nat
    <3>1. s.tasks \in Seq(Nat)
      BY <1>2, CallFields
    <3> QED BY <3>1
  <2>4. Most(p) \in Nat
    BY <1>2, PlanFacts DEF Most
  <2>5. Cardinality(Active(p, s)) + Len(s.tasks) <= Most(p)
    BY <2>1 DEF Throttled
  <2>6. Cardinality(Active(p, s)) <= Most(p)
    BY <2>2, <2>3, <2>4, <2>5
  <2>7. Requests!Limit(Requests!N) = Most(p)
    BY <1>1, <1>3 DEF Requests!Limit, Most
  <2> QED BY <1>3, <2>6, <2>7, SameCount
<1>6. ~ s.live => s.tasks = <<>> /\ ~ s.timer
  BY <1>2 DEF Held
<1> QED BY <1>1, <1>4, <1>5, <1>6 DEF Requests!NothingLeft

(* The callback is told what the requestors answered.                      *)
LEMMA OutcomesRight == RequestsInv => Requests!Outcomes
<1> SUFFICES ASSUME RequestsInv, ~ r.spoilt, NEW k \in DOMAIN r.out PROVE Requests!Outcome(r.out[k])
  BY DEF Requests!Outcomes
<1>1. PICK p, s : p = plan /\ s = r
  OBVIOUS
<1>2. p \in Requests!Plans /\ CallInv(p, s) /\ k \in DOMAIN s.out
  BY <1>1 DEF RequestsInv
<1>3. s.out # <<>>
  BY <1>2
<1>4. PICK o : s.out = <<o>> /\ Told(p, s, o)
  BY <1>2, <1>3 DEF CallInv, Stopped, Counted
<1>5. s.out[k] = o /\ o.ok \in BOOLEAN
  BY <1>2, <1>4 DEF Told, Verdict
<1>6. /\ Requests!N = Total(p) /\ Requests!Requestors = 1 .. Total(p) /\ Requests!Fail = 0 /\ Requests!Input = Size + 1
      /\ p.factory \in {"parallel", "race", "fallback", "sequence"} /\ p.required \in Nat /\ Total(p) \in Nat
  BY <1>1, <1>2, PlanFacts DEF Requests!N, Requests!Requestors, Total, Requests!Fail, Requests!Input
<1>7. \A i : (Requests!Succeeded(i) <=> s.answer[i] = i) /\ (Requests!Failed(i) <=> s.answer[i] = 0)
  BY <1>1, <1>6 DEF Requests!Succeeded, Requests!Failed
<1>8. CASE o.ok /\ p.factory = "parallel"
  BY <1>1, <1>4, <1>5, <1>6, <1>7, <1>8 DEF Requests!Outcome, Told
<1>9. CASE o.ok /\ p.factory = "sequence"
  BY <1>1, <1>4, <1>5, <1>6, <1>7, <1>9 DEF Requests!Outcome, Told
<1>10. CASE o.ok /\ p.factory \in {"race", "fallback"}
  <2>1. PICK w \in 1 .. Total(p) :
           /\ o.value = <<w>>
           /\ \A i \in 1 .. Total(p) : s.answer[i] = i <=> i = w
           /\ p.factory = "fallback" => \A i \in 1 .. w - 1 : s.answer[i] = 0
    BY <1>4, <1>10 DEF Told, Gathers
  <2>2. <<w>>[1] = w /\ DOMAIN <<w>> = {1}
    OBVIOUS
  <2>3. Requests!ToSet(o.value) = {w} /\ o.value[1] = w
    BY <2>1, <2>2 DEF Requests!ToSet
  <2>4. {i \in Requests!Requestors : Requests!Succeeded(i)} = {w}
    BY <1>6, <1>7, <2>1
  <2>5. o.value \in {<<i>> : i \in Requests!Requestors}
    BY <1>6, <2>1
  <2>6. p.factory = "fallback" => \A i \in 1 .. o.value[1] - 1 : Requests!Failed(i)
    BY <1>7, <2>1, <2>3
  <2>7. {i \in Requests!Requestors : Requests!Succeeded(i)} = Requests!ToSet(o.value)
    BY <2>3, <2>4
  <2> QED BY <1>1, <1>5, <1>10, <2>5, <2>6, <2>7 DEF Requests!Outcome
<1>11. CASE ~ o.ok /\ p.factory \in {"race", "fallback"}
  BY <1>1, <1>4, <1>5, <1>6, <1>7, <1>11 DEF Requests!Outcome, Told, Gathers
<1>12. CASE ~ o.ok /\ p.factory \in {"parallel", "sequence"}
  BY <1>1, <1>4, <1>5, <1>6, <1>7, <1>12 DEF Requests!Outcome, Told, Gathers
<1> QED BY <1>5, <1>6, <1>8, <1>9, <1>10, <1>11, <1>12

(* The status of a call that is under way.                                 *)
LEMMA StatusOf ==
  ASSUME RequestsInv
  PROVE  /\ r.live => Requests!status = "running"
         /\ ~ r.live => Requests!status # "running"
<1>1. r.live <=> calls > 0 /\ ~ r.aborted /\ r.out = <<>>
  BY DEF RequestsInv
<1>2. calls \in Nat
  BY DEF RequestsInv
<1> QED BY <1>1, <1>2 DEF Requests!status

(* Each step is one of Requestor.                                          *)
LEMMA PromiseStep ==
  ASSUME RequestsInv, ~ Throws, Requests!Next
  PROVE  Requests!Promise!Next \/ UNCHANGED <<calls, Requests!status>>
<1>1. RequestsInv'
  BY RequestsNext
<1>2. /\ r.live \in BOOLEAN /\ calls \in Nat /\ (r.live <=> calls > 0 /\ ~ r.aborted /\ r.out = <<>>)
      /\ Held(plan, r)
  BY CallFields DEF RequestsInv, Held
<1>3. CASE Requests!Start \/ (\E i \in Requests!Requestors : Requests!Answer(i)) \/ Requests!Timeout
  <2>1. /\ calls' = calls
        /\ r' = r \/ (r.live /\ ~ r'.aborted /\ (r'.live <=> r'.out = <<>>))
    BY <1>3, CallGoesOn DEF Becomes
  <2>2. CASE r' = r
    BY <2>1, <2>2 DEF Requests!status
  <2>3. CASE r.live /\ ~ r'.aborted /\ (r'.live <=> r'.out = <<>>)
    <3>1. Requests!status = "running" /\ calls > 0
      BY <1>2, <2>3, StatusOf
    <3>2. CASE r'.out = <<>>
      BY <2>1, <2>3, <3>1, <3>2 DEF Requests!status
    <3>3. CASE r'.out # <<>>
      <4>1. Requests!status' \in {"ok", "failed"}
        BY <1>2, <2>1, <3>1, <3>3 DEF Requests!status
      <4> QED BY <2>1, <3>1, <4>1 DEF Requests!Promise!Next, Requests!Promise!Answer
    <3> QED BY <3>2, <3>3
  <2> QED BY <2>1, <2>2, <2>3
<1>4. CASE Requests!Call
  <2>1. plan \in Requests!Plans
    BY DEF RequestsInv
  <2>2. ~ r'.aborted /\ (r'.out # <<>> => \E o \in Verdict : o.ok /\ r'.out = <<o>>)
    BY <1>4, <2>1, CallKept
  <2>3. calls < MaxCalls /\ calls' = calls + 1 /\ ~ r.live
    BY <1>2, <1>4 DEF Requests!Call, Requests!Busy
  <2>4. Requests!status # "running"
    BY <2>3, StatusOf
  <2>5. Requests!status' \in {"running", "ok"}
    <3>1. CASE r'.out = <<>>
      BY <1>2, <2>2, <2>3, <3>1 DEF Requests!status
    <3>2. CASE r'.out # <<>>
      <4>1. PICK o : o.ok /\ r'.out = <<o>>
        BY <2>2, <3>2
      <4>2. Len(<<o>>) = 1 /\ <<o>>[1] = o
        OBVIOUS
      <4> QED BY <1>2, <2>3, <3>2, <4>1, <4>2 DEF Requests!status
    <3> QED BY <3>1, <3>2
  <2> QED BY <2>3, <2>4, <2>5 DEF Requests!Promise!Next, Requests!Promise!Call
<1>5. CASE Requests!Abort
  <2>1. r.live /\ calls' = calls /\ plan \in Requests!Plans
    BY <1>2, <1>5 DEF Requests!Abort, Requests!Busy, RequestsInv
  <2>2. r'.aborted /\ r'.out = <<>>
    BY <1>2, <1>5, <2>1, HeldAbort
  <2>3. Requests!status = "running" /\ Requests!status' = "cancelled"
    BY <1>2, <2>1, <2>2, StatusOf DEF Requests!status
  <2> QED BY <2>1, <2>3 DEF Requests!Promise!Next, Requests!Promise!Cancel
<1> QED BY <1>3, <1>4, <1>5 DEF Requests!Next

(* The other parts of a run leave the requestors alone.                    *)
RequestsPart == IF part = "requests" THEN RequestsInv ELSE calls = 0 /\ r = Requests!Idle

(* It is invariant.                                                        *)
LEMMA RequestsHold ==
  ASSUME ~ Throws
  PROVE  SpecParts => []RequestsPart
<1>1. InitParts => RequestsPart
  BY RequestsInit DEF InitParts, RequestsPart
<1>2. RequestsPart /\ [NextPart]_all => RequestsPart'
  <2> SUFFICES ASSUME RequestsPart, [NextPart]_all PROVE RequestsPart'
    OBVIOUS
  <2>1. part' = part
    BY DEF NextPart, all
  <2>2. CASE part = "requests"
    <3>1. Requests!Next \/ UNCHANGED requests
      BY <2>2 DEF NextPart, all
    <3> QED BY <2>1, <2>2, <3>1, RequestsNext DEF RequestsPart
  <2>3. CASE part # "requests"
    <3>1. calls' = calls /\ r' = r
      BY <2>3 DEF NextPart, all, requests
    <3> QED BY <2>1, <2>3, <3>1 DEF RequestsPart
  <2> QED BY <2>2, <2>3
<1> QED BY <1>1, <1>2, PTL DEF SpecParts

(***************************************************************************)
(* What was started is not left running: when a call of a factory has      *)
(* ended, or its caller has cancelled it, every requestor that still runs  *)
(* was cancelled, once, as was each that answered before it returned its   *)
(* cancel function, and no other ever is; while the call goes on no more   *)
(* of them run than the throttle allows, unless one threw after it had     *)
(* answered.                                                               *)
(***************************************************************************)
THEOREM RequestorsStopped ==
  ASSUME ~ Throws
  PROVE  SpecParts => []NothingLeft
<1>1. RequestsPart => NothingLeft
  BY NothingLeftRight DEF RequestsPart, NothingLeft
<1> QED BY <1>1, RequestsHold, PTL

(***************************************************************************)
(* A callback is told what the requestors answered: all the required ones  *)
(* succeeded (parallel), each with the value of the one before it          *)
(* (sequence), or it was the first to succeed (race, fallback); a failure  *)
(* is theirs, or that of the time limit; unless one of the requestors      *)
(* threw after it had answered.                                            *)
(***************************************************************************)
THEOREM OutcomesTold ==
  ASSUME ~ Throws
  PROVE  SpecParts => []Outcomes
<1>1. RequestsPart => Outcomes
  BY OutcomesRight DEF RequestsPart, Outcomes
<1> QED BY <1>1, RequestsHold, PTL

(***************************************************************************)
(* The factories implement Requestor: a callback is called once, unless    *)
(* the caller cancels, and then never.                                     *)
(***************************************************************************)
THEOREM FactoriesPromise ==
  ASSUME ~ Throws
  PROVE  SpecParts => PromiseKept
<1>1. InitParts => Requests!Promise!Init
  <2> SUFFICES ASSUME InitParts PROVE Requests!Promise!Init
    OBVIOUS
  <2>1. calls = 0
    BY DEF InitParts, Requests!Init
  <2> QED BY <2>1 DEF Requests!Promise!Init, Requests!status
<1>2. RequestsPart /\ [NextPart]_all => [Requests!Promise!Next]_<<calls, Requests!status>>
  <2> SUFFICES ASSUME RequestsPart, [NextPart]_all
               PROVE  Requests!Promise!Next \/ UNCHANGED <<calls, Requests!status>>
    OBVIOUS
  <2>1. CASE part = "requests" /\ Requests!Next
    BY <2>1, PromiseStep DEF RequestsPart
  <2>2. CASE UNCHANGED requests
    BY <2>2 DEF requests, Requests!status
  <2> QED BY <2>1, <2>2 DEF NextPart, all
<1> QED BY <1>1, <1>2, RequestsHold, PTL DEF SpecParts, PromiseKept, Requests!Promised, Requests!Promise!Spec

=============================================================================
