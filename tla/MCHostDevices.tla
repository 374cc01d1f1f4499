---------------------------- MODULE MCHostDevices ----------------------------
(***************************************************************************)
(* The devices of the host for TLC: a run has one of them, so that what it *)
(* explores is the sum of their state spaces.                              *)
(***************************************************************************)
EXTENDS Integers, Sequences, FiniteSets

CONSTANTS
    Devices,                  \* the devices the run considers
    Reqs, MaxOpens,           \* see HostCalls and TcpDevice
    Timers, Cells,            \* see TimerDevice
    Reads, Typed,             \* see IoDevice
    Blobs, Actors, Byte, Jobs, MaxWrites       \* see BlobDevice

ASSUME HostDevicesAssumption ==
    /\ Reqs = 1..Cardinality(Reqs) /\ Reads = 1..Cardinality(Reads)
    /\ 0 \notin Timers /\ 0 \notin Cells
    /\ MaxOpens \in Nat /\ MaxWrites \in Nat
    /\ Typed \in Seq(Nat)
    /\ \A n \in DOMAIN Blobs : Blobs[n] \in Seq(Byte)

VARIABLES device, core, dev

vars == <<device, core, dev>>

Tcp == INSTANCE TcpDevice
Fs == INSTANCE FsDevice
Timer == INSTANCE TimerDevice
Io == INSTANCE IoDevice
Blob == INSTANCE BlobDevice

Idle == Tcp!NewCore(FALSE)

Init ==
    /\ device \in Devices
    /\ \/ device = "tcp" /\ Tcp!Init
       \/ device = "fs" /\ Fs!Init
       \/ device = "timer" /\ Timer!Init /\ core = Idle
       \/ device = "io" /\ Io!Init /\ core = Idle
       \/ device = "blob" /\ Blob!Init /\ core = Idle

Next ==
    /\ UNCHANGED device
    /\ \/ device = "tcp" /\ Tcp!Next
       \/ device = "fs" /\ Fs!Next
       \/ device = "timer" /\ Timer!Next /\ UNCHANGED core
       \/ device = "io" /\ Io!Next /\ UNCHANGED core
       \/ device = "blob" /\ Blob!Next /\ UNCHANGED core

Spec == Init /\ [][Next]_vars

(* A step of the TCP or of the filesystem device.                          *)
Either(tcp, fs) ==
    /\ UNCHANGED device
    /\ (device = "tcp" /\ tcp) \/ (device = "fs" /\ fs)

(* The host runs the core again and again, calls into it return, callbacks *)
(* that wait run, and transports and filesystems end what they have begun. *)
FairSpec ==
    /\ Spec
    /\ WF_vars(Either(Tcp!Enter, Fs!Enter))
    /\ WF_vars(Either(Tcp!Return, Fs!Return))
    /\ WF_vars(Either(Tcp!Call, Fs!Call))
    /\ SF_vars(Either(Tcp!Handle, Fs!Handle))
    /\ SF_vars(Either(\E r \in Reqs : Tcp!Complete(r), \E r \in Reqs : Fs!Complete(r)))

(* What the actors have made: a blob that is two ranges of others, a leaf, *)
(* a leaf and a range, and a leaf that does not answer source requests.    *)
MCTyped == <<1, 2, 1>>
MCBlobs == <<<<0, 1>>, <<1, 1, 0>>>>
MCActors ==
    LET leaf == [kind |-> "leaf", bytes |-> <<1, 0>>, sources |-> TRUE, tag |-> 9]
        mute == [leaf EXCEPT !.sources = FALSE]
        part(of, name, base, len) ==
            [src |-> [of |-> of, name |-> name], base |-> base, len |-> len]
        made(parts) == [kind |-> "composed", parts |-> parts, sources |-> TRUE, tag |-> 9]
    IN  [leaf |-> leaf, mute |-> mute,
         pair |-> made(<<part("device", 2, 1, 2), part("device", 1, 0, 1)>>),
         both |-> made(<<part("actor", "leaf", 0, 2), part("device", 2, 2, 1)>>)]
(* The same with a slice of a leaf.                                        *)
MCSliced ==
    [a \in {"slice"} \cup DOMAIN MCActors |->
       IF a = "slice"
       THEN [MCActors["both"] EXCEPT !.parts =
               <<[@[1] EXCEPT !.base = 1, !.len = 1]>>]
       ELSE MCActors[a]]

-----------------------------------------------------------------------------
(* Properties, each of the device it is about.                             *)

TypeOK ==
    CASE device = "tcp" -> Tcp!TypeOK
      [] device = "fs" -> Fs!TypeOK
      [] device = "timer" -> Timer!TypeOK
      [] device = "io" -> Io!TypeOK
      [] device = "blob" -> Blob!TypeOK

(* Connections and files: no operation is begun while another is under way.*)
OneOperation ==
    /\ device = "tcp" => Tcp!OneOperation
    /\ device = "fs" => Fs!OneOperation

(* A request is answered once at most, and has its event stub released     *)
(* exactly then; see TcpDevice and FsDevice.                               *)
AnsweredReleased ==
    /\ device = "tcp" => Tcp!AnsweredReleased
    /\ device = "fs" => Fs!AnsweredReleased

(* Connections and files whose capability the device was told is gone are  *)
(* given back, once; files also with the core, if they were not before.    *)
ForgottenReleased ==
    /\ device = "tcp" => Tcp!NeverReadDisposed
    /\ device = "fs" => Fs!ClosedOnce

(* See TimerDevice.                                                        *)
TimerOnce == device = "timer" => Timer!TimerOnce

(* See IoDevice.                                                           *)
InputInOrder == device = "io" => Io!InOrder /\ Io!NoIdleRead

(* See BlobDevice.                                                         *)
ChunksExact == device = "blob" => Blob!ChunksExact

(* Every request a device has accepted is answered, unless the core is     *)
(* disposed of: whatever it was waiting for, and however its answer is     *)
(* nested in others.  The request to stop listening has no answer.         *)
RequestsAnswered ==
    \A r \in Reqs :
        (device \in {"tcp", "fs"} /\ core.stub[r] = 1 /\ core.asked[r].kind # "stop")
            ~> (core.disposed \/ core.answers[r] = 1)

(* Violated.  See the modules of the devices.                              *)
ForgottenDisposed == device = "tcp" => Tcp!ForgottenDisposed
ForgottenClosed == device = "fs" => Fs!ForgottenClosed
DropTold == device = "tcp" => Tcp!DropTold
OnlyOwnCancel == device = "timer" => Timer!OnlyOwnCancel
=============================================================================
