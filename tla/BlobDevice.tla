------------------------------ MODULE BlobDevice ------------------------------
(***************************************************************************)
(* The dynamic blob device (vm/js/blob_dev.js): byte arrays on the heap of *)
(* JavaScript, and the reading of any blob into chunks that the other      *)
(* devices ask for.  A blob of the device is read directly.  Of another    *)
(* blob the device asks the source of its next bytes, until there are no   *)
(* more; a source it did not issue it reads byte by byte, and so it does   *)
(* with a whole blob that has no proper answer to a source request.        *)
(*                                                                         *)
(* The other blobs are actors of the program (lib/blob.asm): slices and    *)
(* pairs of blobs, which answer a source request with part of one of them, *)
(* and leaves, which answer with themselves or with nothing of use.  They  *)
(* answer every request once.                                              *)
(***************************************************************************)
EXTENDS Naturals, Sequences, FiniteSets, SequencesExt

CONSTANTS
    Blobs,       \* [1..n -> the bytes of a blob of the device]
    Actors,      \* [names -> a blob that is an actor]
    Byte,        \* the bytes that may be written
    Jobs,        \* readings under way at the same time
    MaxWrites

(* An actor's blob is a leaf, or is composed of ranges of other blobs, in  *)
(* each of which base and len delineate bytes of a blob or of a leaf.      *)
(* sources says whether it answers source requests.  tag is what           *)
(* ddev.u_tag finds in the state of the actor: a fixnum, or none (#? is    *)
(* read as the number 0).                                                  *)
Leaf(bytes, sources, tag) ==
    [kind |-> "leaf", bytes |-> bytes, sources |-> sources, tag |-> tag]
Composed(parts) ==
    [kind |-> "composed", parts |-> parts, sources |-> TRUE, tag |-> -1]

Device(n) == [of |-> "device", name |-> n]
Actor(a) == [of |-> "actor", name |-> a]
Part(src, base, len) == [src |-> src, base |-> base, len |-> len]
Caps == {Device(n) : n \in DOMAIN Blobs} \cup {Actor(a) : a \in DOMAIN Actors}

VARIABLE dev

(* blobs : the byte arrays; jobs : [Jobs -> a reading].                    *)
(* A chunk is a view of the array of a blob, or bytes that were copied.    *)
View(n, base, len) == [view |-> n, base |-> base, len |-> len, bytes |-> <<>>]
Copy(bytes) == [view |-> 0, base |-> 0, len |-> Len(bytes), bytes |-> bytes]
NewJob == [phase |-> "idle", cap |-> Device(1), src |-> Device(1),
           chunks |-> <<>>, bytes |-> <<>>]

Init == dev = [blobs |-> Blobs, jobs |-> [j \in Jobs |-> NewJob], writes |-> 0]

-----------------------------------------------------------------------------
BytesIn(c) ==
    IF c.view = 0 THEN c.bytes
    ELSE SubSeq(dev.blobs[c.view], c.base + 1, c.base + c.len)
Total(chunks) == FoldLeft(LAMBDA n, c : n + c.len, 0, chunks)
Read(chunks) == FoldLeft(LAMBDA s, c : s \o BytesIn(c), <<>>, chunks)

(* The bytes of a blob and of a leaf.                                      *)
Contents(cap) == IF cap.of = "device" THEN dev.blobs[cap.name] ELSE Actors[cap.name].bytes

(* What a blob is, whatever reads it: the reference.                       *)
Meaning(cap) ==
    IF cap.of = "actor" /\ Actors[cap.name].kind = "composed"
    THEN FoldLeft(LAMBDA s, p : s \o SubSeq(Contents(p.src), p.base + 1, p.base + p.len),
                  <<>>, Actors[cap.name].parts)
    ELSE Contents(cap)

(* h_get_bytes: the number of the blob whose array the capability stands   *)
(* for, or 0.  It asks for the tag of any capability at all, and takes the *)
(* tag #? for the number of the first blob.                                *)
GetBytes(cap) ==
    IF cap.of = "device" THEN cap.name
    ELSE IF Actors[cap.name].tag + 1 \in DOMAIN Blobs THEN Actors[cap.name].tag + 1
    ELSE 0

(* The answer to a source request: base, length and source of the bytes at *)
(* an offset.                                                              *)
PartStart(parts, k) == FoldLeft(LAMBDA n, p : n + p.len, 0, SubSeq(parts, 1, k - 1))
SourceReply(cap, offset) ==
    IF cap.of = "actor" /\ Actors[cap.name].kind = "composed"
    THEN LET parts == Actors[cap.name].parts
             at == {k \in DOMAIN parts : /\ PartStart(parts, k) <= offset
                                         /\ offset < PartStart(parts, k) + parts[k].len}
         IN  IF at = {} THEN Part(cap, offset, 0)
             ELSE LET k == CHOOSE k \in at : TRUE
                      skip == offset - PartStart(parts, k)
                  IN  Part(parts[k].src, parts[k].base + skip, parts[k].len - skip)
    ELSE Part(cap, offset,
              IF offset > Len(Contents(cap)) THEN 0 ELSE Len(Contents(cap)) - offset)

SetJob(j, job) == dev' = [dev EXCEPT !.jobs[j] = job]

(* h_read_chunks is called with a blob.                                    *)
Start(j, cap) ==
    /\ dev.jobs[j].phase = "idle"
    /\ LET n == GetBytes(cap)
           job == [NewJob EXCEPT !.cap = cap, !.src = cap]
       IN  IF n # 0
           THEN SetJob(j, [job EXCEPT !.phase = "done",
                                      !.chunks = <<View(n, 0, Len(dev.blobs[n]))>>])
           ELSE SetJob(j, [job EXCEPT !.phase = "source"])

(* h_source_chunks: the answer to a source request has come.               *)
\* Mutant of Source: the next request is for the bytes after this chunk only.
SourceForgets(j) ==
    /\ dev.jobs[j].phase = "source"
    /\ LET job == dev.jobs[j]
           reply == SourceReply(job.cap, Total(job.chunks))
           n == GetBytes(reply.src)
       IN  IF job.cap.of = "actor" /\ ~Actors[job.cap.name].sources
           THEN SetJob(j, [job EXCEPT !.phase = "whole", !.src = job.cap])
           ELSE IF reply.len = 0
           THEN SetJob(j, [job EXCEPT !.phase = "done"])
           ELSE IF n # 0
           THEN SetJob(j, [job EXCEPT !.chunks = <<View(n, reply.base, reply.len)>>])
           ELSE SetJob(j, [job EXCEPT !.phase = "bytes", !.src = reply.src, !.bytes = <<>>])

Source(j) ==
    /\ dev.jobs[j].phase = "source"
    /\ LET job == dev.jobs[j]
           reply == SourceReply(job.cap, Total(job.chunks))
           n == GetBytes(reply.src)
       IN  IF job.cap.of = "actor" /\ ~Actors[job.cap.name].sources
           THEN SetJob(j, [job EXCEPT !.phase = "whole", !.src = job.cap])
           ELSE IF reply.len = 0
           THEN SetJob(j, [job EXCEPT !.phase = "done"])
           ELSE IF n # 0
           THEN SetJob(j, [job EXCEPT !.chunks = Append(@, View(n, reply.base, reply.len))])
           ELSE SetJob(j, [job EXCEPT !.phase = "bytes", !.src = reply.src, !.bytes = <<>>])

(* h_read_bytes: the answer to a read request has come.  The bytes of a    *)
(* source are read from its first to its last, whatever range of it was    *)
(* meant.                                                                  *)
ReadByte(j) ==
    /\ dev.jobs[j].phase \in {"bytes", "whole"}
    /\ LET job == dev.jobs[j]
           bytes == Meaning(job.src)
           offset == Len(job.bytes)
       IN  IF offset < Len(bytes)
           THEN SetJob(j, [job EXCEPT !.bytes = Append(@, bytes[offset + 1])])
           ELSE IF job.phase = "whole"
           THEN SetJob(j, [job EXCEPT !.phase = "done", !.chunks = <<Copy(job.bytes)>>])
           ELSE SetJob(j, [job EXCEPT !.phase = "source",
                                      !.chunks = Append(@, Copy(job.bytes))])

(* A write request of an actor: the effect is at once, and out of bounds   *)
(* there is none.                                                          *)
Write(n, at, byte) ==
    /\ dev.writes < MaxWrites
    /\ dev' = [dev EXCEPT !.writes = @ + 1,
                          !.blobs[n] = IF at < Len(@) THEN [@ EXCEPT ![at + 1] = byte] ELSE @]

Next ==
    \/ \E j \in Jobs, cap \in Caps : Start(j, cap)
    \/ \E j \in Jobs : Source(j)
    \/ \E j \in Jobs : ReadByte(j)
    \/ \E n \in DOMAIN Blobs, at \in 0..2, byte \in Byte : Write(n, at, byte)

-----------------------------------------------------------------------------
(* A view lies within its array: JavaScript refuses any other.            *)
TypeOK ==
    /\ dev.blobs \in [DOMAIN Blobs -> Seq(Byte)]
    /\ dev.writes \in 0..MaxWrites
    /\ \A j \in Jobs : /\ dev.jobs[j].phase \in {"idle", "source", "bytes", "whole", "done"}
                       /\ {dev.jobs[j].cap, dev.jobs[j].src} \subseteq Caps
                       /\ \A k \in DOMAIN dev.jobs[j].chunks :
                            LET c == dev.jobs[j].chunks[k]
                            IN  c.view # 0 => c.base + c.len <= Len(dev.blobs[c.view])

(* blob_dev.js:14-17: the chunks of a reading that is done, concatenated,  *)
(* comprise the bytes of the blob, as they are by now where they are views.*)
ChunksExact ==
    \A j \in Jobs : dev.jobs[j].phase = "done" =>
        Read(dev.jobs[j].chunks) = Meaning(dev.jobs[j].cap)
=============================================================================
