------------------------------- MODULE SWFLoad -------------------------------
(***************************************************************************)
(* SWFFile (src/SWFFile.cpp): load opens a file, unpacks it into a buffer  *)
(* of the size its header claims, and splits that into tags.  One action   *)
(* is a call of the system, of zlib or of the allocator together with what *)
(* the code does about its result, or one turn of the loop over the tags.  *)
(* A client may load several files into one object.                        *)
(*                                                                         *)
(* An exception leaves load without cleaning up; main does not catch any.  *)
(* Left out: frameSize, and isExtraLength, which nothing reads.            *)
(***************************************************************************)
EXTENDS Integers, SequencesExt

CONSTANTS
    Files,      \* what may be on the disk, see Unreadable
    Junk,       \* the bytes that uninitialised or foreign memory may hold
    Memory,     \* no allocation up to this size fails
    MaxLoads    \* bound of the model: calls of load

HeaderSize == 8

(***************************************************************************)
(* A file: whether it can be opened, its size, and - if that is at least   *)
(* HeaderSize - its header and what follows.  "data" is the rest of a      *)
(* plain file, and of a compressed one what zlib makes of it; "intact"     *)
(* says that the compressed stream comes to its end.  An undamaged file is *)
(* "sound", "meant" is the list of its tags, and "cuts" where the first of *)
(* them begins and each of them ends.                                      *)
(***************************************************************************)
Unreadable ==
    [opens |-> FALSE, size |-> 0, packing |-> "F", signature |-> FALSE, version |-> 0,
     filesize |-> 0, data |-> <<>>, intact |-> FALSE, sound |-> FALSE, meant |-> <<>>,
     cuts |-> <<>>]

\* A length with one of the upper bits is just huge (a bound of the model).
Huge == 2^30

(***************************************************************************)
(* What the format says an undamaged file is.  This is what the code is    *)
(* compared with, and not taken from load: it says where the tags are, not *)
(* how to read them.  Such a file is small enough to be held in memory.    *)
(***************************************************************************)

\* Numbers of two bytes and of four, the lowest first.
Word16(data, p) == data[p + 1] + 256 * data[p + 2]
Word32(data, p) == Word16(data, p) + 65536 * Word16(data, p + 2)

\* RECORDHEADER of the format, and the content: the length of a tag shares a
\* word with its type, or it is a word of its own behind that.
IsContent(content, data, from, to, length) ==
    /\ Len(content) = length
    /\ from + length = to
    /\ content = SubSeq(data, from + 1, to)

IsRecord(data, from, to, tag) ==
    LET code   == Word16(data, from)
        length == code % 64
    IN  /\ code \div 64 = tag.type
        /\ \/ length < 63 /\ IsContent(tag.content, data, from + 2, to, length)
           \/ /\ length = 63
              /\ from + 6 <= to
              /\ IsContent(tag.content, data, from + 6, to, Word32(data, from + 2))

\* Five bits, four fields as wide as they say, rate and count of the frames.
FrameEnd(data) == (5 + 4 * (data[1] \div 8) + 7) \div 8 + 4

\* One record behind the other, from the frame data to the end.
IsLaidOut(data, cuts, tags) ==
    /\ data # <<>>
    /\ cuts \in Seq(Nat)
    /\ Len(cuts) = Len(tags) + 1
    /\ cuts[1] = FrameEnd(data)
    /\ cuts[Len(cuts)] = Len(data)
    /\ \A i \in DOMAIN tags : cuts[i] < Len(data) /\ IsRecord(data, cuts[i], cuts[i + 1], tags[i])

IsSound(f) ==
    /\ f.opens
    /\ f.signature
    /\ f.filesize = HeaderSize + Len(f.data)
    /\ Len(f.data) <= Memory
    /\ Len(f.data) < Huge
    /\ \/ f.packing = "F" /\ f.size = f.filesize
       \/ f.packing = "C" /\ f.intact /\ f.size \in HeaderSize..(HeaderSize + Memory)
    /\ IsLaidOut(f.data, f.cuts, f.meant)

ASSUME FilesAssumption == \A f \in Files : f.data \in Seq(0..255) /\ f.filesize \in Nat

\* What is called sound is laid out by the rules of the format.
ASSUME SoundAssumption ==
    \A f \in Files : f.sound => f.meant \in Seq([type : 0..255, content : Seq(0..255)]) /\ IsSound(f)

ASSUME MemoryAssumption == Memory \in Nat

VARIABLES
    file,       \* the file of the current or last load
    junk,       \* the byte outside of what was read
    pc,         \* "idle" between calls; "threw", "crashed", "gone" are final
    fd,         \* the descriptor is "open" or "closed"
    heap,       \* which of the buffers "buf" and "buf_c" are allocated
    result,     \* the result, so far or of the last load
    obj,        \* the members of the SWFFile
    at,         \* the place of the DataReader
    before,     \* history: obj when load was called
    trouble,    \* history: the system or zlib refused something this load
    loads       \* history: how many calls there were

vars == <<file, junk, pc, fd, heap, result, obj, at, before, trouble, loads>>

\* The DataReader on buf.  (A rectangle ends where it ends for either char.)
D == INSTANCE BitReader WITH
       Buffers <- {}, Behind <- Junk, Sizes <- {}, Lengths <- {}, buf <- file.data,
       behind <- junk, signed <- TRUE, cur <- at, bit <- 0, last <- <<>>

Size == file.filesize - HeaderSize

Init ==
    /\ file = Unreadable
    /\ junk \in Junk
    /\ pc = "idle"
    /\ fd = "closed"
    /\ heap = {}
    /\ result = FALSE
    /\ obj = [version |-> 10, compression |-> "F", frame |-> <<0, 0>>, tags |-> <<>>]
    /\ at = 0
    /\ before = obj
    /\ trouble = FALSE
    /\ loads = 0

-----------------------------------------------------------------------------
Call(f) ==
    /\ pc = "idle"
    /\ loads < MaxLoads
    /\ loads' = loads + 1
    /\ file' = f
    /\ pc' = "open"
    /\ result' = TRUE
    /\ before' = obj
    /\ trouble' = FALSE
    /\ at' = 0
    /\ UNCHANGED <<junk, fd, heap, obj>>

Open ==
    /\ pc = "open"
    /\ IF file.opens THEN fd' = "open" /\ pc' = "stat" /\ UNCHANGED result
                     ELSE pc' = "idle" /\ result' = FALSE /\ UNCHANGED fd
    /\ UNCHANGED <<file, junk, heap, obj, at, before, trouble, loads>>

\* Mutant of Refuse: return false without close(fd).
RefuseOpen(why) ==
    /\ result' = FALSE
    /\ pc' = "idle"
    /\ trouble' = why
    /\ UNCHANGED <<file, junk, fd, heap, at, before, loads>>

\* close(fd); return false, before anything has been allocated.
Refuse(why) ==
    /\ fd' = "closed"
    /\ result' = FALSE
    /\ pc' = "idle"
    /\ trouble' = why
    /\ UNCHANGED <<file, junk, heap, at, before, loads>>

Go(to) == pc' = to /\ UNCHANGED <<file, junk, at, before, loads>>

Stat ==
    /\ pc = "stat"
    /\ \/ Go("header") /\ UNCHANGED <<fd, heap, result, trouble>>
       \/ Refuse(TRUE)
    /\ UNCHANGED obj

\* The version is kept before anything has been tested.
ReadHeader ==
    /\ pc = "header"
    /\ \/ /\ file.size >= HeaderSize
          /\ obj' = [obj EXCEPT !.version = file.version]
          /\ Go("signature")
          /\ UNCHANGED <<fd, heap, result, trouble>>
       \/ Refuse(file.size >= HeaderSize) /\ UNCHANGED obj

CheckSignature ==
    /\ pc = "signature"
    /\ IF file.signature THEN Go("allocate") /\ UNCHANGED <<fd, heap, result, trouble>>
                      ELSE Refuse(FALSE)
    /\ UNCHANGED obj

\* filesize below 8 wraps: no such array.  The exception leaves fd open.
Allocate ==
    /\ pc = "allocate"
    /\ \/ /\ Size >= 0
          /\ heap' = heap \cup {"buf"}
          /\ Go("payload")
       \/ /\ Size \notin 0..Memory
          /\ Go("threw")
          /\ UNCHANGED heap
    /\ UNCHANGED <<fd, result, obj, trouble>>

-----------------------------------------------------------------------------
\* The switch over the first byte of the signature.
Packed(as) == pc = "payload" /\ file.packing = as

ReadPlain ==
    /\ Packed("F")
    /\ obj' = [obj EXCEPT !.compression = "F"]
    /\ \/ result' = (file.size = file.filesize) /\ UNCHANGED trouble
       \/ result' = FALSE /\ trouble' = TRUE
    /\ Go("close")
    /\ UNCHANGED <<fd, heap>>

AllocatePacked ==
    /\ Packed("C")
    /\ obj' = [obj EXCEPT !.compression = "C"]
    /\ \/ heap' = heap \cup {"buf_c"} /\ Go("inflate")
       \/ file.size - HeaderSize > Memory /\ Go("threw") /\ UNCHANGED heap
    /\ UNCHANGED <<fd, result, trouble>>

\* inflate(Z_FINISH) = Z_STREAM_END: all of the stream is there, and fits.
\* It may be shorter than buf, the rest of which stays uninitialised.
Inflates == file.intact /\ Len(file.data) <= Size

Inflate ==
    /\ pc = "inflate"
    /\ \/ result' = Inflates /\ UNCHANGED trouble
       \/ result' = FALSE /\ trouble' = TRUE
    /\ heap' = heap \ {"buf_c"}
    /\ Go("close")
    /\ UNCHANGED <<fd, obj>>

\* 'Z', because SWF_USE_LZMA is not defined, and all other letters.
NotSupported ==
    /\ pc = "payload"
    /\ file.packing \notin {"F", "C"}
    /\ result' = FALSE
    /\ Go("close")
    /\ UNCHANGED <<fd, heap, obj, trouble>>

\* Mutant of CloseFile: the buffer is parsed whatever is in it.
CloseFileAnyway ==
    /\ pc = "close"
    /\ fd' = "closed"
    /\ Go("frame")
    /\ UNCHANGED <<heap, result, obj, trouble>>

\* Mutant of CloseFile: another attempt when the first one failed.
CloseFileRetry ==
    /\ pc = "close"
    /\ fd' = IF result THEN "closed" ELSE fd
    /\ Go(IF result THEN "frame" ELSE "allocate")
    /\ UNCHANGED <<heap, result, obj, trouble>>

CloseFile ==
    /\ pc = "close"
    /\ fd' = "closed"
    /\ Go(IF result THEN "frame" ELSE "free")
    /\ UNCHANGED <<heap, result, obj, trouble>>

-----------------------------------------------------------------------------
(***************************************************************************)
(* The reader tests no bounds.  What lies behind buf is read as junk, or   *)
(* kills the process; a length that is too large may also be an exception  *)
(* of std::string.                                                         *)
(***************************************************************************)
Parsing(to) == pc' = to /\ UNCHANGED <<file, junk, fd, heap, result, before, trouble, loads>>

DiesBehind(end, ways) ==
    /\ end > Size
    /\ \E way \in ways : Parsing(way)
    /\ UNCHANGED <<obj, at>>

ReadFrame ==
    /\ pc = "frame"
    /\ LET rect  == D!RECT(0, 0)
           rate  == D!Load(D!Aligned(rect.cur, rect.bit), 2)
           count == D!Load(rate.cur, 2)
       IN  \/ /\ obj' = [obj EXCEPT !.frame = <<D!Number(rate.val), D!Number(count.val)>>]
              /\ at' = count.cur
              /\ Parsing("tags")
           \/ DiesBehind(count.cur, {"crashed"})

Length(word) == IF word \cap {30, 31} # {} THEN Huge ELSE D!Number(word)

\* What was copied from behind the buffer, and what reaches into a part of the
\* buffer that nothing has been unpacked into: not the bytes of any file.
Foreign == <<-1>>
Uninitialised == <<-2>>

\* Stored in a uint8_t.
TagType(code) == (code \div 64) % 256

\* Mutant of LongForm: a length of 62 is taken for the mark.
LongFormLoose(code) == code % 64 >= 62

LongForm(code) == code % 64 = 63

Tag(code, from, to) ==
    [type |-> TagType(code),
     content |-> IF to <= Len(file.data) THEN SubSeq(file.data, from + 1, to)
                 ELSE IF to <= Size THEN Uninitialised
                 ELSE Foreign]

\* Mutant of Eof: behind the end is not at the end.
EofExact == at = Size

Eof == at >= Size

ReadTag ==
    /\ pc = "tags"
    /\ ~Eof
    /\ LET head  == D!Load(at, 2)
           code  == D!Number(head.val)
           long  == D!Load(head.cur, 4)
           from  == IF LongForm(code) THEN long.cur ELSE head.cur
           to    == from + (IF LongForm(code) THEN Length(long.val) ELSE code % 64)
       IN  \/ /\ obj' = [obj EXCEPT !.tags = Append(@, Tag(code, from, to))]
              /\ at' = to
              /\ Parsing("tags")
           \/ DiesBehind(to, {"crashed", "threw"})

LeaveTags ==
    /\ pc = "tags"
    /\ Eof
    /\ Parsing("free")
    /\ UNCHANGED <<obj, at>>

\* delete [] buf; return result
Free ==
    /\ pc = "free"
    /\ heap' = heap \ {"buf"}
    /\ Go("idle")
    /\ UNCHANGED <<fd, result, obj, trouble>>

\* ~SWFFile
Destroy ==
    /\ pc = "idle"
    /\ obj' = [obj EXCEPT !.tags = <<>>]
    /\ pc' = "gone"
    /\ UNCHANGED <<file, junk, fd, heap, result, at, before, trouble, loads>>

Loading ==
    \/ Open
    \/ Stat
    \/ ReadHeader
    \/ CheckSignature
    \/ Allocate
    \/ ReadPlain
    \/ AllocatePacked
    \/ Inflate
    \/ NotSupported
    \/ CloseFile
    \/ ReadFrame
    \/ ReadTag
    \/ LeaveTags
    \/ Free

InLoad == pc \notin {"idle", "threw", "crashed", "gone"}

\* The object or the process is gone: with this step, a deadlock is a load
\* that is stuck.
Ended == pc \in {"threw", "crashed", "gone"} /\ UNCHANGED vars

Next ==
    \/ \E f \in Files : Call(f)
    \/ Loading
    \/ Destroy
    \/ Ended

\* The calls load makes return, with one result or another; nobody must call.
\* This is WF_vars(Loading), with InLoad for ENABLED Loading, which TLC is
\* slow to evaluate: that they are the same is what the check for deadlock
\* shows.
Fairness == []<>~InLoad \/ []<><<Loading>>_vars

Spec == Init /\ [][Next]_vars /\ Fairness

-----------------------------------------------------------------------------
(***************************************************************************)
(* Properties.                                                             *)
(***************************************************************************)

\* Whichever of the many ways load takes to return, the descriptor is closed
\* and both buffers are freed.
NothingLeaks == pc = "idle" => fd = "closed" /\ heap = {}

\* A load that returns false has not touched the tags and the frame data that
\* an earlier load left in the object.  (Version and compression it has.)
FailureKeepsContent ==
    pc = "idle" /\ ~result =>
      obj.tags = before.tags /\ obj.frame = before.frame

\* The tags this load has added so far.
Added == SubSeq(obj.tags, Len(before.tags) + 1, Len(obj.tags))

\* An undamaged file is refused only when the system or zlib refuses, and
\* otherwise its tags, all of them and in order, are behind those that were
\* there; nothing of it is read from outside of the buffer.
UndamagedIsLoaded ==
    file.sound =>
      /\ pc \notin {"threw", "crashed"}
      /\ pc = "idle" /\ ~trouble => result
      /\ pc = "idle" /\ result => obj.tags = before.tags \o file.meant

\* Lengths are believed, and where the stream was too short they are anything;
\* but the first tag that leaves the buffer is the last one of its load: of all
\* others, none holds memory from behind the buffer.
OnlyLastOverruns == \A i \in 1..(Len(Added) - 1) : Added[i].content # Foreign

\* Every load returns, throws or crashes, whatever is in the file.
Terminates == pc = "open" ~> pc \in {"idle", "threw", "crashed"}

=============================================================================
