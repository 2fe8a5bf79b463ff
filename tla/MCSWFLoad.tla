------------------------------ MODULE MCSWFLoad ------------------------------
(***************************************************************************)
(* Instances of SWFLoad for TLC: files written from lists of tags, plain   *)
(* and compressed, and damaged in every way load looks for or overlooks.   *)
(***************************************************************************)
EXTENDS SWFLoad

\* A rectangle of 15 bits a coordinate (as in src/examples), rate and count.
Frame == <<120, 0, 6, 239, 0, 0, 10, 40, 0>> \o <<0, 24>> \o <<1, 0>>

TagOf(type, content) == [type |-> type, content |-> content]

Sixty == [i \in 1..62 |-> i]

\* RECORDHEADER of the format, short or long.
ShortTag(t) ==
    LET code == 64 * t.type + Len(t.content)
    IN  <<code % 256, code \div 256>> \o t.content
LongTag(t) ==
    LET code == 64 * t.type + 63
    IN  <<code % 256, code \div 256, Len(t.content), 0, 0, 0>> \o t.content

Tags == <<TagOf(69, <<8, 0, 0, 0>>), TagOf(82, <<1>>), TagOf(1, Sixty), TagOf(0, <<>>)>>
Body == Frame \o ShortTag(Tags[1]) \o LongTag(Tags[2]) \o ShortTag(Tags[3]) \o ShortTag(Tags[4])

\* 325 is 69 in eight bits.
Wide == Frame \o ShortTag(TagOf(325, <<>>))

File(packing, data) ==
    [opens |-> TRUE, size |-> HeaderSize + Len(data), packing |-> packing, signature |-> TRUE,
     version |-> 9, filesize |-> HeaderSize + Len(data), data |-> data, intact |-> TRUE,
     sound |-> FALSE, meant |-> <<>>, cuts |-> <<>>]

\* 13 bytes of frame data, and the four tags.
Good(packing) ==
    [File(packing, Body) EXCEPT !.sound = TRUE, !.meant = Tags, !.cuts = <<13, 19, 26, 90, 92>>]

MCMemory == 200

\* What can be wrong with a file.
Bad ==
    {Unreadable,
     [File("F", Body) EXCEPT !.size = 5],
     [File("F", Body) EXCEPT !.signature = FALSE],
     [File("F", Body) EXCEPT !.filesize = 3],
     [File("F", Body) EXCEPT !.filesize = @ + 1],
     [File("F", Body) EXCEPT !.filesize = MCMemory + 9],
     File("Z", Body),
     [File("C", Body) EXCEPT !.intact = FALSE],
     [File("C", Body) EXCEPT !.filesize = @ - 1],
     [File("C", Body) EXCEPT !.filesize = @ + 3],
     [File("C", Body) EXCEPT !.size = MCMemory + 9],
     File("F", SubSeq(Frame, 1, 11)),
     File("F", Wide),
     File("F", Frame \o <<67, 0, 1>>),
     File("F", Frame \o <<64, 0, 64>>),
     File("F", Frame \o <<127, 0, 255, 255, 255, 255, 7>>)}

MCFiles == {Good("F"), Good("C")} \cup Bad

=============================================================================
