------------------------------ MODULE FlatFile ------------------------------
(***************************************************************************)
(* What read and write of level2.c promise of the data of files: a file is *)
(* a sequence of words with an offset, a call moves one chunk after the    *)
(* other between the file at its offset and the caller, and the data of    *)
(* other files is not touched.  There are no blocks here; FileBlocks is    *)
(* shown to implement this module.                                         *)
(***************************************************************************)
EXTENDS Naturals, Sequences

CONSTANTS
    File,      \* the files
    Word,      \* the data a word of a file may hold
    Request    \* the numbers of words a call may ask for

VARIABLES
    content,   \* content[f]: the words of file f; <<>> if it does not exist
    offset,    \* offset[f]: the offset of its entry in the open file table
    call       \* the read or write that is being executed

vars == <<content, offset, call>>

Idle == [op |-> "idle"]

Init ==
    /\ content = [f \in File |-> <<>>]
    /\ offset = [f \in File |-> 0]
    /\ call = Idle

\* A file that is not open is removed, or a file is opened for W.
Clear(f) ==
    /\ call = Idle
    /\ content' = [content EXCEPT ![f] = <<>>]
    /\ offset' = [offset EXCEPT ![f] = 0]
    /\ UNCHANGED call

\* A file is removed that is open: the offset of its entry stays.
Remove(f) ==
    /\ call = Idle
    /\ content' = [content EXCEPT ![f] = <<>>]
    /\ UNCHANGED <<offset, call>>

\* open for R, RW or APPEND, lseek, and close of a file that is removed.
Seek(f, pos) ==
    /\ call = Idle
    /\ pos \in 0 .. Len(content[f])
    /\ offset' = [offset EXCEPT ![f] = pos]
    /\ UNCHANGED <<content, call>>

\* A read is to deliver n words, or what there is behind the offset.
ReadCall(f, n) ==
    /\ call = Idle
    /\ LET rest == IF offset[f] < Len(content[f]) THEN Len(content[f]) - offset[f] ELSE 0 IN
       call' = [op |-> "read", f |-> f, left |-> IF n < rest THEN n ELSE rest, out |-> <<>>]
    /\ UNCHANGED <<content, offset>>

ReadChunk ==
    /\ call.op = "read"
    /\ \E k \in 1 .. call.left : LET f == call.f IN
        /\ call' = [call EXCEPT !.left = @ - k,
                                !.out = @ \o SubSeq(content[f], offset[f] + 1, offset[f] + k)]
        /\ offset' = [offset EXCEPT ![f] = @ + k]
    /\ UNCHANGED content

\* A write of n words w, not behind the end of the file.
WriteCall(f, n, w) ==
    /\ call = Idle
    /\ offset[f] <= Len(content[f])
    /\ call' = [op |-> "write", f |-> f, left |-> n, word |-> w]
    /\ UNCHANGED <<content, offset>>

WriteChunk ==
    /\ call.op = "write"
    /\ \E k \in 1 .. call.left :
        LET f == call.f
            old == content[f]
            end == offset[f] + k
        IN  /\ content' = [content EXCEPT ![f] =
                 [j \in 1 .. (IF end > Len(old) THEN end ELSE Len(old)) |->
                     IF j \in offset[f] + 1 .. end THEN call.word ELSE old[j]]]
            /\ offset' = [offset EXCEPT ![f] = end]
            /\ call' = [call EXCEPT !.left = @ - k]

\* A call returns when it has moved everything.
Return ==
    /\ call # Idle /\ call.left = 0
    /\ call' = Idle
    /\ UNCHANGED <<content, offset>>

Next ==
    \/ \E f \in File :
        \/ Clear(f) \/ Remove(f)
        \/ \E pos \in 0 .. Len(content[f]) : Seek(f, pos)
        \/ \E n \in Request : ReadCall(f, n) \/ \E w \in Word : WriteCall(f, n, w)
    \/ ReadChunk
    \/ WriteChunk
    \/ Return

Spec == Init /\ [][Next]_vars
=============================================================================
