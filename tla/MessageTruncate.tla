-------------------------- MODULE MessageTruncate --------------------------
(***************************************************************************)
(* lwmessage_truncate of lwutil.c: the part of a message between startpos  *)
(* and endpos (0-based, inclusive), cut to at most maxlength characters    *)
(* with "..." at the end that lost characters.  A C string is a sequence   *)
(* of its characters without the NUL; a pointer str + k into it is the     *)
(* suffix from offset k.  The characters are abstracted to their own       *)
(* offsets, so every character of a message is distinct and a range off   *)
(* by one is a different string.                                           *)
(***************************************************************************)
EXTENDS Integers, Sequences

CONSTANTS
    StrLens,        \* lengths of the messages passed in
    MaxLengths      \* values of maxlength

ASSUME StrLens \subseteq Nat \ {0} /\ MaxLengths \subseteq Nat

Dot == "."
Ellipsis == << Dot, Dot, Dot >>

\* str + k: the string from offset k up to its NUL.
Suffix(s, k) == SubSeq(s, k + 1, Len(s))

\* strncat(dest, src, n): at most n characters of src, fewer if its NUL
\* comes first, appended to dest (and a new NUL after them).
strncat(dest, src, n) == dest \o SubSeq(src, 1, IF n < Len(src) THEN n ELSE Len(src))

\* lwalloc(maxlength + 4): room for maxlength characters, a "..." that
\* maxlength cannot hold, and the NUL.
OutputAlloc_short(maxlength) == maxlength + 3

OutputAlloc(maxlength) == maxlength + 4

\* The range when it has fewer than maxlength + 1 characters (both directions).
WholeRange(str, startpos, endpos) == strncat(<< >>, Suffix(str, startpos), endpos - startpos + 1)

\* Mutant of StartTruncation: the start of the kept tail drops the + 1.
StartTruncation_off(str, endpos, maxlength) ==
    IF maxlength >= 3
    THEN strncat(strncat(<< >>, Ellipsis, 4), Suffix(str, endpos - maxlength + 3), maxlength - 3)
    ELSE strncat(<< >>, Ellipsis, 4)

\* Start truncation of a range that does not fit: "..." then the last
\* maxlength - 3 characters up to endpos, or "..." alone.
StartTruncation(str, endpos, maxlength) ==
    IF maxlength >= 3
    THEN strncat(strncat(<< >>, Ellipsis, 4), Suffix(str, endpos + 1 - maxlength + 3), maxlength - 3)
    ELSE strncat(<< >>, Ellipsis, 4)

\* End truncation of a range that does not fit: the first maxlength - 3
\* characters from startpos then "...", or "..." alone.
EndTruncation(str, startpos, maxlength) ==
    IF maxlength >= 3
    THEN strncat(strncat(<< >>, Suffix(str, startpos), maxlength - 3), Ellipsis, 4)
    ELSE strncat(<< >>, Ellipsis, 4)

\* lwmessage_truncate: the string written into the lwalloc'ed output and
\* the number of bytes allocated for it.  Any direction other than 0
\* (start) and 1 (end) leaves the output empty.
lwmessage_truncate(str, startpos, endpos, maxlength, truncdirection) ==
    LET fits == endpos - startpos < maxlength
    IN  [out |-> CASE truncdirection = 0 ->
                        IF fits THEN WholeRange(str, startpos, endpos)
                        ELSE StartTruncation(str, endpos, maxlength)
                   [] truncdirection = 1 ->
                        IF fits THEN WholeRange(str, startpos, endpos)
                        ELSE EndTruncation(str, startpos, maxlength)
                   [] OTHER -> << >>,
         alloc |-> OutputAlloc(maxlength)]

\* The function's own description: the characters startpos..endpos, and
\* when there are more than maxlength of them, the first (direction 0) or
\* last (direction 1) ones replaced by "..." so that maxlength remain.
DocTruncate(str, startpos, endpos, maxlength, truncdirection) ==
    LET range == SubSeq(str, startpos + 1, endpos + 1)
        keep == maxlength - 3
    IN  IF Len(range) <= maxlength THEN range
        ELSE IF truncdirection = 0
             THEN Ellipsis \o SubSeq(range, Len(range) - keep + 1, Len(range))
             ELSE SubSeq(range, 1, keep) \o Ellipsis

-----------------------------------------------------------------------------
(* One call at a time, with arguments a caller can pass: a message of a    *)
(* length in StrLens, 0 <= startpos <= endpos < its length, and the two    *)
(* directions the function defines.                                        *)

Msg(n) == [i \in 1..n |-> i]

Args ==
    UNION {[str : {Msg(n)}, startpos : 0..(n - 1), endpos : 0..(n - 1),
            maxlength : MaxLengths, truncdirection : {0, 1}] : n \in StrLens}

ValidArgs == {a \in Args : a.startpos <= a.endpos}

VARIABLES
    call,       \* the arguments of the last call
    result      \* what it returned: [out, alloc]

vars == <<call, result>>

\* Before the first call.
NoCall == [str |-> << >>, startpos |-> 0, endpos |-> 0, maxlength |-> 0, truncdirection |-> 0]

NoResult == [out |-> << >>, alloc |-> 0]

Init == call = NoCall /\ result = NoResult

Call(a) ==
    /\ call' = a
    /\ result' = lwmessage_truncate(a.str, a.startpos, a.endpos, a.maxlength,
                                    a.truncdirection)

Next == \E a \in ValidArgs : Call(a)

Spec == Init /\ [][Next]_vars

Called == call.str # << >>

\* Whenever maxlength leaves room for "...", the output is exactly what the
\* function's description promises: the range itself when it fits, or
\* "..." and the range's last (first) maxlength - 3 characters -- the two
\* start offsets computed in lwmessage_truncate (startpos for the range,
\* endpos + 1 - maxlength + 3 for the kept tail) agree with it.
TruncateAsDocumented ==
    Called /\ call.maxlength >= 3 =>
        result.out = DocTruncate(call.str, call.startpos, call.endpos,
                                 call.maxlength, call.truncdirection)

\* The output and its NUL fit in the maxlength + 4 bytes lwalloc'ed for it,
\* for every maxlength the function accepts, however small.
TruncateFitsAllocation == Called => Len(result.out) + 1 <= result.alloc

=============================================================================
