--------------------------------- MODULE Chunker --------------------------------
(***************************************************************************)
(* ai-gateway, chunker.service.ts: how a body is cut into overlapping      *)
(* pieces.  A body is its paragraphs, intervals <<first, end>> of the text *)
(* (end excluded), and the places of its sentence ends; the buffer of the  *)
(* code, and every piece, is such an interval too, since the tail kept for *)
(* the overlap is what precedes the next paragraph in the text.            *)
(***************************************************************************)
EXTENDS Integers, Sequences, FiniteSetsExt, SequencesExt

CONSTANTS
    Target,     \* targetChars
    Overlap,    \* overlapChars
    Gap         \* length of the separator of two paragraphs

ASSUME ChunkerAssumption ==
    /\ Target \in Nat /\ Overlap \in Nat /\ Gap \in Nat
    /\ 2 * Overlap < Target     \* otherwise the hard split may not advance
    /\ Target > 1

\* The paragraphs are not empty, and a separator apart.
IsText(body) ==
    /\ body.ends \subseteq Nat
    /\ body.paras \in Seq(Nat \X Nat)
    /\ \A i \in DOMAIN body.paras :
         /\ body.paras[i][1] = IF i = 1 THEN 0 ELSE body.paras[i - 1][2] + Gap
         /\ body.paras[i][1] < body.paras[i][2]

Size(piece) == piece[2] - piece[1]

Passages(body) == UNION {p[1]..(p[2] - 1) : p \in ToSet(body.paras)}

\* Where a long buffer is cut: after the last sentence end near the target, if it is in
\* the second half, else at the target.
CutAt(first, ends) ==
    LET near == {e \in ends : e - first <= Target /\ 2 * (e - first) > Target}
    IN  IF near = {} THEN Target ELSE Max(near) - first + 1

TooLong(piece) == 2 * Size(piece) > 3 * Target

\* Where the buffer resumes after a cut.  (Mutated: the overlap is skipped, not kept.)
ResumeAfter(cut) == cut + Overlap
Resume(cut) == cut - Overlap

\* One pass of the hard split of the buffer.
Cut(s, ends) ==
    LET cut == s.buffer[1] + CutAt(s.buffer[1], ends)
    IN  IF TooLong(s.buffer)
          THEN [out |-> s.out \cup {<<s.buffer[1], cut>>}, buffer |-> <<Resume(cut), s.buffer[2]>>]
          ELSE s

\* Pass after pass: every one shortens the buffer, if it is too long.
Passes(s, ends) ==
    LET split[k \in 0..Size(s.buffer)] == IF k = 0 THEN s ELSE Cut(split[k - 1], ends)
    IN  split

HardSplit(s, ends) == Passes(s, ends)[Size(s.buffer)]

Empty(s) == Size(s.buffer) = 0

\* The buffer becomes a piece, and its tail the next buffer.
Flush(s) ==
    [out |-> IF Empty(s) THEN s.out ELSE s.out \cup {s.buffer},
     buffer |-> IF Size(s.buffer) > Overlap
                  THEN <<s.buffer[2] - Overlap, s.buffer[2]>> ELSE <<0, 0>>]

\* Whether the paragraph goes to the next piece.
Full(s, p) == ~ Empty(s) /\ Size(s.buffer) + Gap + Size(p) > Target

AddParagraph(s, p, ends) ==
    LET room == IF Full(s, p) THEN Flush(s) ELSE s
        first == IF Empty(room) THEN p[1] ELSE room.buffer[1]
    IN  HardSplit([out |-> room.out, buffer |-> <<first, p[2]>>], ends)

\* The pieces and the buffer after every paragraph.
Filled(body) ==
    LET filled[i \in 0..Len(body.paras)] ==
            IF i = 0 THEN [out |-> {}, buffer |-> <<0, 0>>]
            ELSE AddParagraph(filled[i - 1], body.paras[i], body.ends)
    IN  filled

\* chunk().
Chunk(body) == Flush(Filled(body)[Len(body.paras)]).out

================================================================================
