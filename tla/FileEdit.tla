------------------------------ MODULE FileEdit ------------------------------
(***************************************************************************)
(* internal/fileedit: exact replacements in a file, which is a sequence of *)
(* tokens here; an edit replaces one token.  The local backend (LocalStore)*)
(* and the hub's PATCH handler (HubTools) share it.                        *)
(***************************************************************************)
EXTENDS Integers, Sequences, FiniteSets, SequencesExt

CONSTANT MaxBytes      \* the cap on a file, in tokens

Failed == <<"failed">>
Count(s, t) == Cardinality({i \in DOMAIN s : s[i] = t})
Replacing(s, e) ==
    FlattenSeq([i \in DOMAIN s |-> IF s[i] = e.old THEN e.new ELSE <<s[i]>>])

\* The contents with the edit made, or why it was not.
Apply(s, e) ==
    LET count == Count(s, e.old)
        edited == Replacing(s, e)
    IN  IF \/ e.new = <<e.old>> \/ count = 0
           \/ count > 1 /\ ~e.all
           \/ Len(edited) > MaxBytes
        THEN Failed ELSE edited

\* Each edit is made in what the one before it left, and all of them or none.
Buffers(s, edits) ==
    LET buf[i \in 0..Len(edits)] ==
            IF i = 0 THEN s
            ELSE IF buf[i - 1] = Failed THEN Failed ELSE Apply(buf[i - 1], edits[i])
    IN  buf
ApplyBatch(s, edits) == Buffers(s, edits)[Len(edits)]

\* What an edit is, of tokens in a set T.
Edits(T) == [old : T, new : Seq(T), all : BOOLEAN]

\* What the edits make of it, one after the other, if nothing is checked.
Replaced(s, edits) ==
    LET buf[i \in 0..Len(edits)] == IF i = 0 THEN s ELSE Replacing(buf[i - 1], edits[i])
    IN  buf
=============================================================================
