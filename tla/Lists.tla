-------------------------------- MODULE Lists --------------------------------
(***************************************************************************)
(* The few operators on sequences that the modules with proofs need, under *)
(* the names and with the meaning they have in SequencesExt.  That module  *)
(* extends Bags, whose theorems then are in the context of every proof     *)
(* step and make each several times as expensive.                          *)
(***************************************************************************)
EXTENDS Integers, Sequences, FiniteSetsExt

\* The elements
ToSet(s) == {s[i] : i \in DOMAIN s}

\* The last element, and the sequence without it
Last(s)  == s[Len(s)]
Front(s) == SubSeq(s, 1, Len(s) - 1)

\* e becomes element i; element i goes
InsertAt(s, i, e) == SubSeq(s, 1, i - 1) \o <<e>> \o SubSeq(s, i, Len(s))
RemoveAt(s, i)    == SubSeq(s, 1, i - 1) \o SubSeq(s, i + 1, Len(s))

\* Whether t starts with s
IsPrefix(s, t) == Len(s) <= Len(t) /\ SubSeq(s, 1, Len(s)) = SubSeq(t, 1, Len(s))

\* op(... op(op(base, seq[1]), seq[2]) ...)
FoldLeft(op(_, _), base, seq) ==
    MapThenFoldSet(LAMBDA x, y : op(y, x), base, LAMBDA i : seq[i],
                   LAMBDA S : Max(S), DOMAIN seq)
=============================================================================
