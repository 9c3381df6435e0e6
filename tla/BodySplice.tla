------------------------------ MODULE BodySplice ------------------------------
(***************************************************************************)
(* How a changed body reaches the document: as one splice that trims what  *)
(* the old and the new text share at both ends, so that the characters     *)
(* left alone keep their place in the document's history.                  *)
(***************************************************************************)
EXTENDS Integers, Sequences

\* How many scalars two texts share at their start, and at their end after
\* the first `pre`.
SharedStart(old, new) ==
    CHOOSE k \in 0 .. Len(old) :
        /\ k <= Len(new)
        /\ \A i \in 1 .. k : old[i] = new[i]
        /\ k < Len(old) /\ k < Len(new) => old[k + 1] # new[k + 1]

\* A variant for the checks: the end may overlap the shared start.
EndOverlaps(old, new, pre) ==
    CHOOSE k \in 0 .. Len(old) :
        /\ k <= Len(new)
        /\ \A i \in 0 .. k - 1 : old[Len(old) - i] = new[Len(new) - i]
        /\ k < Len(old) /\ k < Len(new) => old[Len(old) - k] # new[Len(new) - k]

SharedEnd(old, new, pre) ==
    CHOOSE k \in 0 .. Len(old) - pre :
        /\ k <= Len(new) - pre
        /\ \A i \in 0 .. k - 1 : old[Len(old) - i] = new[Len(new) - i]
        /\ k < Len(old) - pre /\ k < Len(new) - pre
              => old[Len(old) - k] # new[Len(new) - k]

BodySplice(old, new) ==
    LET pre == SharedStart(old, new)
        suf == SharedEnd(old, new, pre)
    IN  [pos |-> pre, del |-> Len(old) - pre - suf,
         insert |-> SubSeq(new, pre + 1, Len(new) - suf)]

\* What the text type of the document does with it.
Spliced(old, s) ==
    SubSeq(old, 1, s.pos) \o s.insert \o SubSeq(old, s.pos + s.del + 1, Len(old))
===============================================================================
