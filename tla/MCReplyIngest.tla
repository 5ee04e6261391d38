---------------------------- MODULE MCReplyIngest ----------------------------
(* ReplyIngest on small tables: the values of its constants for TLC.       *)
EXTENDS ReplyIngest, TLC

CONSTANTS p1, p2, k1, k2, m1, m2, h1, h2

Contacts2 == {p1, p2}
Corrs2 == {k1, k2}
Handlers2 == {h1, h2}
Ids2 == {m1, m2}
SegmentOfAll == [c \in Contact |-> "smb"]

(* Mail and texts of p1 with every hint and one provider id for all of    *)
(* them, and a STOP mail with an id of its own.                           *)
SomeMessages ==
    {m \in Message : m.from = p1 /\ m.id = m1}
      \cup {[from |-> p1, channel |-> "email", hint |-> NoHint, stop |-> TRUE, id |-> m2]}

HandlerSymmetry == Permutations(Handler)
=============================================================================
