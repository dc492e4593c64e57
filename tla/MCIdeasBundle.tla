--------------------------- MODULE MCIdeasBundle ---------------------------
(* Messages for TLC: of each layout, one that ends in a 0 and one whose last
   argument is as large as what may follow. *)
EXTENDS IdeasReader

A(tag, n) == [tag |-> tag, n |-> n]

MCMessages == {
  [address |-> 3, args |-> <<>>],
  [address |-> 4, args |-> <<A("T", 0), A("i", 0)>>],
  [address |-> 1, args |-> <<A("i", 16)>>],
  [address |-> 1, args |-> <<A("s", 4), A("b", 5), A("h", -2)>>],
  [address |-> 1, args |-> <<A("b", 0), A("c", 0), A("i", 1)>>]}
=============================================================================
