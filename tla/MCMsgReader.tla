---------------------------- MODULE MCMsgReader ----------------------------
(* Messages for TLC: an argument of each layout, and three of tags not known.  A word of
   text is a large number to a reader that takes it for a size; numbers are sent that are sizes
   below zero and the largest size there is. *)
EXTENDS MsgReader

Text == [v |-> 99, nul |-> FALSE]
LastText == [v |-> 98, nul |-> TRUE]
Number(n) == [v |-> n, nul |-> n \in 0 .. 255]

MCArgs == {
  [tag |-> "T", words |-> <<>>],
  [tag |-> "c", words |-> <<Number(1)>>],
  [tag |-> "0xE4", words |-> <<>>],
  [tag |-> "0xFE", words |-> <<>>],
  [tag |-> "i", words |-> <<Number(-8)>>],
  [tag |-> "h", words |-> <<Number(MaxInt32), Number(0)>>],
  [tag |-> "s", words |-> <<LastText>>],
  [tag |-> "s", words |-> <<Text, LastText>>],
  [tag |-> "b", words |-> <<Number(0)>>],
  [tag |-> "b", words |-> <<Number(5), Text, LastText>>]}

MCHighTags == "0xE4" :> 228 @@ "0xFE" :> 254

MCAround == {-4, 3, 99}
=============================================================================
