----------------------------- MODULE MCDelivery -----------------------------
(***************************************************************************)
(* An instance of Delivery for TLC: an empty file, one of a byte and one   *)
(* of two, whose previews fill the cache in different ways.              *)
(***************************************************************************)
EXTENDS Delivery, TLC

ThreeContents == {"empty", "small", "large"}
Sizes == [c \in Contents |-> CASE c = "empty" -> 0 [] c = "small" -> 1 [] c = "large" -> 2]
SmallOrLarge == [c \in Contents |-> IF c = "large" THEN 2 ELSE 1]
PreviewSymmetry == Permutations(Previews)
AllButEmpty == Contents \ {"empty"}
=============================================================================
