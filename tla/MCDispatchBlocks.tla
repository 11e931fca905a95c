--------------------------- MODULE MCDispatchBlocks ---------------------------
(* Instance of DispatchBlocks for TLC: whole tags, so that few pieces make   *)
(* several blocks, and the characters they are cut into.                     *)
EXTENDS DispatchBlocks

Whole == {DISPATCH_OPEN, BLOCK_CLOSE, THINK, UNTHINK}
Single == {<<c>> : c \in {"@", "d", "e", "n", "x"}}
All == Whole \cup Single
Tagged == {DISPATCH_OPEN, BLOCK_CLOSE, THINK, <<"n">>, <<"x">>}
=============================================================================
