---------------------------- MODULE MCTreeLoop ----------------------------
(* TreeLoop on a tree of four levels, for TLC: r above a, a above b and c, *)
(* b above d.                                                              *)
EXTENDS TreeLoop, TLC

CONSTANTS r, a, b, c, d

MCParent == (a :> r) @@ (b :> a) @@ (c :> a) @@ (d :> b)
MCPreorder == <<r, a, b, d, c>>
=============================================================================
