----------------------------- MODULE MCVirtualPad -----------------------------
(***************************************************************************)
(* A cross of 100 pixels and one point per case of the hit test: the four  *)
(* arms, the dead centre, a corner claimed by "left" because of its        *)
(* padding, and a point off the view that a slide can reach.               *)
(***************************************************************************)
EXTENDS VirtualPad

MCCrossPoints ==
  {<<10, 50>>, <<90, 50>>, <<50, 10>>, <<50, 90>>, <<50, 50>>, <<10, 80>>, <<50, 130>>}
=============================================================================
