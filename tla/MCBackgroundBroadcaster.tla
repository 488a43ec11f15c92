---------------------- MODULE MCBackgroundBroadcaster ----------------------
(* An instance of BackgroundBroadcaster for TLC: a parent and its child. *)
EXTENDS BackgroundBroadcaster, TLC

CONSTANTS parent, child

ParentAndChild == (parent :> {}) @@ (child :> {parent})
=============================================================================
