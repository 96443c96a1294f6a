---------------------------- MODULE MCSpiffsObjId ----------------------------
(* Values for model checking SpiffsObjId. *)
EXTENDS SpiffsObjId

NoStrays == {}
LastId   == {24}
=============================================================================
