----------------------------- MODULE MCPackProxy -----------------------------
(* Small instances of PackProxy: the configurations give every constant.  One *)
(* tool that may be packed and one long text (or two) are as many as the  *)
(* properties tell apart, so there is no symmetry to declare.                 *)
EXTENDS PackProxy
=============================================================================
