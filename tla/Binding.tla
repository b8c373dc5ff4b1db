------------------------------ MODULE Binding ------------------------------
(***************************************************************************)
(* A value with a name.  LET does the same for a reader; but TLC's coverage  *)
(* statistics expand the definition at every place the name stands at, and a *)
(* chain of forty names, each of which uses the ones before it several      *)
(* times, is too much for them.  An argument is expanded once.              *)
(***************************************************************************)

With(value, Body(_)) == Body(value)

=============================================================================
