-------------------------- MODULE MCEvaluateStream --------------------------
(***************************************************************************)
(* Instances of EvaluateStream: which groups there are and what each is.   *)
(***************************************************************************)
EXTENDS EvaluateStream, TLC

CONSTANTS g1, g2, spec

\* Two container groups that pin the same version and contend for one image
\* permit and one evaluation permit.
SharedSpec == (g1 :> spec) @@ (g2 :> spec)
=============================================================================
