--------------------------- MODULE MCMaintenance ---------------------------
(***************************************************************************)
(* Maintenance with two keys.                                              *)
(***************************************************************************)
EXTENDS Maintenance

MCTopics == [kb |-> <<"tax">>, bulk |-> <<"tax">>, convo |-> <<"tax", "vat">>]
=============================================================================
