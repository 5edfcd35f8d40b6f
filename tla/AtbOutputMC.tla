---------------------------- MODULE AtbOutputMC ----------------------------
(* Instances of the output stage for TLC. *)
EXTENDS AtbOutput

\* Assembly cycles of each slice: a message that fills a beat and one that
\* needs padding; at most the second slice spans three fields.
Fitting == <<1, 1>>
Padded  == <<1, 2, 1>>
Both    == {Fitting, Padded}
=============================================================================
