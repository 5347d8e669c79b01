----------------------------- MODULE MCManager -----------------------------
(* Searches all of whose checkpoints can be divided, or some of whose cannot. *)
EXTENDS Manager

AllWide == {}

\* In its first row the search has only few leaves yet.
RootNarrow == {<<0, <<0, 0>>, 0>>}
=============================================================================
