----------------------------- MODULE MCGeometry -----------------------------
(***************************************************************************)
(* Every movement of a period up to four, with those parse refuses, and    *)
(* longer ones for the lookups of coprime periods, for the gathered bytes  *)
(* of period seven and for tiles of two, three, five and six spots.        *)
(***************************************************************************)
EXTENDS GeometryAcceptance

MCMovements ==
  (0 .. 4) \X (0 .. 4) \X BOOLEAN
  \cup {<<m[1], m[2], FALSE>> : m \in {<<1, 5>>, <<2, 5>>, <<1, 7>>, <<2, 7>>, <<3, 7>>, <<4, 7>>,
                                        <<0, 6>>, <<2, 6>>, <<3, 6>>, <<4, 6>>, <<5, 5>>}}
  \cup {<<m[1], m[2], TRUE>> : m \in {<<1, 5>>, <<1, 6>>, <<2, 6>>, <<3, 6>>}}

MCColumns == -1 .. 2

MCEdgePairs ==
  {<<Odd, Odd>>, <<Even, Even>>, <<GlideEven, GlideEven>>, <<GlideOdd, Background>>, <<Background, GlideOdd>>}
=============================================================================
