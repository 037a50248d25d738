----------------------------- MODULE MCKvCache ------------------------------
(* Ubatches of one or two tokens, in one sequence or shared by two.         *)
EXTENDS KvCache, TLC

Tok(p, s) == [pos |-> p, seq |-> s]

MCBatches ==
  { << <<Tok(0, {0}), Tok(1, {0})>> >>,
    << <<Tok(0, {0})>>, <<Tok(1, {0, 1})>> >>,
    << <<Tok(1, {1})>> >> }

MCRanges == {<<-1, -1>>, <<0, 1>>, <<1, -1>>, <<1, 1>>}

Symmetry == Permutations(Ids)

(* One sequence in a larger cache: several holes, several block moves.      *)
HoleBatches ==
  { << <<Tok(0, {0}), Tok(1, {0}), Tok(0, {0})>>, <<Tok(1, {0}), Tok(0, {0})>> >>,
    << <<Tok(1, {0})>> >> }

HoleRanges == {<<0, 1>>, <<1, -1>>}

=============================================================================
