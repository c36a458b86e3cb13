------------------------------ MODULE MCLimbApp -------------------------------
EXTENDS LimbApp

CONSTANTS loopback, rmbg, here, there, nowhere, c1, c2, c3, c4, c5

MCLibs == {loopback, rmbg}
MCNames == {"processors", "other", "lost"}

\* main names the default directory once more.
MCAdditional == <<"processors", "lost">>

MCPlace == [processors |-> here, other |-> there, lost |-> nowhere]
MCLibsAt == (here :> {loopback, rmbg}) @@ (there :> {rmbg})

MCContainers == {c1, c2, c3, c4, c5}
Symmetry == Permutations(MCContainers)
=============================================================================
