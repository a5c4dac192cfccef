-------------------------- MODULE MCContactEvents --------------------------
(* Positions, shapes, layers and queries for checking ContactEvents.        *)
EXTENDS ContactEvents

ball == [r |-> 5]
crate == [hw |-> 3, hh |-> 4]

MCPos == {<<0, 0>>, <<6, 8>>}

MCColliders ==
    {[shape |-> ball,  layer |-> "unit", trigger |-> FALSE],
     [shape |-> crate, layer |-> "area", trigger |-> TRUE],
     [shape |-> crate, layer |-> "decor", trigger |-> FALSE]}

\* "decor" collides with nothing.
MCRules == {<<"unit", "unit">>, <<"unit", "area">>}

All == {"unit", "area", "decor"}
MCQueries ==
    {[at |-> <<11, 3>>, dx |-> -12, layers |-> All],
     [at |-> <<-8, 0>>, dx |-> -6, r |-> 5, layers |-> {"unit", "decor"}],
     [at |-> <<-6, 4>>, dx |-> 8, hw |-> 2, hh |-> 1, layers |-> {"unit", "area"}]}

=============================================================================
