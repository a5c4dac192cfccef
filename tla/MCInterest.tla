----------------------------- MODULE MCInterest -----------------------------
(* The situations the interest run looks at: entity 1 is the usual anchor,   *)
(* radius 2 and margin 1 put places on both borders and in negative cells.   *)
EXTENDS Interest

Points == {<<0, 0>>, <<2, 0>>, <<-3, 0>>}

Caps(set, create, delete, own, group, loss) ==
    [set |-> set, create |-> create, delete |-> delete, owner |-> own, group |-> group, loss |-> loss]

Situation(ents, private, cap) ==
    [joined |-> FALSE, live |-> ents, private |-> private, big |-> {},
     budget |-> 1, queueCap |-> 2, cap |-> cap]

Near == 1 :> <<0, 0>> @@ 2 :> <<2, 0>>
Around(e) == [anchor |-> e, radius |-> 2, margin |-> 1]

Setting(case, gs, onStream, fois, ops) ==
    [case |-> case, globals |-> gs, start |-> Near, fois |-> fois, stream |-> onStream, foiOps |-> ops]

\* Moves; groups and a loss; a field removed and assigned again with
\* datagrams in flight; owners on the stream, and on the datagram lane with a
\* loss; the anchor and others come and go, with a second anchor; a global entity.
SettingsHere ==
    {Setting(Situation({1, 2}, {}, Caps(2, 0, 0, 0, 0, 0)), {}, FALSE, {Around(1)}, 1),
     Setting(Situation({1, 2}, {}, Caps(1, 0, 0, 0, 2, 1)), {}, FALSE, {Around(1)}, 1),
     Setting(Situation({1, 2}, {}, Caps(1, 0, 0, 0, 1, 1)), {}, FALSE, {Around(1)}, 3),
     Setting(Situation({1, 2}, {"p"}, Caps(1, 0, 0, 2, 0, 0)), {}, TRUE, {Around(1)}, 1),
     Setting(Situation({1}, {"p"}, Caps(1, 0, 0, 2, 0, 1)), {}, FALSE, {Around(1)}, 1),
     Setting(Situation({1}, {}, Caps(1, 1, 1, 0, 0, 0)), {}, TRUE, {Around(1), Around(2)}, 2),
     Setting(Situation({1, 2}, {}, Caps(0, 0, 2, 0, 1, 0)), {}, TRUE, {Around(1)}, 1),
     Setting(Situation({1, 2}, {"p"}, Caps(1, 0, 1, 1, 0, 0)), {2}, FALSE, {Around(1)}, 1)}

Situations == {s.case : s \in SettingsHere}

=============================================================================
