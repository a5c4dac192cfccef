---------------------------- MODULE MCReplication ----------------------------
(* The situations the runs of Replication look at. *)
EXTENDS Replication

Caps(set, create, delete, own, group, loss) ==
    [set |-> set, create |-> create, delete |-> delete, owner |-> own, group |-> group, loss |-> loss]

Situation(joined, ents, private, big, budget, queueCap, cap) ==
    [joined |-> joined, live |-> ents, private |-> private, big |-> big,
     budget |-> budget, queueCap |-> queueCap, cap |-> cap]

\* Losses and retries of two fields, one entity, with a full message queue;
\* two entities that share datagrams; owner changes; oversized fields; visibility;
\* entities that come and go, before and while the session connects, and after.
Situations ==
    {Situation(TRUE, {1}, {}, {}, 1, 1, Caps(2, 0, 0, 0, 0, 2)),
     Situation(TRUE, {1, 2}, {}, {}, 2, 2, Caps(3, 0, 0, 0, 0, 1)),
     Situation(TRUE, {1}, {"p"}, {}, 1, 2, Caps(2, 0, 0, 2, 0, 1)),
     Situation(TRUE, {1}, {}, {"p"}, 1, 2, Caps(2, 0, 0, 0, 2, 1)),
     Situation(FALSE, {1}, {"p"}, {}, 1, 2, Caps(1, 1, 1, 1, 0, 0)),
     Situation(FALSE, {1}, {}, {}, 1, 2, Caps(1, 1, 1, 0, 1, 1)),
     Situation(TRUE, {1}, {}, {}, 1, 2, Caps(1, 1, 2, 0, 1, 0))}

=============================================================================
