--------------------------- MODULE EventualTracker ---------------------------
(***************************************************************************)
(* eventualStateTracker (golem/eventual_state.go): what one session is     *)
(* still owed by the state-datagram lane.  A change names an entity and    *)
(* either its fields (mask) or its whole state (full); public redacts the  *)
(* owner-only fields.  dirtySet and dirtyQueue hold the changes to send,   *)
(* inFlight the changes of each datagram whose fate is unknown.  Unused    *)
(* slices kept for reuse (inFlightFree) are left out.                      *)
(***************************************************************************)
EXTENDS Naturals, Sequences, FiniteSets, SequencesExt

CONSTANT CompactSlack       \* stale queue entries tolerated after a send (32)

Change(id, mask, full, public) ==
    [id |-> id, mask |-> mask, full |-> full, public |-> public]

newEventualStateTracker ==
    [dirtySet |-> <<>>, dirtyQueue |-> <<>>, inFlight |-> <<>>]

\* Maps: without the keys in S, with v at k, with the entries of g first.
Drop(f, S)    == Restrict(f, DOMAIN f \ S)
With(f, k, v) == [x \in DOMAIN f \cup {k} |-> IF x = k THEN v ELSE f[x]]
Over(g, f)    == [x \in DOMAIN f \cup DOMAIN g |-> IF x \in DOMAIN g THEN g[x] ELSE f[x]]

\* The elements of seq that are in S, in order.
keep(S, kept, x) == IF x \in S THEN Append(kept, x) ELSE kept
Only(seq, S) == FoldLeft(LAMBDA kept, x : keep(S, kept, x), <<>>, seq)

Dirty(t) == DOMAIN t.dirtySet

merged(old, ch) ==
    LET full == old.full \/ ch.full IN
    Change(old.id, IF full THEN {} ELSE old.mask \cup ch.mask, full,
           old.public \/ ch.public)

DirtyOnly(t) == Only(t.dirtyQueue, Dirty(t))

compactDirtyQueueNow(t) ==
    IF Len(t.dirtyQueue) = Cardinality(Dirty(t)) THEN t
    ELSE [t EXCEPT !.dirtyQueue = DirtyOnly(t)]

compactDirtyQueue(t) ==
    IF Dirty(t) # {} /\ Len(t.dirtyQueue) <= 2 * Cardinality(Dirty(t)) + CompactSlack
    THEN t ELSE compactDirtyQueueNow(t)

markDirtyChange(t, ch) ==
    IF ~ch.full /\ ch.mask = {} THEN t
    ELSE IF ch.id \in Dirty(t)
         THEN [t EXCEPT !.dirtySet[ch.id] = merged(@, ch)]
    ELSE [compactDirtyQueueNow(t) EXCEPT !.dirtySet = With(@, ch.id, ch),
                                         !.dirtyQueue = Append(@, ch.id)]

markAll(t, changes) == FoldLeft(markDirtyChange, t, changes)

dirtyChanges(t) ==
    LET ids == DirtyOnly(t) IN [i \in 1 .. Len(ids) |-> t.dirtySet[ids[i]]]

clearDirty(t, ids) == [t EXCEPT !.dirtySet = Drop(@, ids)]

markSent(t, token, changes) ==
    clearDirty([t EXCEPT !.inFlight = With(@, token, changes)],
               {changes[i].id : i \in 1 .. Len(changes)})

\* Forget an entity: its dirty change, and its part of every datagram in
\* flight; a datagram with nothing left is forgotten as well.
clearEntities(t, ids) ==
    LET kept(k) == Only(t.inFlight[k], {ch \in ToSet(t.inFlight[k]) : ch.id \notin ids}) IN
    [clearDirty(t, ids) EXCEPT
        !.inFlight = [k \in {j \in DOMAIN t.inFlight : kept(j) # <<>>} |-> kept(k)]]

\* Mutant: a datagram sent before the lost one counts as well.
subtractAnyInFlight(t, lost, ch) ==
    LET others == {c \in UNION {ToSet(t.inFlight[k]) : k \in DOMAIN t.inFlight} : c.id = ch.id}
    IN  [ch EXCEPT !.mask = @ \ UNION {c.mask : c \in others}]

\* What of a lost change no later datagram in flight carries again.
subtractNewerInFlight(t, lost, ch) ==
    LET newer == {c \in UNION {ToSet(t.inFlight[k]) :
                               k \in {j \in DOMAIN t.inFlight : j > lost}} : c.id = ch.id}
        refreshed == \E c \in newer : c.full
    IN  IF ch.full THEN [ch EXCEPT !.full = ~refreshed]
        ELSE [ch EXCEPT !.mask = IF refreshed THEN {}
                                 ELSE @ \ UNION {c.mask : c \in newer}]

requeue(lost, t, ch) == markDirtyChange(t, subtractNewerInFlight(t, lost, ch))

applyFeedback(t, f, live) ==
    LET rest == [t EXCEPT !.inFlight = Drop(@, {f.token})]
        left == Only(t.inFlight[f.token], {ch \in ToSet(t.inFlight[f.token]) : ch.id \in live})
    IN  IF f.token \notin DOMAIN t.inFlight THEN t
        ELSE IF f.delivered THEN rest
        ELSE FoldLeft(LAMBDA u, ch : requeue(f.token, u, ch), compactDirtyQueueNow(rest), left)

=============================================================================
