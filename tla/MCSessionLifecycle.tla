-------------------------- MODULE MCSessionLifecycle --------------------------
(* Scenarios for checking SessionLifecycle. *)
EXTENDS SessionLifecycle

Quiet ==
    [clients |-> {1}, webTransport |-> {}, lanes |-> {}, ticks |-> TRUE,
     inbound |-> FALSE, breaks |-> FALSE, kicks |-> FALSE, avatar |-> "no", stops |-> {}]

Situations ==
    {\* one WebTransport session with traffic both ways, closed from either side
     [Quiet EXCEPT !.webTransport = {1}, !.inbound = TRUE, !.kicks = TRUE],
     \* slow client: lanes overflow
     [Quiet EXCEPT !.webTransport = {1}, !.lanes = LaneSet, !.breaks = TRUE],
     \* shutdown at any moment of one session
     [Quiet EXCEPT !.webTransport = {1}, !.lanes = {"stream"}, !.kicks = TRUE, !.stops = {1}],
     \* shutdown with sessions in different phases
     [Quiet EXCEPT !.clients = {1, 2}, !.ticks = FALSE, !.stops = {1}],
     \* the two calls of CloseSessions that Run makes when it serves by itself
     [Quiet EXCEPT !.webTransport = {1}, !.stops = {1, 2}],
     \* an avatar for a session that may close before it is created
     [Quiet EXCEPT !.inbound = TRUE, !.breaks = TRUE, !.kicks = TRUE, !.avatar = "tick"],
     \* a session that stays, its avatar created on another goroutine
     [Quiet EXCEPT !.avatar = "goroutine"]}

SpawnElsewhere == {[Quiet EXCEPT !.breaks = TRUE, !.avatar = "goroutine"]}

=============================================================================
