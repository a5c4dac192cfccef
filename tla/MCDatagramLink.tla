--------------------------- MODULE MCDatagramLink ---------------------------
(* The sessions the runs of DatagramLink look at. *)
EXTENDS DatagramLink

OfLanes(ordered, unordered) ==
    [l \in Lanes |-> IF l = "ordered" THEN ordered ELSE unordered]
PerEnd(server, client) == [e \in Ends |-> IF e = "server" THEN server ELSE client]

None == OfLanes(0, 0)

Session(client, buf, down, up, plain, tokens, packets) ==
    [client |-> client, sendBuf |-> buf, messages |-> PerEnd(down, up),
     unreliable |-> plain, tokens |-> tokens, packets |-> packets]

\* The state lane with full send buffers, both reliable lanes down to each
\* client, an overflowing ordered lane, both reliable lanes up, and more messages
\* up than the message window remembers.
Sessions ==
    {Session("go", 1, OfLanes(1, 0), OfLanes(0, 1), PerEnd(0, 0), 2, 3),
     Session("js", 2, OfLanes(2, 1), None, PerEnd(0, 0), 0, 4),
     Session("go", 2, OfLanes(3, 0), None, PerEnd(0, 1), 0, 4),
     Session("go", 2, None, OfLanes(1, 2), PerEnd(0, 0), 0, 4),
     Session("js", 2, None, OfLanes(2, 1), PerEnd(0, 0), 0, 4),
     Session("js", 4, None, OfLanes(0, 4), PerEnd(0, 0), 0, 5)}

=============================================================================
