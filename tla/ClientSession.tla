---------------------------- MODULE ClientSession ----------------------------
(***************************************************************************)
(* What a game sees of its client's connections: one at a time, none again *)
(* once it has ended, an OnConnect for a connection only while it is the   *)
(* current one, and exactly one OnDisconnect for every one that ended.     *)
(* GameClient is shown to implement this.                                  *)
(***************************************************************************)
EXTENDS Naturals

CONSTANT Connections

VARIABLES current, ended, greeted, told

None == 0
sessionVars == <<current, ended, greeted, told>>

Init ==
    /\ current = None /\ ended = {} /\ greeted = {}
    /\ told = [c \in Connections |-> 0]

Start(c) ==
    /\ current = None /\ c \notin ended
    /\ current' = c
    /\ UNCHANGED <<ended, greeted, told>>

Greet(c) ==
    /\ current = c /\ c \notin greeted
    /\ greeted' = greeted \cup {c}
    /\ UNCHANGED <<current, ended, told>>

End ==
    /\ current # None
    /\ ended' = ended \cup {current}
    /\ current' = None
    /\ UNCHANGED <<greeted, told>>

Tell(c) ==
    /\ c \in ended /\ told[c] = 0
    /\ told' = [told EXCEPT ![c] = 1]
    /\ UNCHANGED <<current, ended, greeted>>

Next == End \/ \E c \in Connections : Start(c) \/ Greet(c) \/ Tell(c)

SafeSpec == Init /\ [][Next]_sessionVars

\* Every connection that ended is reported.
Reported(c) == WF_sessionVars(Tell(c))

Spec == SafeSpec /\ \A c \in Connections : Reported(c)

=============================================================================
