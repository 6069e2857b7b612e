------------------------------- MODULE PubSub -------------------------------
(***************************************************************************)
(* What zserver promises a viewer: from the moment its connection is       *)
(* registered to the moment it is removed it is sent every result the      *)
(* simulation commits, each once, in the order of the commits, whatever    *)
(* queue and threads lie in between.                                       *)
(***************************************************************************)
EXTENDS Naturals, Sequences

CONSTANT Conns

VARIABLES
    subs,       \* registered connections
    log,        \* what each connection is sent
    commits     \* number of results committed

Init == subs = {} /\ log = [c \in Conns |-> <<>>] /\ commits = 0

Subscribe(c) ==
    /\ c \notin subs /\ log[c] = <<>>
    /\ subs' = subs \cup {c} /\ UNCHANGED <<log, commits>>

Unsubscribe(c) ==
    c \in subs /\ subs' = subs \ {c} /\ UNCHANGED <<log, commits>>

Publish ==
    /\ commits' = commits + 1
    /\ log' = [c \in Conns |-> IF c \in subs THEN Append(log[c], commits')
                               ELSE log[c]]
    /\ UNCHANGED subs

Next == Publish \/ \E c \in Conns : Subscribe(c) \/ Unsubscribe(c)

Spec == Init /\ [][Next]_<<subs, log, commits>>
=============================================================================
