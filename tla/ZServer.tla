------------------------------ MODULE ZServer ------------------------------
(***************************************************************************)
(* The visualisation server of zserver/zserver.cpp and its three threads:  *)
(* the simulation (app), which calls zserver_start, zserver_commit and     *)
(* zserver_stop; the asio thread (srv), which runs the websocket handlers; *)
(* and the message thread (proc), start_process_message, which empties the *)
(* queue of actions.  Queue, connections and endpoint are globals of the   *)
(* process: a second zserver_start finds them as the first session left    *)
(* them.  One step is what a thread does between two points where another  *)
(* thread can see the difference.                                          *)
(*                                                                         *)
(* The endpoint is that of the websocketpp under third_party: init_asio    *)
(* fails unless the endpoint is new, stop dereferences the io_service      *)
(* init_asio made, run returns once stopped, send throws unless the        *)
(* connection is open.                                                     *)
(***************************************************************************)
EXTENDS Integers, Sequences, FiniteSets

CONSTANTS
    Conns,          \* connection handles; a viewer that returns gets a new one
    MaxCommits,     \* bound on zserver_commit calls
    MaxSessions,    \* bound on zserver_start calls
    MaxQueue        \* the queue length up to which viewers send messages

ASSUME BoundsAssumption ==
    /\ MaxCommits \in Nat /\ MaxSessions \in Nat /\ MaxQueue \in Nat

VARIABLES
    app,        \* what the simulation thread is doing
    srv,        \* what the asio thread is doing
    proc,       \* what the message thread is doing
    actions,    \* the queue
    connections,\* the set connections
    cur,        \* the action the message thread popped
    todo,       \* connections its broadcast still has to reach
    conn,       \* state of each connection at the endpoint
    endpoint,   \* the websocket endpoint: "new", "ready", "stopped"
    sent,       \* results handed to wss.send for each connection (history)
    commits,    \* zserver_commit calls so far
    sessions,   \* zserver_start calls so far
    inits,      \* init_asio calls so far
    crashed     \* std::terminate, or a null dereference

vars == <<app, srv, proc, actions, connections, cur, todo, conn, endpoint,
          sent, commits, sessions, inits, crashed>>

Action ==
    [type : {"SUBSCRIBE", "UNSUBSCRIBE", "MESSAGE"}, c : Conns]
    \cup [type : {"BROADCAST"}, n : 1 .. MaxCommits]
    \cup [type : {"EXIT"}]

Exit == [type |-> "EXIT"]

(* cond_actions.notify_one: the message thread is the only waiter. *)
NotifyOne == proc' = IF proc = "wait" THEN "check" ELSE proc

----------------------------------------------------------------------------
Init ==
    /\ app = "down" /\ srv = "off" /\ proc = "off"
    /\ actions = <<>> /\ connections = {} /\ cur = Exit /\ todo = {}
    /\ conn = [c \in Conns |-> "away"] /\ endpoint = "new"
    /\ sent = [c \in Conns |-> <<>>]
    /\ commits = 0 /\ sessions = 0 /\ inits = 0 /\ crashed = FALSE

(* zserver_start: both threads are created. *)
Start ==
    /\ ~ crashed /\ app = "down" /\ sessions < MaxSessions
    /\ app' = "up" /\ srv' = "start" /\ proc' = "check"
    /\ sessions' = sessions + 1
    /\ UNCHANGED <<actions, connections, cur, todo, conn, endpoint, sent,
                   commits, inits, crashed>>

(* zserver_commit, zserver_commit_field_data: push under the lock. *)
Commit ==
    /\ ~ crashed /\ app = "up" /\ commits < MaxCommits
    /\ commits' = commits + 1
    /\ actions' = Append(actions, [type |-> "BROADCAST", n |-> commits'])
    /\ app' = "notify"
    /\ UNCHANGED <<srv, proc, connections, cur, todo, conn, endpoint, sent,
                   sessions, inits, crashed>>

(* Mutant of CommitNotify: the message thread is not notified. *)
CommitNotify_None ==
    /\ ~ crashed /\ app = "notify"
    /\ app' = "up"
    /\ UNCHANGED <<srv, proc, actions, connections, cur, todo, conn, endpoint, sent,
                   commits, sessions, inits, crashed>>
CommitNotify ==
    /\ ~ crashed /\ app = "notify"
    /\ app' = "up" /\ NotifyOne
    /\ UNCHANGED <<srv, actions, connections, cur, todo, conn, endpoint, sent,
                   commits, sessions, inits, crashed>>

(* zserver_stop, up to its first join. *)
Stop ==
    /\ ~ crashed /\ app = "up"
    /\ actions' = Append(actions, Exit)
    /\ app' = "stop_notify"
    /\ UNCHANGED <<srv, proc, connections, cur, todo, conn, endpoint, sent,
                   commits, sessions, inits, crashed>>

(* Mutant of StopNotify: the message thread is not notified. *)
StopNotify_None ==
    /\ ~ crashed /\ app = "stop_notify"
    /\ app' = "join_proc"
    /\ UNCHANGED <<srv, proc, actions, connections, cur, todo, conn, endpoint, sent,
                   commits, sessions, inits, crashed>>
StopNotify ==
    /\ ~ crashed /\ app = "stop_notify"
    /\ app' = "join_proc" /\ NotifyOne
    /\ UNCHANGED <<srv, actions, connections, cur, todo, conn, endpoint, sent,
                   commits, sessions, inits, crashed>>

(* thread1->join() *)
JoinProc ==
    /\ ~ crashed /\ app = "join_proc" /\ proc = "done"
    /\ app' = "wss_stop" /\ proc' = "off"
    /\ UNCHANGED <<srv, actions, connections, cur, todo, conn, endpoint, sent,
                   commits, sessions, inits, crashed>>

(* wss.stop(), a null dereference before init_asio has run. *)
WssStop ==
    /\ ~ crashed /\ app = "wss_stop"
    /\ IF endpoint = "new"
       THEN crashed' = TRUE /\ UNCHANGED <<app, endpoint>>
       ELSE app' = "join_srv" /\ endpoint' = "stopped" /\ UNCHANGED crashed
    /\ UNCHANGED <<srv, proc, actions, connections, cur, todo, conn, sent,
                   commits, sessions, inits>>

(* thread->join() *)
JoinSrv ==
    /\ ~ crashed /\ app = "join_srv" /\ srv = "done"
    /\ app' = "down" /\ srv' = "off"
    /\ UNCHANGED <<proc, actions, connections, cur, todo, conn, endpoint, sent,
                   commits, sessions, inits, crashed>>

AppStep == CommitNotify \/ StopNotify \/ JoinProc \/ WssStop \/ JoinSrv

----------------------------------------------------------------------------
(* start_server_thread: init_asio throws on an endpoint that is not new,   *)
(* and the exception ends the thread.                                      *)
InitAsio ==
    /\ ~ crashed /\ srv = "start"
    /\ inits' = inits + 1
    /\ IF endpoint = "new"
       THEN srv' = "listen" /\ endpoint' = "ready"
       ELSE srv' = "done" /\ UNCHANGED endpoint
    /\ UNCHANGED <<app, proc, actions, connections, cur, todo, conn, sent,
                   commits, sessions, crashed>>

(* listen, which throws when the port is taken, and start_accept. *)
Listen ==
    /\ ~ crashed /\ srv = "listen"
    /\ srv' \in {"run", "done"}
    /\ UNCHANGED <<app, proc, actions, connections, cur, todo, conn, endpoint,
                   sent, commits, sessions, inits, crashed>>

(* wss.run() returns when the endpoint is stopped. *)
RunReturns ==
    /\ ~ crashed /\ srv = "run" /\ endpoint = "stopped"
    /\ srv' = "done"
    /\ UNCHANGED <<app, proc, actions, connections, cur, todo, conn, endpoint,
                   sent, commits, sessions, inits, crashed>>

(* A handler pushes its action; the notification is a later step. *)
Handler(a) ==
    /\ ~ crashed /\ srv = "run" /\ endpoint = "ready"
    /\ actions' = Append(actions, a)
    /\ srv' = "notify"
    /\ UNCHANGED <<app, proc, connections, cur, todo, endpoint, sent,
                   commits, sessions, inits, crashed>>

on_open(c) ==
    /\ conn[c] = "away" /\ conn' = [conn EXCEPT ![c] = "open"]
    /\ Handler([type |-> "SUBSCRIBE", c |-> c])

(* The viewer's close frame, or its loss: the endpoint leaves the open     *)
(* state while it acknowledges, send throws from here on, and on_close is  *)
(* still to run.                                                           *)
Closing(c) ==
    /\ ~ crashed /\ srv = "run" /\ endpoint = "ready" /\ conn[c] = "open"
    /\ conn' = [conn EXCEPT ![c] = "closing"]
    /\ UNCHANGED <<app, srv, proc, actions, connections, cur, todo, endpoint,
                   sent, commits, sessions, inits, crashed>>

on_close(c) ==
    /\ conn[c] = "closing" /\ conn' = [conn EXCEPT ![c] = "closed"]
    /\ Handler([type |-> "UNSUBSCRIBE", c |-> c])

on_message(c) ==
    /\ conn[c] = "open" /\ Len(actions) < MaxQueue /\ UNCHANGED conn
    /\ Handler([type |-> "MESSAGE", c |-> c])

HandlerNotify ==
    /\ ~ crashed /\ srv = "notify"
    /\ srv' = "run" /\ NotifyOne
    /\ UNCHANGED <<app, actions, connections, cur, todo, conn, endpoint, sent,
                   commits, sessions, inits, crashed>>

SrvStep == InitAsio \/ Listen \/ RunReturns \/ HandlerNotify

----------------------------------------------------------------------------
(* Mutant of Pop: the newest action is taken first. *)
Pop_Newest ==
    /\ ~ crashed /\ proc = "check"
    /\ IF actions = <<>>
       THEN proc' = "wait" /\ UNCHANGED <<actions, cur, todo>>
       ELSE LET a == actions[Len(actions)] IN
            /\ actions' = SubSeq(actions, 1, Len(actions) - 1) /\ cur' = a
            /\ IF a.type = "BROADCAST"
               THEN proc' = "broadcast" /\ todo' = connections
               ELSE proc' = "handle" /\ UNCHANGED todo
    /\ UNCHANGED <<app, srv, connections, conn, endpoint, sent, commits,
                   sessions, inits, crashed>>

(* start_process_message: waits while the queue is empty, else pops.       *)
Pop ==
    /\ ~ crashed /\ proc = "check"
    /\ IF actions = <<>>
       THEN proc' = "wait" /\ UNCHANGED <<actions, cur, todo>>
       ELSE LET a == Head(actions) IN
            /\ actions' = Tail(actions) /\ cur' = a
            /\ IF a.type = "BROADCAST"
               THEN proc' = "broadcast" /\ todo' = connections
               ELSE proc' = "handle" /\ UNCHANGED todo
    /\ UNCHANGED <<app, srv, connections, conn, endpoint, sent, commits,
                   sessions, inits, crashed>>

(* condition_variable::wait may return without a notification.             *)
SpuriousWakeup ==
    /\ ~ crashed /\ proc = "wait" /\ proc' = "check"
    /\ UNCHANGED <<app, srv, actions, connections, cur, todo, conn, endpoint,
                   sent, commits, sessions, inits, crashed>>

(* Mutant of Handle: an unsubscription leaves the connection in the set.   *)
Handle_KeepClosed ==
    /\ ~ crashed /\ proc = "handle"
    /\ connections' = IF cur.type = "SUBSCRIBE" THEN connections \cup {cur.c}
                      ELSE connections
    /\ proc' = IF cur = Exit THEN "done" ELSE "check"
    /\ UNCHANGED <<app, srv, actions, cur, todo, conn, endpoint, sent, commits,
                   sessions, inits, crashed>>
Handle ==
    /\ ~ crashed /\ proc = "handle"
    /\ connections' = CASE cur.type = "SUBSCRIBE" -> connections \cup {cur.c}
                        [] cur.type = "UNSUBSCRIBE" -> connections \ {cur.c}
                        [] OTHER -> connections
    /\ proc' = IF cur = Exit THEN "done" ELSE "check"
    /\ UNCHANGED <<app, srv, actions, cur, todo, conn, endpoint, sent, commits,
                   sessions, inits, crashed>>

(* The loop over connections.  An exception of wss.send leaves the thread  *)
(* function: std::terminate.                                               *)
Broadcast ==
    /\ ~ crashed /\ proc = "broadcast"
    /\ IF todo = {}
       THEN proc' = "check" /\ UNCHANGED <<todo, sent, crashed>>
       ELSE \E c \in todo :
            IF conn[c] = "open"
            THEN /\ sent' = [sent EXCEPT ![c] = Append(@, cur.n)]
                 /\ todo' = todo \ {c}
                 /\ UNCHANGED <<proc, crashed>>
            ELSE crashed' = TRUE /\ UNCHANGED <<proc, todo, sent>>
    /\ UNCHANGED <<app, srv, actions, connections, cur, conn, endpoint, commits,
                   sessions, inits>>

ProcStep == Pop \/ Handle \/ Broadcast

Next ==
    \/ Start \/ Commit \/ Stop \/ AppStep
    \/ SrvStep
    \/ \E c \in Conns : on_open(c) \/ Closing(c) \/ on_close(c) \/ on_message(c)
    \/ ProcStep \/ SpuriousWakeup

(* The operating system runs each thread that is not blocked; neither the  *)
(* simulation nor a viewer has to do anything.                             *)
Spec == Init /\ [][Next]_vars
        /\ WF_vars(AppStep) /\ WF_vars(SrvStep) /\ WF_vars(ProcStep)

----------------------------------------------------------------------------
TypeOK ==
    /\ app \in {"down", "up", "notify", "stop_notify", "join_proc", "wss_stop",
                "join_srv"}
    /\ srv \in {"off", "start", "listen", "run", "notify", "done"}
    /\ proc \in {"off", "check", "wait", "handle", "broadcast", "done"}
    /\ actions \in Seq(Action)
    /\ connections \subseteq Conns
    /\ cur \in Action
    /\ todo \subseteq Conns
    /\ conn \in [Conns -> {"away", "open", "closing", "closed"}]
    /\ endpoint \in {"new", "ready", "stopped"}
    /\ sent \in [Conns -> Seq(1 .. MaxCommits)]
    /\ commits \in 0 .. MaxCommits
    /\ sessions \in 0 .. MaxSessions
    /\ inits \in 0 .. MaxSessions
    /\ crashed \in BOOLEAN

(* A viewer sees the results in the order of the zserver_commit calls and  *)
(* none twice, although they pass through a queue it shares with other     *)
(* viewers' events and with the end of an earlier session.                 *)
InOrder ==
    \A c \in Conns : \A k, l \in 1 .. Len(sent[c]) :
        k < l => sent[c][k] < sent[c][l]

(* The actions the message thread has still to carry out, oldest first.    *)
Backlog == (IF proc = "handle" THEN <<cur>> ELSE <<>>) \o actions

(* Registered connections and logs after the first k actions of Backlog.   *)
After(st, a) ==
    CASE a.type = "SUBSCRIBE" -> [st EXCEPT !.subs = @ \cup {a.c}]
      [] a.type = "UNSUBSCRIBE" -> [st EXCEPT !.subs = @ \ {a.c}]
      [] a.type = "BROADCAST" ->
            [st EXCEPT !.log = [c \in Conns |-> IF c \in st.subs THEN Append(@[c], a.n)
                                                ELSE @[c]]]
      [] OTHER -> st
CarriedOut ==
    LET state[k \in 0 .. Len(Backlog)] ==
            IF k = 0
            THEN [subs |-> connections,
                  log |-> [c \in Conns |->
                    IF proc = "broadcast" /\ c \in todo THEN Append(sent[c], cur.n)
                    ELSE sent[c]]]
            ELSE After(state[k - 1], Backlog[k])
    IN  state[Len(Backlog)]

(* Queue and threads implement PubSub: a viewer is sent every commit       *)
(* between its registration and its removal, across stop and restart.      *)
PS == INSTANCE PubSub WITH subs <- CarriedOut.subs, log <- CarriedOut.log
ImplementsPubSub == PS!Init /\ [][PS!Next]_<<CarriedOut.subs, CarriedOut.log, commits>>

(* When the queue is drained, the message thread knows exactly the         *)
(* connections whose close handler has not run: no viewer is forgotten,    *)
(* and no closed connection is left for wss.send to throw on.              *)
Drained ==
    proc \in {"check", "wait"} /\ actions = <<>> =>
        connections = {c \in Conns : conn[c] \in {"open", "closing"}}

(* A committed result is taken from the queue while the session lasts or   *)
(* before zserver_stop returns: no notification is lost.                   *)
CommitsHandled ==
    \A n \in 1 .. MaxCommits :
        (\E k \in 1 .. Len(actions) :
             actions[k].type = "BROADCAST" /\ actions[k].n = n)
        ~> (crashed \/ \A k \in 1 .. Len(actions) :
             actions[k].type = "BROADCAST" => actions[k].n # n)

(* zserver_stop returns, whatever the two threads and the viewers are      *)
(* doing when it is called.                                                *)
StopReturns == (app = "stop_notify") ~> (app = "down" \/ crashed)
=============================================================================
