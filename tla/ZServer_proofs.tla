--------------------------- MODULE ZServer_proofs ---------------------------
(* Proofs about ZServer, for every set of connections and every number of  *)
(* commits and sessions.                                                   *)
EXTENDS ZServer, SequenceTheorems, NaturalsInduction, WellFoundedInduction, TLAPS

(* The threads: the message thread handles and broadcasts actions of the   *)
(* right kind and exists only during a session.                            *)
ThreadInv ==
    /\ proc = "broadcast" => cur.type = "BROADCAST"
    /\ app \in {"down", "wss_stop", "join_srv"} => proc = "off"
    /\ inits <= sessions
    /\ srv = "start" => inits < sessions

(* Results are queued in the order of their commits. *)
QueueInv ==
    \A k \in 1 .. Len(actions) : actions[k].type = "BROADCAST" =>
        /\ actions[k].n <= commits
        /\ \A l \in 1 .. Len(actions) :
               k < l /\ actions[l].type = "BROADCAST" => actions[k].n < actions[l].n

(* The result being sent is older than every queued one. *)
CurInv ==
    proc = "broadcast" =>
        /\ cur.n <= commits
        /\ \A k \in 1 .. Len(actions) :
               actions[k].type = "BROADCAST" => cur.n < actions[k].n

(* What a connection was sent is older than what it is still to be sent. *)
SentInv ==
    \A c \in Conns : \A m \in 1 .. Len(sent[c]) :
        /\ sent[c][m] <= commits
        /\ \A k \in 1 .. Len(actions) :
               actions[k].type = "BROADCAST" => sent[c][m] < actions[k].n
        /\ proc = "broadcast" =>
               sent[c][m] <= cur.n /\ (c \in todo => sent[c][m] < cur.n)

OrderInv == QueueInv /\ CurInv /\ SentInv /\ InOrder

(* The registration and the removal of c that are still to be handled. *)
Sub(c) == [type |-> "SUBSCRIBE", c |-> c]
Unsub(c) == [type |-> "UNSUBSCRIBE", c |-> c]
Queued(a) == \E k \in 1 .. Len(actions) : actions[k] = a
Pending(a) == Queued(a) \/ (proc = "handle" /\ cur = a)

(* Set and queue together know each connection, and a removal is never     *)
(* queued ahead of the registration it undoes.                             *)
Known(c) ==
    /\ conn[c] = "away" => ~ Pending(Sub(c)) /\ ~ Pending(Unsub(c)) /\ c \notin connections
    /\ conn[c] \in {"open", "closing"} =>
           ~ Pending(Unsub(c)) /\ (Pending(Sub(c)) \/ c \in connections)
    /\ conn[c] = "closed" =>
           Pending(Unsub(c)) \/ (~ Pending(Sub(c)) /\ c \notin connections)
    /\ \A k, l \in 1 .. Len(actions) :
           actions[k] = Unsub(c) /\ actions[l] = Sub(c) => l < k
    /\ proc = "handle" /\ cur = Unsub(c) => ~ Queued(Sub(c))
RegisteredInv == \A c \in Conns : Known(c)

IInv == TypeOK /\ ThreadInv /\ OrderInv /\ RegisteredInv

(* The members of Action, and the fields they have. *)
LEMMA ActionFacts ==
    /\ Exit \in Action /\ Exit.type = "EXIT"
    /\ \A n \in 1 .. MaxCommits : [type |-> "BROADCAST", n |-> n] \in Action
    /\ \A c \in Conns, t \in {"SUBSCRIBE", "UNSUBSCRIBE", "MESSAGE"} :
           [type |-> t, c |-> c] \in Action
    /\ \A a \in Action : a.type = "BROADCAST" => a.n \in 1 .. MaxCommits
    /\ \A a \in Action : a.type \in {"SUBSCRIBE", "UNSUBSCRIBE", "MESSAGE"} =>
           a.c \in Conns
BY DEF Action, Exit

(* A registration or a removal is determined by its connection. *)
LEMMA ActionShape ==
    ASSUME NEW a, a \in Action
    PROVE  /\ a.type = "SUBSCRIBE" => a = Sub(a.c)
           /\ a.type = "UNSUBSCRIBE" => a = Unsub(a.c)
<1>1. CASE a \in [type : {"SUBSCRIBE", "UNSUBSCRIBE", "MESSAGE"}, c : Conns]
  BY <1>1 DEF Sub, Unsub
<1>2. CASE a \in [type : {"BROADCAST"}, n : 1 .. MaxCommits]
  BY <1>2
<1>3. CASE a \in [type : {"EXIT"}]
  BY <1>3
<1>4. QED
  BY <1>1, <1>2, <1>3 DEF Action

(* What Append and Tail do to the queue. *)
LEMMA Push ==
    ASSUME NEW q \in Seq(Action), NEW a \in Action
    PROVE  /\ Append(q, a) \in Seq(Action)
           /\ Len(Append(q, a)) = Len(q) + 1
           /\ Append(q, a)[Len(q) + 1] = a
           /\ \A k \in 1 .. Len(q) : Append(q, a)[k] = q[k]
BY AppendProperties

LEMMA Take ==
    ASSUME NEW q \in Seq(Action), q # <<>>
    PROVE  /\ Head(q) \in Action /\ Head(q) = q[1] /\ 1 \in 1 .. Len(q)
           /\ Tail(q) \in Seq(Action)
           /\ \A k \in 1 .. Len(Tail(q)) : k + 1 \in 2 .. Len(q) /\ Tail(q)[k] = q[k + 1]
           /\ Len(Tail(q)) = Len(q) - 1
BY HeadTailProperties

----------------------------------------------------------------------------
LEMMA InitInv == Init => IInv
<1> SUFFICES ASSUME Init PROVE IInv
  OBVIOUS
<1> USE DEF Init
<1>1. TypeOK
  <2>1. <<>> \in Seq(Action) /\ <<>> \in Seq(1 .. MaxCommits)
    OBVIOUS
  <2>2. sent \in [Conns -> Seq(1 .. MaxCommits)]
    BY <2>1
  <2>3. commits \in 0 .. MaxCommits /\ sessions \in 0 .. MaxSessions /\ inits \in 0 .. MaxSessions
    BY BoundsAssumption
  <2>4. QED
    BY <2>1, <2>2, <2>3, ActionFacts DEF TypeOK
<1>2. ThreadInv /\ OrderInv
  BY DEF ThreadInv, OrderInv, QueueInv, CurInv, SentInv, InOrder
<1>3. RegisteredInv
  BY DEF RegisteredInv, Known, Pending, Queued
<1>4. QED
  BY <1>1, <1>2, <1>3 DEF IInv

(* Every step keeps the types and the states of the threads.               *)
LEMMA TypeStep == IInv /\ Next => TypeOK' /\ ThreadInv'
<1> SUFFICES ASSUME TypeOK, ThreadInv, Next PROVE TypeOK' /\ ThreadInv'
  BY DEF IInv
<1> USE BoundsAssumption DEF TypeOK, ThreadInv, NotifyOne
<1>1. CASE Start
  BY <1>1 DEF Start
<1>2. CASE Commit
  <2>1. commits' \in 1 .. MaxCommits
    BY <1>2 DEF Commit
  <2>2. actions' \in Seq(Action)
    BY <1>2, <2>1, ActionFacts, Push DEF Commit
  <2>3. QED
    BY <1>2, <2>1, <2>2 DEF Commit
<1>3. CASE Stop
  <2>1. actions' \in Seq(Action)
    BY <1>3, ActionFacts, Push DEF Stop
  <2>2. QED
    BY <1>3, <2>1 DEF Stop
<1>4. CASE AppStep
  <2>1. CASE CommitNotify \/ StopNotify
    BY <2>1 DEF CommitNotify, StopNotify
  <2>2. CASE JoinProc
    BY <2>2 DEF JoinProc
  <2>3. CASE WssStop
    BY <2>3 DEF WssStop
  <2>4. CASE JoinSrv
    BY <2>4 DEF JoinSrv
  <2>5. QED
    BY <1>4, <2>1, <2>2, <2>3, <2>4 DEF AppStep
<1>5. CASE SrvStep
  <2>1. CASE InitAsio
    <3>1. inits \in Int /\ sessions \in Int /\ inits < sessions /\ inits' = inits + 1
      BY <2>1 DEF InitAsio
    <3>2. inits' \in 0 .. MaxSessions /\ inits' <= sessions
      BY <3>1
    <3>3. srv' \in {"listen", "done"} /\ endpoint' \in {"new", "ready", "stopped"}
      BY <2>1 DEF InitAsio
    <3>4. QED
      BY <2>1, <3>2, <3>3 DEF InitAsio
  <2>2. CASE Listen \/ RunReturns \/ HandlerNotify
    BY <2>2 DEF Listen, RunReturns, HandlerNotify
  <2>3. QED
    BY <1>5, <2>1, <2>2 DEF SrvStep
<1>6. ASSUME NEW c \in Conns, on_open(c) \/ on_close(c) \/ on_message(c)
      PROVE  TypeOK' /\ ThreadInv'
  <2>1. PICK t \in {"SUBSCRIBE", "UNSUBSCRIBE", "MESSAGE"} : Handler([type |-> t, c |-> c])
    BY <1>6 DEF on_open, on_close, on_message
  <2>2. actions' \in Seq(Action)
    BY <2>1, ActionFacts, Push DEF Handler
  <2>3. conn' \in [Conns -> {"away", "open", "closing", "closed"}]
    BY <1>6 DEF on_open, on_close, on_message
  <2>4. QED
    BY <2>1, <2>2, <2>3 DEF Handler
<1>7. ASSUME NEW c \in Conns, Closing(c) PROVE TypeOK' /\ ThreadInv'
  BY <1>7 DEF Closing
<1>8. CASE Pop
  <2>1. actions' \in Seq(Action) /\ cur' \in Action
    BY <1>8, Take DEF Pop
  <2>2. QED
    BY <1>8, <2>1 DEF Pop
<1>9. CASE Handle
  <2>1. cur.type \in {"SUBSCRIBE", "UNSUBSCRIBE"} => cur.c \in Conns
    BY ActionFacts
  <2>2. QED
    BY <1>9, <2>1 DEF Handle
<1>10. CASE Broadcast
  <2>1. cur.n \in 1 .. MaxCommits
    BY <1>10, ActionFacts DEF Broadcast
  <2>2. ASSUME NEW c \in todo, sent' = [sent EXCEPT ![c] = Append(@, cur.n)]
        PROVE  sent' \in [Conns -> Seq(1 .. MaxCommits)]
    BY <2>1, <2>2, AppendProperties
  <2>3. sent' \in [Conns -> Seq(1 .. MaxCommits)]
    BY <1>10, <2>2 DEF Broadcast
  <2>4. QED
    BY <1>10, <2>3 DEF Broadcast
<1>11. CASE SpuriousWakeup
  BY <1>11 DEF SpuriousWakeup
<1>12. QED
  BY <1>1, <1>2, <1>3, <1>4, <1>5, <1>6, <1>7, <1>8, <1>9, <1>10, <1>11
     DEF Next, ProcStep

----------------------------------------------------------------------------
(* A step that leaves queue and logs alone and starts no broadcast.        *)
LEMMA QuietOrder ==
    ASSUME OrderInv, UNCHANGED <<actions, cur, todo, sent, commits>>,
           proc' = "broadcast" => proc = "broadcast"
    PROVE  OrderInv'
BY DEF OrderInv, QueueInv, CurInv, SentInv, InOrder

(* An action other than a result joins the queue. *)
LEMMA PushOrder ==
    ASSUME TypeOK, OrderInv, NEW a \in Action, a.type # "BROADCAST",
           actions' = Append(actions, a), UNCHANGED <<proc, cur, todo, sent, commits>>
    PROVE  OrderInv'
<1>1. /\ Len(actions') = Len(actions) + 1 /\ Len(actions) \in Nat
      /\ \A k \in 1 .. Len(actions') : actions'[k].type = "BROADCAST" =>
             k \in 1 .. Len(actions) /\ actions'[k] = actions[k]
  BY Push DEF TypeOK
<1>2. QueueInv'
  BY <1>1 DEF OrderInv, QueueInv
<1>3. CurInv' /\ SentInv' /\ InOrder'
  BY <1>1 DEF OrderInv, CurInv, SentInv, InOrder
<1>4. QED
  BY <1>2, <1>3 DEF OrderInv

(* A new result is the youngest of all. *)
LEMMA CommitOrder == TypeOK /\ ThreadInv /\ OrderInv /\ Commit => OrderInv'
<1> SUFFICES ASSUME TypeOK, ThreadInv, OrderInv, Commit PROVE OrderInv'
  OBVIOUS
<1>1. /\ commits \in Nat /\ commits' = commits + 1
      /\ [type |-> "BROADCAST", n |-> commits'] \in Action
      /\ actions' = Append(actions, [type |-> "BROADCAST", n |-> commits'])
      /\ UNCHANGED <<proc, cur, todo, sent>>
  BY ActionFacts, BoundsAssumption DEF Commit, TypeOK
<1>2. /\ Len(actions') = Len(actions) + 1 /\ Len(actions) \in Nat
      /\ actions'[Len(actions) + 1].n = commits'
      /\ \A k \in 1 .. Len(actions) : actions'[k] = actions[k]
  BY <1>1, Push DEF TypeOK
<1>3. \A k \in 1 .. Len(actions) :
          actions[k] \in Action /\ (actions[k].type = "BROADCAST" => actions[k].n \in Int)
  BY ActionFacts, ElementOfSeq DEF TypeOK
<1>4. QueueInv'
  BY <1>1, <1>2, <1>3 DEF OrderInv, QueueInv
<1>5. CurInv'
  <2>1. proc = "broadcast" => cur.n <= commits
    BY DEF OrderInv, CurInv
  <2>2. proc = "broadcast" => cur.n \in Int
    BY ActionFacts DEF TypeOK, ThreadInv
  <2>3. QED
    BY <1>1, <1>2, <2>1, <2>2 DEF OrderInv, CurInv
<1>6. SentInv'
  <2> SUFFICES ASSUME NEW c \in Conns, NEW m \in 1 .. Len(sent[c])
               PROVE  /\ sent[c][m] <= commits'
                      /\ \A k \in 1 .. Len(actions') :
                             actions'[k].type = "BROADCAST" => sent[c][m] < actions'[k].n
    BY <1>1 DEF OrderInv, SentInv
  <2>1. sent[c] \in Seq(1 .. MaxCommits)
    BY DEF TypeOK
  <2>2. sent[c][m] \in 1 .. MaxCommits /\ sent[c][m] <= commits
    BY <2>1, ElementOfSeq DEF OrderInv, SentInv
  <2>3. \A k \in 1 .. Len(actions) :
            actions[k].type = "BROADCAST" => sent[c][m] < actions[k].n
    BY DEF OrderInv, SentInv
  <2>4. QED
    BY <1>1, <1>2, <2>2, <2>3
<1>7. SentInv' /\ InOrder'
  BY <1>1, <1>6 DEF OrderInv, InOrder
<1>8. QED
  BY <1>4, <1>5, <1>7 DEF OrderInv

(* The oldest action leaves the queue. *)
LEMMA PopOrder == TypeOK /\ OrderInv /\ Pop => OrderInv'
<1> SUFFICES ASSUME TypeOK, OrderInv, Pop, actions # <<>> PROVE OrderInv'
  BY QuietOrder DEF Pop
<1>1. /\ cur' = actions[1] /\ 1 \in 1 .. Len(actions) /\ Len(actions) \in Nat
      /\ Len(actions') = Len(actions) - 1
      /\ \A k \in 1 .. Len(actions') :
             k + 1 \in 2 .. Len(actions) /\ actions'[k] = actions[k + 1]
      /\ UNCHANGED <<sent, commits>>
      /\ proc' = "broadcast" => cur'.type = "BROADCAST"
  <2>1. actions \in Seq(Action)
    BY DEF TypeOK
  <2>2. /\ actions' = Tail(actions) /\ cur' = Head(actions) /\ UNCHANGED <<sent, commits>>
        /\ proc' = "broadcast" => cur'.type = "BROADCAST"
    BY DEF Pop
  <2>3. QED
    BY <2>1, <2>2, Take
<1>2. \A k \in 1 .. Len(actions) : actions[k].type = "BROADCAST" =>
          /\ actions[k].n <= commits
          /\ \A l \in 1 .. Len(actions) :
                 k < l /\ actions[l].type = "BROADCAST" => actions[k].n < actions[l].n
  BY DEF OrderInv, QueueInv
<1>3. QueueInv'
  <2> SUFFICES ASSUME NEW k \in 1 .. Len(actions'), actions'[k].type = "BROADCAST"
               PROVE  /\ actions'[k].n <= commits
                      /\ \A l \in 1 .. Len(actions') :
                             k < l /\ actions'[l].type = "BROADCAST"
                               => actions'[k].n < actions'[l].n
    BY <1>1 DEF QueueInv
  <2>1. actions'[k].n <= commits
    BY <1>1, <1>2
  <2>2. ASSUME NEW l \in 1 .. Len(actions'), k < l, actions'[l].type = "BROADCAST"
        PROVE  actions'[k].n < actions'[l].n
    <3>1. k + 1 < l + 1 /\ k + 1 \in 1 .. Len(actions) /\ l + 1 \in 1 .. Len(actions)
      BY <1>1, <2>2
    <3>2. QED
      BY <1>1, <1>2, <2>2, <3>1
  <2>3. QED
    BY <2>1, <2>2
<1>4. CurInv'
  <2> SUFFICES ASSUME proc' = "broadcast", NEW k \in 1 .. Len(actions'),
                      actions'[k].type = "BROADCAST"
               PROVE  actions[1].n < actions[k + 1].n
    BY <1>1, <1>2 DEF CurInv
  <2>1. 1 < k + 1 /\ k + 1 \in 1 .. Len(actions)
    BY <1>1
  <2>2. QED
    BY <1>1, <1>2, <2>1
<1>5. SentInv' /\ InOrder'
  <2> SUFFICES ASSUME NEW c \in Conns, NEW m \in 1 .. Len(sent[c])
               PROVE  /\ \A k \in 1 .. Len(actions') :
                             actions'[k].type = "BROADCAST" => sent[c][m] < actions'[k].n
                      /\ proc' = "broadcast" =>
                             sent[c][m] <= cur'.n /\ sent[c][m] < cur'.n
    BY <1>1 DEF OrderInv, SentInv, InOrder
  <2>1. \A k \in 1 .. Len(actions) :
            actions[k].type = "BROADCAST" => sent[c][m] < actions[k].n
    BY DEF OrderInv, SentInv
  <2>2. \A k \in 1 .. Len(actions') : k + 1 \in 1 .. Len(actions)
    BY <1>1
  <2>3. sent[c] \in Seq(1 .. MaxCommits)
    BY DEF TypeOK
  <2>4. sent[c][m] \in 1 .. MaxCommits
    BY <2>3, ElementOfSeq
  <2>5. proc' = "broadcast" => cur'.n \in Int
    BY <1>1, ActionFacts, ElementOfSeq DEF TypeOK
  <2>6. \A k \in 1 .. Len(actions') :
            actions'[k].type = "BROADCAST" => sent[c][m] < actions'[k].n
    BY <1>1, <2>1, <2>2
  <2>7. proc' = "broadcast" => sent[c][m] < cur'.n
    BY <1>1, <2>1
  <2>8. QED
    BY <2>4, <2>5, <2>6, <2>7
<1>6. QED
  BY <1>3, <1>4, <1>5 DEF OrderInv

(* A result is sent to one more connection. *)
LEMMA BroadcastOrder == TypeOK /\ ThreadInv /\ OrderInv /\ Broadcast => OrderInv'
<1> SUFFICES ASSUME TypeOK, ThreadInv, OrderInv, Broadcast,
                    NEW c \in todo, sent' = [sent EXCEPT ![c] = Append(@, cur.n)],
                    todo' = todo \ {c}, UNCHANGED <<proc, actions, cur, commits>>
             PROVE  OrderInv'
  BY QuietOrder DEF Broadcast, OrderInv, QueueInv, CurInv, SentInv, InOrder
<1>1. proc = "broadcast" /\ c \in Conns /\ cur.n \in 1 .. MaxCommits
  BY ActionFacts DEF TypeOK, ThreadInv, Broadcast
<1>2. /\ Len(sent[c]) \in Nat /\ Len(sent'[c]) = Len(sent[c]) + 1
      /\ sent'[c][Len(sent[c]) + 1] = cur.n
      /\ \A m \in 1 .. Len(sent[c]) : sent'[c][m] = sent[c][m]
      /\ \A d \in Conns \ {c} : sent'[d] = sent[d]
  BY <1>1, AppendProperties DEF TypeOK
<1>3. QueueInv' /\ CurInv'
  BY DEF OrderInv, QueueInv, CurInv
<1>4. \A m \in 1 .. Len(sent'[c]) :
          sent'[c][m] <= cur.n /\ (m \in 1 .. Len(sent[c]) => sent'[c][m] < cur.n)
  BY <1>1, <1>2 DEF OrderInv, SentInv
<1>5. SentInv'
  BY <1>1, <1>2, <1>4 DEF OrderInv, SentInv, CurInv, TypeOK
<1>6. InOrder'
  BY <1>1, <1>2 DEF OrderInv, SentInv, InOrder
<1>7. QED
  BY <1>3, <1>5, <1>6 DEF OrderInv

----------------------------------------------------------------------------
LEMMA Distinct ==
    \A c, d \in Conns : /\ Sub(c) # Unsub(d) /\ Sub(c) # Exit /\ Unsub(c) # Exit
                        /\ Sub(c) = Sub(d) => c = d
                        /\ Unsub(c) = Unsub(d) => c = d
                        /\ Sub(c).type = "SUBSCRIBE" /\ Unsub(c).type = "UNSUBSCRIBE"
BY DEF Sub, Unsub, Exit

(* A step that leaves queue, set and connections alone.                    *)
LEMMA QuietKnown ==
    ASSUME RegisteredInv, UNCHANGED <<actions, connections, cur, conn>>,
           proc' = "handle" <=> proc = "handle"
    PROVE  RegisteredInv'
BY DEF RegisteredInv, Known, Pending, Queued

(* What is queued after an action has joined the queue.                    *)
LEMMA PushQueued ==
    ASSUME TypeOK, NEW a \in Action, actions' = Append(actions, a)
    PROVE  \A b : Queued(b)' <=> Queued(b) \/ b = a
<1>1. /\ Len(actions') = Len(actions) + 1 /\ Len(actions) \in Nat
      /\ actions'[Len(actions) + 1] = a
      /\ \A k \in 1 .. Len(actions) : actions'[k] = actions[k]
  BY Push DEF TypeOK
<1>2. 1 .. Len(actions') = 1 .. Len(actions) \cup {Len(actions) + 1}
  BY <1>1
<1>3. QED
  BY <1>1, <1>2 DEF Queued

(* The order of removal and registration after an action has joined.       *)
LEMMA PushKnown ==
    ASSUME TypeOK, RegisteredInv, NEW c \in Conns, NEW a \in Action,
           actions' = Append(actions, a), UNCHANGED <<proc, cur, connections>>,
           \/ a \notin {Sub(c), Unsub(c)} /\ conn'[c] = conn[c]
           \/ a = Sub(c) /\ conn[c] = "away" /\ conn'[c] = "open"
           \/ a = Unsub(c) /\ conn[c] = "closing" /\ conn'[c] = "closed"
    PROVE  Known(c)'
<1>1. Known(c)
  BY DEF RegisteredInv
<1>2. \A b : Queued(b)' <=> Queued(b) \/ b = a
  BY PushQueued
<1>3. \A b : Pending(b)' <=> Pending(b) \/ b = a
  BY <1>2 DEF Pending
<1>4. Sub(c) # Unsub(c)
  BY Distinct
<1>5. \A k, l \in 1 .. Len(actions') :
          actions'[k] = Unsub(c) /\ actions'[l] = Sub(c) => l < k
  <2>1. /\ Len(actions') = Len(actions) + 1 /\ Len(actions) \in Nat
        /\ actions'[Len(actions) + 1] = a
        /\ \A k \in 1 .. Len(actions) : actions'[k] = actions[k]
    BY Push DEF TypeOK
  <2>2. a = Sub(c) => ~ Queued(Unsub(c))
    BY <1>1, <1>4 DEF Known, Pending
  <2>3. \A k, l \in 1 .. Len(actions) :
            actions[k] = Unsub(c) /\ actions[l] = Sub(c) => l < k
    BY <1>1 DEF Known
  <2>4. QED
    BY <1>4, <2>1, <2>2, <2>3 DEF Queued
<1>6. proc' = "handle" /\ cur' = Unsub(c) => ~ Queued(Sub(c))'
  BY <1>1, <1>2, <1>4 DEF Known, Pending
<1>7. /\ conn'[c] = "away" => ~ Pending(Sub(c))' /\ ~ Pending(Unsub(c))' /\ c \notin connections'
      /\ conn'[c] \in {"open", "closing"} =>
             ~ Pending(Unsub(c))' /\ (Pending(Sub(c))' \/ c \in connections')
      /\ conn'[c] = "closed" =>
             Pending(Unsub(c))' \/ (~ Pending(Sub(c))' /\ c \notin connections')
  BY <1>1, <1>3, <1>4 DEF Known
<1>8. Sub(c)' = Sub(c) /\ Unsub(c)' = Unsub(c)
  BY DEF Sub, Unsub
<1>9. QED
  BY <1>5, <1>6, <1>7, <1>8 DEF Known

(* The oldest action is taken to be handled, or sent.                      *)
LEMMA PopKnown == TypeOK /\ RegisteredInv /\ Pop => RegisteredInv'
<1> SUFFICES ASSUME TypeOK, RegisteredInv, Pop, actions # <<>>, NEW c \in Conns
             PROVE  Known(c)'
  BY QuietKnown DEF Pop, RegisteredInv
<1>1. Known(c)
  BY DEF RegisteredInv
<1>2. /\ actions' = Tail(actions) /\ cur' = Head(actions) /\ proc = "check"
      /\ UNCHANGED <<connections, conn>>
      /\ cur'.type # "BROADCAST" <=> proc' = "handle"
  BY DEF Pop
<1>3. /\ cur' = actions[1] /\ 1 \in 1 .. Len(actions) /\ Len(actions) \in Nat
      /\ Len(actions') = Len(actions) - 1
      /\ \A k \in 1 .. Len(actions') :
             k + 1 \in 2 .. Len(actions) /\ actions'[k] = actions[k + 1]
  BY <1>2, Take DEF TypeOK
<1>4. \A k \in 1 .. Len(actions) : k = 1 \/ (k - 1 \in 1 .. Len(actions') /\ actions[k] = actions'[k - 1])
  BY <1>3
<1>5. ASSUME NEW b, b \in {Sub(c), Unsub(c)}
      PROVE  Pending(b)' <=> Pending(b)
  <2>1. Pending(b) <=> Queued(b)
    BY <1>2 DEF Pending
  <2>2. cur' = b => proc' = "handle"
    BY <1>2, <1>5, Distinct
  <2>3. Queued(b) <=> (cur' = b \/ Queued(b)')
    BY <1>3, <1>4 DEF Queued
  <2>4. QED
    BY <2>1, <2>2, <2>3 DEF Pending
<1>6. \A k, l \in 1 .. Len(actions') :
          actions'[k] = Unsub(c) /\ actions'[l] = Sub(c) => l < k
  BY <1>1, <1>3 DEF Known
<1>7. cur' = Unsub(c) => ~ Queued(Sub(c))'
  <2> SUFFICES ASSUME cur' = Unsub(c), NEW k \in 1 .. Len(actions'), actions'[k] = Sub(c)
               PROVE  FALSE
    BY DEF Queued, Sub
  <2>1. k + 1 \in 1 .. Len(actions) /\ actions[k + 1] = Sub(c) /\ k + 1 > 1
    BY <1>3
  <2>2. k + 1 < 1
    BY <1>1, <1>3, <2>1 DEF Known
  <2>3. QED
    BY <2>1, <2>2
<1>8. Sub(c)' = Sub(c) /\ Unsub(c)' = Unsub(c)
  BY DEF Sub, Unsub
<1>9. QED
  BY <1>1, <1>2, <1>5, <1>6, <1>7, <1>8 DEF Known

(* The set is updated.                                                     *)
LEMMA HandleKnown == TypeOK /\ RegisteredInv /\ Handle => RegisteredInv'
<1> SUFFICES ASSUME TypeOK, RegisteredInv, Handle, NEW c \in Conns PROVE Known(c)'
  BY DEF RegisteredInv
<1>1. Known(c)
  BY DEF RegisteredInv
<1>2. proc = "handle" /\ proc' # "handle" /\ UNCHANGED <<actions, conn, cur>>
  BY DEF Handle
<1>3. \A b : (Queued(b)' <=> Queued(b)) /\ (Pending(b)' <=> Queued(b))
  BY <1>2 DEF Queued, Pending
<1>4. /\ cur.type = "SUBSCRIBE" => cur = Sub(cur.c)
      /\ cur.type = "UNSUBSCRIBE" => cur = Unsub(cur.c)
  <2>1. cur \in Action
    BY DEF TypeOK
  <2>2. QED
    BY <2>1, ActionShape
<1>5. c \in connections' <=> (c \in connections \/ cur = Sub(c)) /\ cur # Unsub(c)
  <2>1. CASE cur.type = "SUBSCRIBE"
    BY <1>4, <2>1, Distinct, ActionFacts DEF Handle, TypeOK
  <2>2. CASE cur.type = "UNSUBSCRIBE"
    BY <1>4, <2>2, Distinct, ActionFacts DEF Handle, TypeOK
  <2>3. CASE cur.type \notin {"SUBSCRIBE", "UNSUBSCRIBE"}
    BY <2>3, Distinct DEF Handle
  <2>4. QED
    BY <2>1, <2>2, <2>3
<1>6. Sub(c) # Unsub(c) /\ Sub(c)' = Sub(c) /\ Unsub(c)' = Unsub(c)
  BY Distinct DEF Sub, Unsub
<1>7. /\ Pending(Sub(c)) <=> Queued(Sub(c)) \/ cur = Sub(c)
      /\ Pending(Unsub(c)) <=> Queued(Unsub(c)) \/ cur = Unsub(c)
  BY <1>2 DEF Pending
<1>8. QED
  BY <1>1, <1>2, <1>3, <1>5, <1>6, <1>7 DEF Known

----------------------------------------------------------------------------
(* Every step keeps the order of the results. *)
LEMMA OrderStep == IInv /\ Next => OrderInv'
<1> SUFFICES ASSUME TypeOK, ThreadInv, OrderInv, Next PROVE OrderInv'
  BY DEF IInv
<1>1. CASE Commit
  BY <1>1, CommitOrder
<1>2. CASE Stop
  BY <1>2, PushOrder, ActionFacts DEF Stop
<1>3. ASSUME NEW c \in Conns, on_open(c) \/ on_close(c) \/ on_message(c)
      PROVE  OrderInv'
  <2>1. PICK t \in {"SUBSCRIBE", "UNSUBSCRIBE", "MESSAGE"} : Handler([type |-> t, c |-> c])
    BY <1>3 DEF on_open, on_close, on_message
  <2>2. [type |-> t, c |-> c] \in Action /\ [type |-> t, c |-> c].type # "BROADCAST"
    BY ActionFacts
  <2>3. QED
    BY <2>1, <2>2, PushOrder DEF Handler
<1>4. CASE Pop
  BY <1>4, PopOrder
<1>5. CASE Broadcast
  BY <1>5, BroadcastOrder
<1>6. CASE Start \/ AppStep \/ SrvStep \/ Handle \/ SpuriousWakeup
  BY <1>6, QuietOrder DEF Start, AppStep, CommitNotify, StopNotify, JoinProc, WssStop,
     JoinSrv, SrvStep, InitAsio, Listen, RunReturns, HandlerNotify, Handle,
     SpuriousWakeup, NotifyOne
<1>7. ASSUME NEW c \in Conns, Closing(c) PROVE OrderInv'
  BY <1>7, QuietOrder DEF Closing
<1>8. QED
  BY <1>1, <1>2, <1>3, <1>4, <1>5, <1>6, <1>7 DEF Next, ProcStep

(* Every step keeps what set and queue know of each connection. *)
LEMMA RegisteredStep == IInv /\ Next => RegisteredInv'
<1> SUFFICES ASSUME TypeOK, ThreadInv, RegisteredInv, Next PROVE RegisteredInv'
  BY DEF IInv
<1>1. CASE Commit
  <2>1. [type |-> "BROADCAST", n |-> commits'] \in Action
    BY <1>1, ActionFacts, BoundsAssumption DEF Commit, TypeOK
  <2>2. \A d \in Conns : [type |-> "BROADCAST", n |-> commits'] \notin {Sub(d), Unsub(d)}
    BY DEF Sub, Unsub
  <2>3. QED
    BY <1>1, <2>1, <2>2, PushKnown DEF Commit, RegisteredInv
<1>2. CASE Stop
  <2>1. \A d \in Conns : Exit \notin {Sub(d), Unsub(d)}
    BY Distinct
  <2>2. QED
    BY <1>2, <2>1, PushKnown, ActionFacts DEF Stop, RegisteredInv
<1>3. ASSUME NEW c \in Conns, NEW d \in Conns, on_open(c) PROVE Known(d)'
  <2>1. Sub(c) \in Action /\ Handler(Sub(c))
    BY <1>3, ActionFacts DEF on_open, Sub
  <2>2. d # c => Sub(c) \notin {Sub(d), Unsub(d)} /\ conn'[d] = conn[d]
    BY <1>3, Distinct DEF on_open, TypeOK
  <2>3. d = c => conn[d] = "away" /\ conn'[d] = "open"
    BY <1>3 DEF on_open, TypeOK
  <2>4. QED
    BY <2>1, <2>2, <2>3, PushKnown DEF Handler
<1>4. ASSUME NEW c \in Conns, NEW d \in Conns, on_close(c) PROVE Known(d)'
  <2>1. Unsub(c) \in Action /\ Handler(Unsub(c))
    BY <1>4, ActionFacts DEF on_close, Unsub
  <2>2. d # c => Unsub(c) \notin {Sub(d), Unsub(d)} /\ conn'[d] = conn[d]
    BY <1>4, Distinct DEF on_close, TypeOK
  <2>3. d = c => conn[d] = "closing" /\ conn'[d] = "closed"
    BY <1>4 DEF on_close, TypeOK
  <2>4. QED
    BY <2>1, <2>2, <2>3, PushKnown DEF Handler
<1>5. ASSUME NEW c \in Conns, NEW d \in Conns, on_message(c) PROVE Known(d)'
  <2>1. [type |-> "MESSAGE", c |-> c] \notin {Sub(d), Unsub(d)}
    BY DEF Sub, Unsub
  <2>2. QED
    BY <1>5, <2>1, PushKnown, ActionFacts DEF on_message, Handler
<1>6. ASSUME NEW c \in Conns, Closing(c) PROVE RegisteredInv'
  BY <1>6 DEF Closing, RegisteredInv, Known, Pending, Queued, TypeOK
<1>7. CASE Pop
  BY <1>7, PopKnown
<1>8. CASE Handle
  BY <1>8, HandleKnown
<1>9. CASE Start \/ AppStep \/ SrvStep \/ Broadcast \/ SpuriousWakeup
  BY <1>9, QuietKnown DEF Start, AppStep, CommitNotify, StopNotify, JoinProc, WssStop,
     JoinSrv, SrvStep, InitAsio, Listen, RunReturns, HandlerNotify, Broadcast,
     SpuriousWakeup, NotifyOne, ThreadInv
<1>10. QED
  BY <1>1, <1>2, <1>3, <1>4, <1>5, <1>6, <1>7, <1>8, <1>9
     DEF Next, ProcStep, RegisteredInv

LEMMA InvStep == IInv /\ [Next]_vars => IInv'
<1>1. IInv /\ UNCHANGED vars => IInv'
  BY DEF IInv, TypeOK, ThreadInv, OrderInv, QueueInv, CurInv, SentInv, InOrder,
     RegisteredInv, Known, Pending, Queued, vars
<1>2. IInv /\ Next => IInv'
  BY TypeStep, OrderStep, RegisteredStep DEF IInv
<1>3. QED
  BY <1>1, <1>2

(* IInv is inductive. *)
THEOREM Inductive == Spec => []IInv
BY InitInv, InvStep, PTL DEF Spec

(* The server's variables keep their types in every run of its threads. *)
THEOREM TypeCorrect == Spec => []TypeOK
<1>1. IInv => TypeOK
  BY DEF IInv
<1>2. QED
  BY <1>1, Inductive, PTL

(* With any number of viewers, commits and sessions, a viewer receives the *)
(* results in the order in which they were committed, none twice.          *)
THEOREM OrderCorrect == Spec => []InOrder
<1>1. IInv => InOrder
  BY DEF IInv, OrderInv
<1>2. QED
  BY <1>1, Inductive, PTL

(* A drained queue leaves the message thread with exactly the connections  *)
(* whose close handler has not run.                                        *)
THEOREM DrainedCorrect == Spec => []Drained
<1>1. IInv => Drained
  <2> SUFFICES ASSUME IInv, proc \in {"check", "wait"}, actions = <<>>
               PROVE  connections = {c \in Conns : conn[c] \in {"open", "closing"}}
    BY DEF Drained
  <2>1. \A b : ~ Pending(b)
    BY DEF Pending, Queued
  <2>2. \A c \in Conns : conn[c] \in {"open", "closing"} <=> c \in connections
    BY <2>1 DEF IInv, TypeOK, RegisteredInv, Known
  <2>3. QED
    BY <2>2 DEF IInv, TypeOK
<1>2. QED
  BY <1>1, Inductive, PTL
----------------------------------------------------------------------------
(* Queue and threads implement PubSub.                                     *)

(* What the message thread has carried out, the broadcast it is at counted *)
(* as done.                                                                *)
Base == [subs |-> connections,
         log  |-> [c \in Conns |->
             IF proc = "broadcast" /\ c \in todo THEN Append(sent[c], cur.n) ELSE sent[c]]]

Registers == [subs : SUBSET Conns, log : [Conns -> Seq(1 .. MaxCommits)]]

(* g lists what is reached from st by the first n actions of q, and x is   *)
(* what is reached by all of them.                                         *)
Reach(g, st, q, k) == IF k = 0 THEN st ELSE After(g[k - 1], q[k])
Course(g, st, q, n) == g = [k \in 0 .. n |-> Reach(g, st, q, k)]
Steps(g, q, n) == \A k \in 1 .. n : g[k] = After(g[k - 1], q[k])
Ends(st, q, x) == \E g : Course(g, st, q, Len(q)) /\ x = g[Len(q)]

LEMMA LeastOf ==
    ASSUME NEW T \in SUBSET Nat, T # {}
    PROVE  \E x \in T : \A y \in T : x <= y
<1> DEFINE R == OpToRel(<, Nat)
<1>1. IsWellFoundedOn(R, Nat)
  BY NatLessThanWellFounded
<1>2. \A x, y \in Nat : y < x => <<y, x>> \in R
  BY DEF OpToRel
<1> HIDE DEF R
<1>3. \E x \in T : \A y \in T : ~ (<<y, x>> \in R)
  BY <1>1, WFMin
<1>4. \A x, y \in T : ~ (<<y, x>> \in R) => x <= y
  BY <1>2
<1> QED
  BY <1>3, <1>4, Zenon

(* The actions have a course, of any length, ...                           *)
LEMMA CourseExists ==
    ASSUME NEW st, NEW q
    PROVE  \A n \in Nat : \E g : Course(g, st, q, n)
<1> DEFINE Bad == {n \in Nat : ~ \E g : Course(g, st, q, n)}
<1> SUFFICES ASSUME Bad # {} PROVE FALSE
  OBVIOUS
<1>1. PICK n \in Bad : \A m \in Bad : n <= m
  BY LeastOf
<1>2. n \in Nat
  OBVIOUS
<1>3. CASE n = 0
  <2> DEFINE g == [k \in 0 .. 0 |-> st]
  <2>1. g = [k \in 0 .. 0 |-> Reach(g, st, q, k)]
    BY DEF Reach
  <2> HIDE DEF g
  <2> QED
    BY <1>3, <2>1 DEF Course
<1>4. CASE n # 0
  <2>1. n - 1 \in Nat /\ n - 1 \notin Bad
    BY <1>1, <1>2, <1>4
  <2>2. PICK f : Course(f, st, q, n - 1)
    BY <2>1
  <2> DEFINE g == [k \in 0 .. n |-> IF k = n THEN Reach(f, st, q, n) ELSE f[k]]
  <2>3. \A k \in 0 .. n : k # 0 => k - 1 \in 0 .. n - 1 /\ k - 1 \in 0 .. n /\ k - 1 # n
    BY <1>2
  <2>4. \A k \in 0 .. n : k # 0 => g[k - 1] = f[k - 1]
    BY <2>3
  <2>5. \A k \in 0 .. n : k # n => f[k] = Reach(f, st, q, k)
    BY <1>2, <2>2 DEF Course
  <2> HIDE DEF g
  <2>6. \A k \in 0 .. n : Reach(g, st, q, k) = Reach(f, st, q, k)
    BY <2>4 DEF Reach
  <2>7. g = [k \in 0 .. n |-> Reach(f, st, q, k)]
    BY <2>5 DEF g
  <2>8. Course(g, st, q, n)
    BY <2>6, <2>7 DEF Course
  <2> QED
    BY <2>8
<1> QED
  BY <1>3, <1>4

(* ... that starts at st and makes one step for each, ...                  *)
LEMMA CourseSteps ==
    ASSUME NEW g, NEW st, NEW q, NEW n \in Nat, Course(g, st, q, n)
    PROVE  g[0] = st /\ Steps(g, q, n)
<1>1. \A k \in 0 .. n : g[k] = Reach(g, st, q, k)
  BY DEF Course
<1>2. 0 \in 0 .. n /\ \A k \in 1 .. n : k \in 0 .. n /\ k # 0
  OBVIOUS
<1> QED
  BY <1>1, <1>2 DEF Reach, Steps

(* ... and by which it is determined. *)
LEMMA Together ==
    ASSUME NEW n \in Nat, NEW f, NEW g, NEW q, f[0] = g[0],
           Steps(f, q, n), Steps(g, q, n)
    PROVE  f[n] = g[n]
<1> DEFINE Bad == {k \in 0 .. n : f[k] # g[k]}
<1> SUFFICES ASSUME Bad # {} PROVE FALSE
  OBVIOUS
<1>1. PICK k \in Bad : \A l \in Bad : k <= l
  <2>1. Bad \in SUBSET Nat
    OBVIOUS
  <2> HIDE DEF Bad
  <2> QED
    BY <2>1, LeastOf
<1>2. k # 0
  OBVIOUS
<1>3. k - 1 \in 0 .. n /\ k - 1 \notin Bad /\ k \in 1 .. n
  BY <1>1, <1>2
<1>4. f[k - 1] = g[k - 1]
  BY <1>3
<1> QED
  BY <1>3, <1>4 DEF Steps

LEMMA EndsOne ==
    ASSUME NEW st, NEW q \in Seq(Action), NEW x, NEW y, Ends(st, q, x), Ends(st, q, y)
    PROVE  x = y
<1>1. PICK g : Course(g, st, q, Len(q)) /\ x = g[Len(q)]
  BY DEF Ends
<1>2. PICK h : Course(h, st, q, Len(q)) /\ y = h[Len(q)]
  BY DEF Ends
<1>3. Len(q) \in Nat
  OBVIOUS
<1> QED
  BY <1>1, <1>2, <1>3, CourseSteps, Together

(* One action more at the end of the queue. *)
LEMMA EndsAppend ==
    ASSUME NEW st, NEW q \in Seq(Action), NEW a \in Action, NEW x, Ends(st, q, x)
    PROVE  Ends(st, Append(q, a), After(x, a))
<1> DEFINE p == Append(q, a)
           n == Len(q)
<1>1. /\ p \in Seq(Action) /\ Len(p) = n + 1 /\ p[n + 1] = a /\ n \in Nat
      /\ \A k \in 1 .. n : p[k] = q[k]
  BY Push
<1>2. PICK g : Course(g, st, q, n) /\ x = g[n]
  BY DEF Ends
<1>3. PICK h : Course(h, st, p, n + 1)
  BY <1>1, CourseExists
<1> HIDE DEF p, n
<1>4. h[0] = st /\ Steps(h, p, n + 1)
  BY <1>1, <1>3, CourseSteps
<1>5. g[0] = st /\ Steps(g, q, n)
  BY <1>1, <1>2, CourseSteps
<1>6. h[0] = g[0] /\ Steps(h, q, n)
  <2>1. \A k \in 1 .. n : k \in 1 .. n + 1
    BY <1>1
  <2> QED
    BY <1>1, <1>4, <1>5, <2>1 DEF Steps
<1>7. h[n] = g[n]
  <2>1. n \in Nat
    BY <1>1
  <2> QED
    BY <1>5, <1>6, <2>1, Together
<1>8. h[n + 1] = After(h[n], a)
  <2>1. n + 1 \in 1 .. n + 1 /\ n + 1 - 1 = n
    BY <1>1
  <2> QED
    BY <1>1, <1>4, <2>1 DEF Steps
<1>9. Ends(st, p, h[n + 1])
  BY <1>1, <1>3 DEF Ends
<1> QED
  BY <1>2, <1>7, <1>8, <1>9 DEF p

(* The first action carried out. *)
LEMMA EndsTake ==
    ASSUME NEW st, NEW p \in Seq(Action), NEW q \in Seq(Action), NEW x,
           Len(p) = Len(q) + 1, \A k \in 1 .. Len(q) : p[k + 1] = q[k],
           Ends(st, p, x)
    PROVE  Ends(After(st, p[1]), q, x)
<1> DEFINE n == Len(q)
           a == After(st, p[1])
<1>1. n \in Nat /\ \A k \in 1 .. n : p[k + 1] = q[k]
  OBVIOUS
<1>2. PICK h : Course(h, st, p, n + 1) /\ x = h[n + 1]
  BY DEF Ends
<1>3. PICK g : Course(g, a, q, n)
  BY <1>1, CourseExists
<1> HIDE DEF n
<1>4. h[0] = st /\ Steps(h, p, n + 1)
  <2>1. n + 1 \in Nat
    BY <1>1
  <2> QED
    BY <1>2, <2>1, CourseSteps
<1>5. h[1] = a
  <2>1. 1 \in 1 .. n + 1 /\ 1 - 1 = 0
    BY <1>1
  <2> QED
    BY <1>4, <2>1 DEF Steps
<1> HIDE DEF a
<1>6. g[0] = a /\ Steps(g, q, n)
  BY <1>1, <1>3, CourseSteps
<1>10. PICK f : f = [k \in 0 .. n |-> h[k + 1]]
  OBVIOUS
<1>7. f[0] = a /\ f[n] = h[n + 1]
  <2>1. 0 \in 0 .. n /\ n \in 0 .. n /\ 0 + 1 = 1
    BY <1>1
  <2> QED
    BY <1>5, <1>10, <2>1
<1>8. ASSUME NEW k \in 1 .. n PROVE f[k] = After(f[k - 1], q[k])
  <2>1. k \in 0 .. n /\ k - 1 \in 0 .. n /\ k + 1 \in 1 .. n + 1 /\ k + 1 - 1 = k
        /\ k - 1 + 1 = k
    BY <1>1
  <2>2. f[k] = h[k + 1] /\ f[k - 1] = h[k]
    BY <1>10, <2>1
  <2>3. h[k + 1] = After(h[k], p[k + 1])
    BY <1>4, <2>1 DEF Steps
  <2> QED
    BY <1>1, <2>2, <2>3
<1>9. f[n] = g[n]
  <2>1. f[0] = g[0] /\ n \in Nat
    BY <1>1, <1>6, <1>7
  <2>2. Steps(f, q, n)
    BY <1>8 DEF Steps
  <2> QED
    BY <1>6, <2>1, <2>2, Together
<1> QED
  BY <1>2, <1>3, <1>7, <1>9 DEF Ends, a, n

(* CarriedOut is what Base and the backlog end in.                         *)
LEMMA CarriedEnds == TypeOK => Backlog \in Seq(Action) /\ Ends(Base, Backlog, CarriedOut)
<1> SUFFICES ASSUME TypeOK PROVE Backlog \in Seq(Action) /\ Ends(Base, Backlog, CarriedOut)
  OBVIOUS
<1>1. Backlog \in Seq(Action)
  BY DEF TypeOK, Backlog
<1> DEFINE g == CHOOSE f : f = [k \in 0 .. Len(Backlog) |->
                    IF k = 0
                    THEN [subs |-> connections,
                          log |-> [c \in Conns |->
                            IF proc = "broadcast" /\ c \in todo THEN Append(sent[c], cur.n)
                            ELSE sent[c]]]
                    ELSE After(f[k - 1], Backlog[k])]
<1>2. CarriedOut = g[Len(Backlog)]
  BY DEF CarriedOut
<1>3. g = CHOOSE f : Course(f, Base, Backlog, Len(Backlog))
  BY DEF Course, Reach, Base
<1> HIDE DEF g
<1>4. Len(Backlog) \in Nat
  BY <1>1
<1>5. \E f : Course(f, Base, Backlog, Len(Backlog))
  BY <1>4, CourseExists
<1>6. Course(g, Base, Backlog, Len(Backlog))
  BY <1>3, <1>5
<1> QED
  BY <1>1, <1>2, <1>6 DEF Ends

LEMMA CarriedNext ==
    ASSUME TypeOK', NEW x, Ends(Base', Backlog', x)
    PROVE  CarriedOut' = x
<1>1. (TypeOK => Backlog \in Seq(Action) /\ Ends(Base, Backlog, CarriedOut))'
  BY CarriedEnds, PTL
<1>2. Backlog' \in Seq(Action)' /\ Ends(Base', Backlog', CarriedOut')
  BY <1>1
<1>3. Seq(Action)' = Seq(Action)
  BY DEF Action
<1> QED
  BY <1>2, <1>3, EndsOne
(* What an action does to the registers. *)
LEMMA AfterTypes ==
    ASSUME NEW st \in Registers, NEW a \in Action
    PROVE  After(st, a) \in Registers
<1>1. /\ a.type = "BROADCAST" => a.n \in 1 .. MaxCommits
      /\ a.type \in {"SUBSCRIBE", "UNSUBSCRIBE", "MESSAGE"} => a.c \in Conns
  BY ActionFacts
<1>2. ASSUME NEW c \in Conns, a.type = "BROADCAST"
      PROVE  Append(st.log[c], a.n) \in Seq(1 .. MaxCommits)
  BY <1>1, <1>2, AppendProperties DEF Registers
<1>3. CASE a.type = "SUBSCRIBE"
  BY <1>1, <1>3 DEF After, Registers
<1>4. CASE a.type = "UNSUBSCRIBE"
  BY <1>1, <1>4 DEF After, Registers
<1>5. CASE a.type = "BROADCAST"
  <2> DEFINE l == [c \in Conns |-> IF c \in st.subs THEN Append(st.log[c], a.n) ELSE st.log[c]]
  <2>1. l \in [Conns -> Seq(1 .. MaxCommits)]
    BY <1>2, <1>5 DEF Registers
  <2>2. After(st, a) = [st EXCEPT !.log = l]
    BY <1>5 DEF After, Registers
  <2> HIDE DEF l
  <2> QED
    BY <2>1, <2>2 DEF Registers
<1>6. CASE a.type \notin {"SUBSCRIBE", "UNSUBSCRIBE", "BROADCAST"}
  BY <1>6 DEF After
<1> QED
  BY <1>3, <1>4, <1>5, <1>6

LEMMA AfterSub ==
    ASSUME NEW st \in Registers, NEW c \in Conns
    PROVE  /\ After(st, Sub(c)).subs = st.subs \cup {c}
           /\ After(st, Sub(c)).log = st.log
           /\ After(st, Unsub(c)).subs = st.subs \ {c}
           /\ After(st, Unsub(c)).log = st.log
BY DEF After, Sub, Unsub, Registers

LEMMA AfterResult ==
    ASSUME NEW st \in Registers, NEW a \in Action, a.type = "BROADCAST"
    PROVE  /\ After(st, a).subs = st.subs
           /\ After(st, a).log = [c \in Conns |-> IF c \in st.subs THEN Append(st.log[c], a.n)
                                                  ELSE st.log[c]]
BY DEF After, Registers

LEMMA AfterOther ==
    ASSUME NEW st \in Registers, NEW a, a.type \notin {"SUBSCRIBE", "UNSUBSCRIBE", "BROADCAST"}
    PROVE  After(st, a) = st
BY DEF After

LEMMA BaseTypes ==
    ASSUME TypeOK, ThreadInv
    PROVE  Base \in Registers
<1> DEFINE l == [c \in Conns |->
             IF proc = "broadcast" /\ c \in todo THEN Append(sent[c], cur.n) ELSE sent[c]]
<1>1. proc = "broadcast" => cur.n \in 1 .. MaxCommits
  BY ActionFacts DEF TypeOK, ThreadInv
<1>2. \A c \in Conns : sent[c] \in Seq(1 .. MaxCommits)
  BY DEF TypeOK
<1>3. \A c \in Conns : proc = "broadcast" => Append(sent[c], cur.n) \in Seq(1 .. MaxCommits)
  BY <1>1, <1>2, AppendProperties
<1>4. l \in [Conns -> Seq(1 .. MaxCommits)]
  BY <1>2, <1>3
<1>5. Base = [subs |-> connections, log |-> l] /\ connections \subseteq Conns
  BY DEF Base, TypeOK
<1> HIDE DEF l
<1> QED
  BY <1>4, <1>5 DEF Registers

----------------------------------------------------------------------------
(* The registers that the whole queue leads to know the open connections,  *)
(* and one that has not opened yet was sent nothing.                       *)
KnownAhead ==
    /\ CarriedOut \in Registers
    /\ CarriedOut.subs = {c \in Conns : conn[c] \in {"open", "closing"}}
    /\ \A c \in Conns : conn[c] = "away" => CarriedOut.log[c] = <<>>

RefInv ==
    /\ IInv /\ KnownAhead
    /\ proc = "handle" => cur.type # "BROADCAST"

(* A step that leaves what there is to carry out.                          *)
LEMMA SameCourse ==
    ASSUME IInv, IInv', Base' = Base, Backlog' = Backlog
    PROVE  CarriedOut' = CarriedOut
<1>1. Ends(Base, Backlog, CarriedOut)
  BY CarriedEnds DEF IInv
<1> QED
  BY <1>1, CarriedNext DEF IInv

LEMMA QuietCourse ==
    ASSUME IInv, IInv', UNCHANGED <<actions, connections, cur, sent, todo>>,
           proc' = "handle" <=> proc = "handle", proc' = "broadcast" <=> proc = "broadcast"
    PROVE  CarriedOut' = CarriedOut
<1>1. Base' = Base /\ Backlog' = Backlog
  BY DEF Base, Backlog
<1> QED
  BY <1>1, SameCourse

(* A step that queues an action.                                           *)
LEMMA PushCourse ==
    ASSUME IInv, IInv', NEW a \in Action, actions' = Append(actions, a),
           UNCHANGED <<proc, connections, cur, sent, todo>>
    PROVE  CarriedOut' = After(CarriedOut, a)
<1>1. Backlog \in Seq(Action) /\ Ends(Base, Backlog, CarriedOut)
  BY CarriedEnds DEF IInv
<1>2. Base' = Base
  BY DEF Base
<1>3. Backlog' = Append(Backlog, a)
  <2>1. actions \in Seq(Action) /\ cur \in Action
    BY DEF IInv, TypeOK
  <2> QED
    BY <2>1 DEF Backlog
<1>4. Ends(Base', Backlog', After(CarriedOut, a))
  BY <1>1, <1>2, <1>3, EndsAppend
<1> QED
  BY <1>4, CarriedNext DEF IInv

(* A step that carries out the oldest action.                              *)
LEMMA TakeCourse ==
    ASSUME IInv, IInv', Backlog # <<>>, Base' = After(Base, Backlog[1]),
           Backlog' = Tail(Backlog)
    PROVE  CarriedOut' = CarriedOut
<1>1. Backlog \in Seq(Action) /\ Ends(Base, Backlog, CarriedOut)
  BY CarriedEnds DEF IInv
<1>2. /\ Tail(Backlog) \in Seq(Action) /\ Len(Backlog) = Len(Tail(Backlog)) + 1
      /\ \A k \in 1 .. Len(Tail(Backlog)) : Backlog[k + 1] = Tail(Backlog)[k]
  BY <1>1, Take
<1>3. Ends(After(Base, Backlog[1]), Tail(Backlog), CarriedOut)
  BY <1>1, <1>2, EndsTake
<1>4. Ends(Base', Backlog', CarriedOut)
  BY <1>3
<1> QED
  BY <1>4, CarriedNext DEF IInv

(* What the message thread does leaves the registers ahead of it.          *)
LEMMA PopCourse ==
    ASSUME IInv, IInv', Pop
    PROVE  CarriedOut' = CarriedOut /\ (proc' = "handle" => cur'.type # "BROADCAST")
<1>1. proc = "check" /\ UNCHANGED <<connections, sent>>
  BY DEF Pop
<1>2. CASE actions = <<>>
  BY <1>1, <1>2, QuietCourse DEF Pop
<1>3. CASE actions # <<>>
  <2>1. /\ actions \in Seq(Action) /\ Head(actions) = actions[1] /\ Head(actions) \in Action
        /\ Tail(actions) \in Seq(Action)
    BY <1>3, Take DEF IInv, TypeOK
  <2>2. /\ actions' = Tail(actions) /\ cur' = Head(actions)
        /\ IF cur'.type = "BROADCAST" THEN proc' = "broadcast" /\ todo' = connections
           ELSE proc' = "handle" /\ UNCHANGED todo
    BY <1>3 DEF Pop
  <2>3. Backlog = actions
    BY <1>1, <2>1 DEF Backlog
  <2>4. CASE cur'.type = "BROADCAST"
    <3>1. Backlog' = Tail(actions)
      BY <2>1, <2>2, <2>4 DEF Backlog
    <3>2. Base' = After(Base, actions[1])
      <4>1. /\ Base \in Registers /\ Base.subs = connections
            /\ Base.log = [c \in Conns |-> sent[c]]
        BY <1>1, BaseTypes DEF Base, IInv
      <4>2. /\ Base'.subs = connections
            /\ Base'.log = [c \in Conns |-> IF c \in connections THEN Append(sent[c], cur'.n)
                                            ELSE sent[c]]
            /\ Base' = [subs |-> Base'.subs, log |-> Base'.log]
        BY <1>1, <2>2, <2>4 DEF Base
      <4>3. After(Base, actions[1]) \in Registers
        BY <2>1, <4>1, AfterTypes
      <4>4. After(Base, actions[1]) = [subs |-> After(Base, actions[1]).subs,
                                       log |-> After(Base, actions[1]).log]
        BY <4>3 DEF Registers
      <4>5. /\ After(Base, actions[1]).subs = Base.subs
            /\ After(Base, actions[1]).log =
                   [c \in Conns |-> IF c \in Base.subs THEN Append(Base.log[c], cur'.n)
                                    ELSE Base.log[c]]
        BY <2>1, <2>2, <2>4, <4>1, AfterResult
      <4>6. After(Base, actions[1]).log = Base'.log
        BY <4>1, <4>2, <4>5
      <4> QED
        BY <4>1, <4>2, <4>4, <4>5, <4>6
    <3>3. Backlog # <<>>
      BY <1>3, <2>3
    <3> QED
      BY <2>2, <2>3, <2>4, <3>1, <3>2, <3>3, TakeCourse
  <2>5. CASE cur'.type # "BROADCAST"
    <3>1. Backlog' = actions
      BY <1>3, <2>1, <2>2, <2>5 DEF Backlog
    <3>2. Base' = Base
      BY <1>1, <2>2, <2>5 DEF Base
    <3> QED
      BY <2>3, <2>5, <3>1, <3>2, SameCourse
  <2> QED
    BY <2>4, <2>5
<1> QED
  BY <1>2, <1>3

LEMMA HandleCourse ==
    ASSUME IInv, IInv', Handle, cur.type # "BROADCAST"
    PROVE  CarriedOut' = CarriedOut
<1>1. /\ proc = "handle" /\ proc' \in {"check", "done"}
      /\ UNCHANGED <<actions, cur, sent, todo>>
  BY DEF Handle
<1>2. actions \in Seq(Action) /\ cur \in Action
  BY DEF IInv, TypeOK
<1>3. Backlog = <<cur>> \o actions /\ Backlog' = actions
  BY <1>1, <1>2 DEF Backlog
<1>4. Backlog # <<>> /\ Backlog[1] = cur /\ Tail(Backlog) = actions
  BY <1>2, <1>3
<1>5. Base = [subs |-> connections, log |-> [c \in Conns |-> sent[c]]]
  BY <1>1 DEF Base
<1>6. Base' = [subs |-> connections', log |-> [c \in Conns |-> sent[c]]]
  BY <1>1 DEF Base
<1>7. Base' = After(Base, cur)
  <2>1. CASE cur.type = "SUBSCRIBE"
    BY <1>5, <1>6, <2>1 DEF After, Handle
  <2>2. CASE cur.type = "UNSUBSCRIBE"
    BY <1>5, <1>6, <2>2 DEF After, Handle
  <2>3. CASE cur.type \notin {"SUBSCRIBE", "UNSUBSCRIBE"}
    BY <1>5, <1>6, <2>3 DEF After, Handle
  <2> QED
    BY <2>1, <2>2, <2>3
<1> QED
  BY <1>3, <1>4, <1>7, TakeCourse

LEMMA BroadcastCourse ==
    ASSUME IInv, IInv', Broadcast
    PROVE  CarriedOut' = CarriedOut /\ proc' # "handle"
<1>1. proc = "broadcast" /\ UNCHANGED <<actions, connections, cur>>
  BY DEF Broadcast
<1>2. Backlog' = Backlog /\ proc' # "handle"
  BY <1>1 DEF Broadcast, Backlog
<1>3. Base' = Base
  <2>1. CASE todo = {}
    <3>1. proc' = "check" /\ UNCHANGED sent
      BY <2>1 DEF Broadcast
    <3> QED
      BY <1>1, <2>1, <3>1 DEF Base
  <2>2. CASE UNCHANGED <<proc, todo, sent>>
    BY <1>1, <2>2 DEF Base
  <2>3. ASSUME NEW d \in todo, sent' = [sent EXCEPT ![d] = Append(@, cur.n)],
               todo' = todo \ {d}, UNCHANGED proc
        PROVE  Base' = Base
    <3>1. DOMAIN sent = Conns
      BY DEF IInv, TypeOK
    <3>2. \A c \in Conns : (IF c \in todo' THEN Append(sent'[c], cur.n) ELSE sent'[c]) =
                           (IF c \in todo THEN Append(sent[c], cur.n) ELSE sent[c])
      BY <2>3, <3>1
    <3> QED
      BY <1>1, <2>3, <3>2 DEF Base
  <2> QED
    BY <2>1, <2>2, <2>3 DEF Broadcast
<1> QED
  BY <1>2, <1>3, SameCourse

----------------------------------------------------------------------------
(* Every step is a step of PubSub or leaves it alone, and keeps RefInv.    *)

LEMMA InitRef == Init => RefInv /\ PS!Init
<1> SUFFICES ASSUME Init PROVE RefInv /\ PS!Init
  OBVIOUS
<1>1. IInv
  BY InitInv
<1>2. Backlog = <<>>
  BY DEF Init, Backlog
<1>3. CarriedOut = Base
  <2>1. Ends(Base, <<>>, CarriedOut)
    BY <1>1, <1>2, CarriedEnds DEF IInv
  <2>2. PICK g : Course(g, Base, <<>>, Len(<<>>)) /\ CarriedOut = g[Len(<<>>)]
    BY <2>1 DEF Ends
  <2>3. Len(<<>>) = 0 /\ 0 \in Nat
    OBVIOUS
  <2> QED
    BY <2>2, <2>3, CourseSteps
<1>4. CarriedOut = [subs |-> {}, log |-> [c \in Conns |-> <<>>]]
  BY <1>3 DEF Init, Base
<1>5. CarriedOut \in Registers
  BY <1>1, <1>3, BaseTypes DEF IInv
<1> QED
  BY <1>1, <1>4, <1>5 DEF Init, RefInv, KnownAhead, PS!Init

LEMMA CommitRef ==
    ASSUME RefInv, IInv', Commit
    PROVE  RefInv' /\ PS!Publish
<1> DEFINE a == [type |-> "BROADCAST", n |-> commits']
<1>1. /\ commits' = commits + 1 /\ commits' \in 1 .. MaxCommits
      /\ actions' = Append(actions, a)
      /\ UNCHANGED <<proc, connections, cur, sent, todo, conn>>
  BY BoundsAssumption DEF Commit, RefInv, IInv, TypeOK
<1>2. a \in Action /\ a.type = "BROADCAST" /\ a.n = commits'
  BY <1>1, ActionFacts
<1>3. CarriedOut' = After(CarriedOut, a)
  BY <1>1, <1>2, PushCourse DEF RefInv
<1>4. CarriedOut \in Registers /\ After(CarriedOut, a) \in Registers
  BY <1>2, AfterTypes DEF RefInv, KnownAhead
<1> HIDE DEF a
<1>5. /\ CarriedOut'.subs = CarriedOut.subs
      /\ CarriedOut'.log = [c \in Conns |-> IF c \in CarriedOut.subs
                                            THEN Append(CarriedOut.log[c], commits')
                                            ELSE CarriedOut.log[c]]
  BY <1>2, <1>3, <1>4, AfterResult
<1>6. \A c \in Conns : conn[c] = "away" => CarriedOut'.log[c] = <<>>
  BY <1>5 DEF RefInv, KnownAhead
<1>7. KnownAhead'
  BY <1>1, <1>3, <1>4, <1>5, <1>6 DEF RefInv, KnownAhead
<1>8. PS!Publish
  BY <1>1, <1>5 DEF PS!Publish
<1> QED
  BY <1>1, <1>7, <1>8 DEF RefInv

LEMMA OpenRef ==
    ASSUME RefInv, IInv', NEW c \in Conns, on_open(c)
    PROVE  RefInv' /\ PS!Subscribe(c)
<1>1. /\ conn[c] = "away" /\ conn' = [conn EXCEPT ![c] = "open"]
      /\ actions' = Append(actions, Sub(c))
      /\ UNCHANGED <<proc, connections, cur, sent, todo, commits>>
  BY DEF on_open, Handler, Sub
<1>2. Sub(c) \in Action /\ DOMAIN conn = Conns
  BY ActionFacts DEF Sub, RefInv, IInv, TypeOK
<1>3. CarriedOut' = After(CarriedOut, Sub(c))
  BY <1>1, <1>2, PushCourse DEF RefInv
<1>4. CarriedOut \in Registers /\ After(CarriedOut, Sub(c)) \in Registers
  BY <1>2, AfterTypes DEF RefInv, KnownAhead
<1>5. CarriedOut'.subs = CarriedOut.subs \cup {c} /\ CarriedOut'.log = CarriedOut.log
  BY <1>3, <1>4, AfterSub
<1>6. \A d \in Conns : conn'[d] = IF d = c THEN "open" ELSE conn[d]
  BY <1>1, <1>2
<1>7. KnownAhead'
  BY <1>3, <1>4, <1>5, <1>6 DEF RefInv, KnownAhead
<1>8. PS!Subscribe(c)
  BY <1>1, <1>5 DEF PS!Subscribe, RefInv, KnownAhead
<1> QED
  BY <1>1, <1>7, <1>8 DEF RefInv

LEMMA CloseRef ==
    ASSUME RefInv, IInv', NEW c \in Conns, on_close(c)
    PROVE  RefInv' /\ PS!Unsubscribe(c)
<1>1. /\ conn[c] = "closing" /\ conn' = [conn EXCEPT ![c] = "closed"]
      /\ actions' = Append(actions, Unsub(c))
      /\ UNCHANGED <<proc, connections, cur, sent, todo, commits>>
  BY DEF on_close, Handler, Unsub
<1>2. Unsub(c) \in Action /\ DOMAIN conn = Conns
  BY ActionFacts DEF Unsub, RefInv, IInv, TypeOK
<1>3. CarriedOut' = After(CarriedOut, Unsub(c))
  BY <1>1, <1>2, PushCourse DEF RefInv
<1>4. CarriedOut \in Registers /\ After(CarriedOut, Unsub(c)) \in Registers
  BY <1>2, AfterTypes DEF RefInv, KnownAhead
<1>5. CarriedOut'.subs = CarriedOut.subs \ {c} /\ CarriedOut'.log = CarriedOut.log
  BY <1>3, <1>4, AfterSub
<1>6. \A d \in Conns : conn'[d] = IF d = c THEN "closed" ELSE conn[d]
  BY <1>1, <1>2
<1>7. KnownAhead'
  BY <1>3, <1>4, <1>5, <1>6 DEF RefInv, KnownAhead
<1>8. PS!Unsubscribe(c)
  BY <1>1, <1>5 DEF PS!Unsubscribe, RefInv, KnownAhead
<1> QED
  BY <1>1, <1>7, <1>8 DEF RefInv

(* A message of a viewer, or the end of the session, changes nothing that  *)
(* a viewer is sent.                                                       *)
LEMMA OtherRef ==
    ASSUME RefInv, IInv', NEW a \in Action,
           a.type \notin {"SUBSCRIBE", "UNSUBSCRIBE", "BROADCAST"},
           actions' = Append(actions, a),
           UNCHANGED <<proc, connections, cur, sent, todo, conn>>
    PROVE  RefInv' /\ CarriedOut' = CarriedOut
<1>1. CarriedOut' = After(CarriedOut, a)
  BY PushCourse DEF RefInv
<1>2. CarriedOut' = CarriedOut
  BY <1>1, AfterOther DEF RefInv, KnownAhead
<1> QED
  BY <1>2 DEF RefInv, KnownAhead

LEMMA ClosingRef ==
    ASSUME RefInv, IInv', NEW c \in Conns, Closing(c)
    PROVE  RefInv' /\ UNCHANGED <<CarriedOut, commits>>
<1>1. /\ conn[c] = "open" /\ conn' = [conn EXCEPT ![c] = "closing"]
      /\ UNCHANGED <<proc, actions, connections, cur, sent, todo, commits>>
  BY DEF Closing
<1>2. CarriedOut' = CarriedOut
  BY <1>1, QuietCourse DEF RefInv
<1>3. \A d \in Conns : conn'[d] = IF d = c THEN "closing" ELSE conn[d]
  BY <1>1 DEF RefInv, IInv, TypeOK
<1> QED
  BY <1>1, <1>2, <1>3 DEF RefInv, KnownAhead

LEMMA RefStep ==
    ASSUME RefInv, [Next]_vars
    PROVE  RefInv' /\ [PS!Next]_<<CarriedOut.subs, CarriedOut.log, commits>>
<1>1. IInv'
  BY InvStep DEF RefInv
<1>2. ASSUME UNCHANGED <<CarriedOut, conn, commits>>, proc' = "handle" => cur'.type # "BROADCAST"
      PROVE  RefInv' /\ [PS!Next]_<<CarriedOut.subs, CarriedOut.log, commits>>
  BY <1>1, <1>2 DEF RefInv, KnownAhead
<1>3. CASE Commit
  BY <1>1, <1>3, CommitRef DEF PS!Next
<1>4. CASE Stop
  BY <1>1, <1>4, OtherRef, ActionFacts DEF Stop
<1>5. ASSUME NEW c \in Conns, on_open(c) \/ on_close(c)
      PROVE  RefInv' /\ [PS!Next]_<<CarriedOut.subs, CarriedOut.log, commits>>
  BY <1>1, <1>5, OpenRef, CloseRef DEF PS!Next
<1>6. ASSUME NEW c \in Conns, on_message(c)
      PROVE  RefInv' /\ [PS!Next]_<<CarriedOut.subs, CarriedOut.log, commits>>
  <2> DEFINE a == [type |-> "MESSAGE", c |-> c]
  <2>1. a \in Action /\ a.type = "MESSAGE"
    BY ActionFacts
  <2>2. actions' = Append(actions, a) /\ UNCHANGED <<proc, connections, cur, sent, todo, conn, commits>>
    BY <1>6 DEF on_message, Handler
  <2> HIDE DEF a
  <2>3. RefInv' /\ CarriedOut' = CarriedOut
    BY <1>1, <2>1, <2>2, OtherRef
  <2> QED
    BY <2>2, <2>3
<1>7. ASSUME NEW c \in Conns, Closing(c)
      PROVE  RefInv' /\ [PS!Next]_<<CarriedOut.subs, CarriedOut.log, commits>>
  BY <1>1, <1>7, ClosingRef
<1>8. CASE Pop
  <2>1. UNCHANGED <<conn, commits>>
    BY <1>8 DEF Pop
  <2> QED
    BY <1>1, <1>2, <1>8, <2>1, PopCourse DEF RefInv
<1>9. CASE Handle
  <2>1. UNCHANGED <<conn, commits>> /\ proc = "handle" /\ proc' # "handle"
    BY <1>9 DEF Handle
  <2> QED
    BY <1>1, <1>2, <1>9, <2>1, HandleCourse DEF RefInv
<1>10. CASE Broadcast
  <2>1. UNCHANGED <<conn, commits>>
    BY <1>10 DEF Broadcast
  <2> QED
    BY <1>1, <1>2, <1>10, <2>1, BroadcastCourse DEF RefInv
<1>11. CASE Start \/ AppStep \/ SrvStep \/ SpuriousWakeup \/ UNCHANGED vars
  <2>1. /\ UNCHANGED <<actions, connections, cur, sent, todo, conn, commits>>
        /\ proc' = "handle" <=> proc = "handle"
        /\ proc' = "broadcast" <=> proc = "broadcast"
    BY <1>11 DEF Start, AppStep, CommitNotify, StopNotify, JoinProc, WssStop, JoinSrv, SrvStep,
       InitAsio, Listen, RunReturns, HandlerNotify, SpuriousWakeup, NotifyOne, vars,
       RefInv, IInv, ThreadInv
  <2> QED
    BY <1>1, <1>2, <2>1, QuietCourse DEF RefInv
<1> QED
  BY <1>3, <1>4, <1>5, <1>6, <1>7, <1>8, <1>9, <1>10, <1>11 DEF Next, ProcStep

(* The queue, the two threads and their wake-ups implement PubSub: in any  *)
(* interleaving, with any number of viewers, commits and sessions, a       *)
(* viewer is to be sent exactly the results that are committed between the *)
(* call of its open handler and the call of its close handler.             *)
THEOREM Refinement == Spec => ImplementsPubSub
<1>1. Init /\ [][Next]_vars =>
          PS!Init /\ [][PS!Next]_<<CarriedOut.subs, CarriedOut.log, commits>>
  BY InitRef, RefStep, PTL
<1>2. Spec => Init /\ [][Next]_vars
  BY PTL DEF Spec
<1> QED
  BY <1>1, <1>2 DEF ImplementsPubSub
=============================================================================
