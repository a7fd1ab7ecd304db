--------------------- MODULE NotificationConsumerProofs ---------------------
(***************************************************************************)
(* Proofs about NotificationConsumer for every set of events, processes    *)
(* and messages, any prefetch limit and number of attempts: its types,     *)
(* that an event has its effect once, that no message is dropped, that     *)
(* outages earn no dead letter, and when a paused consumer consumes.       *)
(***************************************************************************)
EXTENDS NotificationConsumer, FiniteSetTheorems, TLAPS

-----------------------------------------------------------------------------
(* Types of the messages and of the rest.                                  *)

Placed(x) == /\ x.place = "unacked" <=> x.holder # None
             /\ x.place = "unacked" <=> x.stage # "none"

MessageTypes ==
    /\ msg \in [Slot -> Message]
    /\ \A m \in Slot : /\ Placed(msg[m])
                       /\ msg[m].holder # None => channel[msg[m].holder] # "closed"

ConsumerTypes ==
    /\ channel \in [Process -> {"closed", "open", "consuming"}]
    /\ paused \in [Process -> {"no", "cancelling", "yes"}]
    /\ timer \in [Process -> {"none", "live", "stale"}]

BrokerTypes == bound \in {"yes", "no"} /\ taken \subseteq Event /\ db \in {"up", "down"}

TableTypes ==
    /\ ledger \subseteq Event
    /\ notes \in [Event -> Nat]
    /\ finished \subseteq Event
    /\ late \in [Event -> Nat]

BudgetTypes ==
    /\ published \in Nat /\ outages \in Nat /\ faults \in Nat
    /\ redrives \in Nat /\ sweeps \in Nat

LEMMA TypeParts ==
    TypeOK <=> /\ MessageTypes /\ ConsumerTypes /\ BrokerTypes
               /\ TableTypes /\ BudgetTypes
BY DEF TypeOK, MessageTypes, Placed, ConsumerTypes, BrokerTypes, TableTypes, BudgetTypes

-----------------------------------------------------------------------------
(* What one step does to one message.                                      *)

\* It stays as it is, and its consumer's channel is not closed;
Stays(n) == msg'[n] = msg[n] /\ (msg[n].holder # None => channel'[msg[n].holder] # "closed")

\* its slot is taken by a new message, or by the copy of one;
Enters(n) ==
    /\ msg[n].place = "free"
    /\ \/ \E e \in Event : msg'[n] = InMain([Free EXCEPT !.event = e])
       \/ \E m \in Slot : msg[m].place = "dlq" /\ msg'[n] = InMain(msg[m])
       \/ \E m \in Slot : msg[m].stage = "discard" /\ msg'[n] = InDlq(msg[m])

\* it goes back to the main queue, as it was or when the retry queue lets it go;
Returns(n) == msg[n].place # "free" /\ msg'[n] = InMain(msg[n])
Expires(n) == msg[n].place = "retry" /\ msg'[n] = InMain([msg[n] EXCEPT !.deaths = @ + 1])

\* it is delivered;
Arrives(n) ==
    /\ msg[n].place = "main"
    /\ \E p \in Process :
          /\ channel'[p] # "closed"
          /\ msg'[n] = [msg[n] EXCEPT !.place = "unacked", !.holder = p,
                          !.stage = IF Kind[msg[n].event] = "malformed" THEN "handoff" ELSE "check"]

\* its handler goes on;
Advances(n) ==
    /\ msg[n].place = "unacked" /\ UNCHANGED channel
    /\ \E stage \in {"store", "ack", "discard", "left"} :
          /\ msg'[n] = [msg[n] EXCEPT !.stage = stage]
          /\ stage = "ack" /\ Kind[msg[n].event] = "plain" => msg[n].event \in ledger'
          /\ stage = "discard" => msg[n].stage = "handoff"

\* or ends, for good, with a failure, or with a dead letter.
IsAcked(n) ==
    /\ msg[n].place = "unacked" /\ msg[n].stage = "ack"
    /\ msg'[n] = Free /\ msg[n].event \in finished'
Fails(n) == msg[n].place = "unacked" /\ UNCHANGED channel /\ msg'[n] = Rejected(msg[n])
IsBuried(n) == msg[n].stage = "discard" /\ msg'[n] = InDlq(msg[n])

Moves(n) == \/ Stays(n) \/ Enters(n) \/ Returns(n) \/ Expires(n) \/ Arrives(n)
            \/ Advances(n) \/ IsAcked(n) \/ Fails(n) \/ IsBuried(n)

\* A step that rewrites one message leaves the others as they are.
LEMMA OneMoves ==
    ASSUME MessageTypes, NEW m \in Slot, NEW x, msg' = [msg EXCEPT ![m] = x], UNCHANGED channel
    PROVE  msg'[m] = x /\ \A n \in Slot : n = m \/ Stays(n)
BY DEF MessageTypes, Stays

LEMMA AloneMoves ==
    ASSUME MessageTypes, NEW m \in Slot, NEW x, msg' = [msg EXCEPT ![m] = x], UNCHANGED channel,
           msg'[m] = x => Moves(m)
    PROVE  \A n \in Slot : Moves(n)
BY OneMoves DEF Moves

\* A channel that closes returns what it held, and buries copies in free slots.
LEMMA LostMoves ==
    ASSUME MessageTypes, NEW p \in Process, LoseChannel(p),
           \A q \in Process : q # p => channel'[q] = channel[q]
    PROVE  \A n \in Slot : Stays(n) \/ Enters(n) \/ Returns(n)
<1> SUFFICES ASSUME NEW n \in Slot PROVE Stays(n) \/ Enters(n) \/ Returns(n)
  OBVIOUS
<1>1. PICK copy \in [Copied(p) -> {m \in Slot : msg[m].place = "free"}] :
        msg' = [k \in Slot |-> IF \E m \in Copied(p) : copy[m] = k
                               THEN InDlq(msg[CHOOSE m \in Copied(p) : copy[m] = k])
                               ELSE Requeued(p)[k]]
  BY DEF LoseChannel
<1>2. CASE \E m \in Copied(p) : copy[m] = n
  <2>1. PICK m \in Copied(p) : m = (CHOOSE k \in Copied(p) : copy[k] = n) /\ copy[m] = n
    BY <1>2
  <2>2. msg'[n] = InDlq(msg[m])
    BY <1>1, <1>2, <2>1
  <2>3. msg[n].place = "free" /\ m \in Slot /\ msg[m].stage = "discard"
    BY <2>1 DEF Copied, Unacked
  <2> QED
    BY <2>2, <2>3 DEF Enters
<1>3. CASE ~\E m \in Copied(p) : copy[m] = n
  <2>1. msg'[n] = IF msg[n].holder = p THEN InMain(msg[n]) ELSE msg[n]
    BY <1>1, <1>3 DEF Requeued
  <2>2. msg[n].holder # None => msg[n].place = "unacked" /\ msg[n].holder \in Process
                                /\ channel[msg[n].holder] # "closed"
    BY DEF MessageTypes, Placed, Message
  <2> QED
    BY <2>1, <2>2, ConsumerNoneAssumption DEF Stays, Returns
<1> QED
  BY <1>2, <1>3

LEMMA EveryMessageMoves ==
    ASSUME MessageTypes, ConsumerTypes, [Next]_vars
    PROVE  \A n \in Slot : Moves(n)
<1>1. ASSUME UNCHANGED msg,
             \A p \in Process : channel[p] # "closed" => channel'[p] # "closed"
      PROVE  \A n \in Slot : Moves(n)
  <2>1. \A n \in Slot : msg[n].holder \in Process \cup {None}
    BY DEF MessageTypes, Message
  <2> QED
    BY <1>1, <2>1 DEF MessageTypes, Moves, Stays
<1>2. ASSUME NEW m \in Slot, Handle(m) PROVE \A n \in Slot : Moves(n)
  <2>1. CASE RetryExpires(m)
    BY <2>1, AloneMoves DEF RetryExpires, consumer, Moves, Expires, MessageTypes
  <2>2. CASE Check(m)
    <3> DEFINE stage == IF msg[m].event \in ledger \/ Kind[msg[m].event] = "skip"
                        THEN "ack" ELSE "store"
    <3>1. msg' = [msg EXCEPT ![m] = [msg[m] EXCEPT !.stage = stage]] /\ UNCHANGED channel
      BY <2>2 DEF Check, Goto, consumer, MessageTypes
    <3>2. msg'[m] = [msg[m] EXCEPT !.stage = stage] => Advances(m)
      BY <2>2 DEF Check, At, Advances, consumer, tables
    <3> QED
      BY <3>1, <3>2, AloneMoves DEF Moves
  <2>3. CASE Store(m)
    <3>1. msg' = [msg EXCEPT ![m] = [msg[m] EXCEPT !.stage = "ack"]] /\ UNCHANGED channel
      BY <2>3 DEF Store, Goto, consumer, MessageTypes
    <3>2. msg[m].event \in ledger'
      BY <2>3 DEF Store, Enqueue, tables
    <3>3. msg'[m] = [msg[m] EXCEPT !.stage = "ack"] => Advances(m)
      BY <2>3, <3>2 DEF Store, At, Advances, consumer
    <3> QED
      BY <3>1, <3>3, AloneMoves DEF Moves
  <2>4. CASE Ack(m)
    BY <2>4, AloneMoves DEF Ack, At, consumer, Moves, IsAcked
  <2>5. CASE ProcessFails(m)
    <3>1. msg' = [msg EXCEPT ![m] = Rejected(msg[m])] /\ UNCHANGED channel
      BY <2>5 DEF ProcessFails, consumer, MessageTypes
    <3> QED
      BY <2>5, <3>1, AloneMoves DEF ProcessFails, At, consumer, Moves, Fails
  <2>6. CASE PauseForInfra(m)
    <3>1. msg' = [msg EXCEPT ![m] = InMain(msg[m])] /\ UNCHANGED channel
      BY <2>6 DEF PauseForInfra, MessageTypes
    <3>2. msg[m].place # "free"
      BY <2>6 DEF PauseForInfra, MessageTypes, Placed
    <3> QED
      BY <3>1, <3>2, AloneMoves DEF Moves, Returns
  <2>7. CASE Handoff(m)
    <3>1. msg' = [msg EXCEPT ![m] = [msg[m] EXCEPT !.stage = "discard"]] /\ UNCHANGED channel
      BY <2>7 DEF Handoff, Goto, consumer, MessageTypes
    <3> QED
      BY <2>7, <3>1, AloneMoves DEF Handoff, At, consumer, Moves, Advances
  <2>8. CASE Discard(m)
    <3>1. msg' = [msg EXCEPT ![m] = InDlq(msg[m])] /\ UNCHANGED channel
      BY <2>8 DEF Discard, consumer, MessageTypes
    <3> QED
      BY <2>8, <3>1, AloneMoves DEF Discard, At, Moves, IsBuried
  <2> QED
    BY <1>2, <2>1, <2>2, <2>3, <2>4, <2>5, <2>6, <2>7, <2>8 DEF Handle
<1>3. ASSUME NEW m \in Slot, HandoffRefused(m) PROVE \A n \in Slot : Moves(n)
  <2>1. msg' = [msg EXCEPT ![m] = [msg[m] EXCEPT !.stage = "left"]] /\ UNCHANGED channel
    BY <1>3 DEF HandoffRefused, Goto, consumer, MessageTypes
  <2> QED
    BY <1>3, <2>1, AloneMoves DEF HandoffRefused, At, consumer, Moves, Advances
<1>4. ASSUME NEW m \in Slot, RedriveDlq(m) PROVE \A n \in Slot : Moves(n)
  <2>1. msg' = [msg EXCEPT ![m] = InMain(msg[m])] /\ UNCHANGED channel
    BY <1>4 DEF RedriveDlq, consumer, MessageTypes
  <2> QED
    BY <1>4, <2>1, AloneMoves DEF RedriveDlq, Moves, Returns
<1>5. ASSUME NEW m \in Slot, RedriveUnacked(m) PROVE \A n \in Slot : Moves(n)
  <2>1. PICK k \in Slot : msg[k].place = "free" /\ msg' = [msg EXCEPT ![k] = InMain(msg[m])]
    BY <1>5 DEF RedriveUnacked
  <2> QED
    BY <1>5, <2>1, AloneMoves DEF RedriveUnacked, consumer, Moves, Enters
<1>6. ASSUME NEW p \in Process, NEW m \in Slot, Deliver(p, m) PROVE \A n \in Slot : Moves(n)
  <2> DEFINE x == [msg[m] EXCEPT !.place = "unacked", !.holder = p,
                     !.stage = IF Kind[msg[m].event] = "malformed" THEN "handoff" ELSE "check"]
  <2>1. msg' = [msg EXCEPT ![m] = x] /\ UNCHANGED channel
    BY <1>6 DEF Deliver, consumer, MessageTypes, Message
  <2>2. msg'[m] = x => Arrives(m)
    BY <1>6, <2>1 DEF Deliver, Arrives
  <2> QED
    BY <2>1, <2>2, AloneMoves DEF Moves
<1>7. ASSUME NEW e \in Event, Publish(e) PROVE \A n \in Slot : Moves(n)
  <2>1. CASE UNCHANGED msg
    BY <1>1, <1>7, <2>1 DEF Publish, consumer
  <2>2. CASE \E m \in Slot : /\ msg[m].place = "free"
                             /\ msg' = [msg EXCEPT ![m] = InMain([Free EXCEPT !.event = e])]
    BY <1>7, <2>2, AloneMoves DEF Publish, consumer, Moves, Enters
  <2> QED
    BY <1>7, <2>1, <2>2 DEF Publish
<1>8. ASSUME NEW p \in Process, ChannelCloses(p) \/ Crash(p) PROVE \A n \in Slot : Moves(n)
  <2>1. LoseChannel(p) /\ \A q \in Process : q # p => channel'[q] = channel[q]
    BY <1>8 DEF ChannelCloses, Crash, ConsumerTypes
  <2> QED
    BY <2>1, LostMoves DEF Moves
<1>9. ASSUME NEW p \in Process, Consume(p) PROVE \A n \in Slot : Moves(n)
  BY <1>1, <1>9 DEF Consume, CancelConsume, ResumeConsuming, Start, broker, ConsumerTypes
<1>10. ASSUME \/ \E e \in Event : LateStore(e) \/ LateFails(e) \/ SweepLedger(e)
              \/ DatabaseDown \/ DatabaseUp \/ UNCHANGED vars
       PROVE  \A n \in Slot : Moves(n)
  BY <1>1, <1>10 DEF LateStore, LateFails, SweepLedger, DatabaseDown, DatabaseUp, vars, broker,
     consumer
<1> QED
  BY <1>2, <1>3, <1>4, <1>5, <1>6, <1>7, <1>8, <1>9, <1>10 DEF Next

-----------------------------------------------------------------------------
(* The types are kept.                                                     *)

LEMMA MessageForms ==
    ASSUME NEW x \in Message
    PROVE  /\ InMain(x) \in Message /\ Placed(InMain(x))
           /\ InDlq(x) \in Message /\ Placed(InDlq(x))
           /\ InMain([x EXCEPT !.deaths = @ + 1]) \in Message
           /\ Placed(InMain([x EXCEPT !.deaths = @ + 1]))
           /\ InMain(x).holder = None /\ InDlq(x).holder = None
<1>1. ASSUME NEW y \in Message
      PROVE  InMain(y) \in Message /\ Placed(InMain(y)) /\ InMain(y).holder = None
  <2>1. InMain(y) \in Message
    BY DEF Message, InMain, Places, Stages
  <2>2. InMain(y).place = "main" /\ InMain(y).holder = None /\ InMain(y).stage = "none"
    BY DEF Message, InMain
  <2> QED
    BY <2>1, <2>2 DEF Placed
<1>2. InDlq(x) \in Message
  BY DEF Message, InDlq, Places, Stages
<1>3. InDlq(x).place = "dlq" /\ InDlq(x).holder = None /\ InDlq(x).stage = "none"
  BY DEF Message, InDlq
<1>4. [x EXCEPT !.deaths = @ + 1] \in Message
  BY DEF Message
<1> QED
  BY <1>1, <1>2, <1>3, <1>4 DEF Placed

LEMMA NewForms ==
    /\ Free \in Message /\ Placed(Free) /\ Free.holder = None
    /\ \A e \in Event : [Free EXCEPT !.event = e] \in Message
<1>1. Free \in Message
  BY DEF Free, Message, Places, Stages
<1>2. Free.place = "free" /\ Free.holder = None /\ Free.stage = "none"
  BY DEF Free
<1>3. \A e \in Event : [Free EXCEPT !.event = e] \in Message
  BY <1>1 DEF Message
<1> QED
  BY <1>1, <1>2, <1>3 DEF Placed

LEMMA RejectedForm ==
    ASSUME NEW x \in Message, x.place = "unacked", Placed(x)
    PROVE  /\ Rejected(x) \in Message /\ Placed(Rejected(x))
           /\ Rejected(x).holder \in {x.holder, None}
<1>1. CASE x.deaths >= MaxAttempts
  <2>1. Rejected(x) = [x EXCEPT !.stage = "handoff", !.errors = @ + 1]
    BY <1>1 DEF Rejected
  <2>2. Rejected(x) \in Message
    <3>1. x.errors + 1 \in Nat /\ "handoff" \in Stages
      BY DEF Message, Stages
    <3> QED
      BY <2>1, <3>1 DEF Message
  <2>3. /\ Rejected(x).place = "unacked" /\ Rejected(x).holder = x.holder
        /\ Rejected(x).stage = "handoff"
    BY <2>1 DEF Message
  <2> QED
    BY <2>2, <2>3 DEF Placed
<1>2. CASE ~(x.deaths >= MaxAttempts)
  <2>1. Rejected(x) = [x EXCEPT !.place = "retry", !.holder = None, !.stage = "none",
                                !.deaths = @ + 1, !.errors = @ + 1]
    BY <1>2 DEF Rejected
  <2>2. Rejected(x) \in Message
    <3>1. /\ x.errors + 1 \in Nat /\ x.deaths + 1 \in Nat
          /\ "retry" \in Places /\ "none" \in Stages
      BY DEF Message, Places, Stages
    <3> QED
      BY <2>1, <3>1 DEF Message
  <2>3. /\ Rejected(x).place = "retry" /\ Rejected(x).holder = None
        /\ Rejected(x).stage = "none"
    BY <2>1 DEF Message
  <2> QED
    BY <2>2, <2>3 DEF Placed
<1> QED
  BY <1>1, <1>2

\* Every message keeps its type, and its channel.
LEMMA MessageKept ==
    ASSUME MessageTypes, NEW n \in Slot, Moves(n)
    PROVE  /\ msg'[n] \in Message /\ Placed(msg'[n])
           /\ msg'[n].holder # None => channel'[msg'[n].holder] # "closed"
<1>1. /\ msg[n] \in Message /\ Placed(msg[n])
      /\ msg[n].holder # None => channel[msg[n].holder] # "closed"
  BY DEF MessageTypes
<1>2. CASE Stays(n)
  BY <1>1, <1>2 DEF Stays
<1>3. CASE Enters(n)
  <2>1. PICK x \in Message : msg'[n] = InMain(x) \/ msg'[n] = InDlq(x)
    BY <1>3, NewForms DEF Enters, MessageTypes
  <2> QED
    BY <2>1, MessageForms
<1>4. CASE Returns(n) \/ Expires(n) \/ IsAcked(n) \/ IsBuried(n)
  <2>1. \/ msg'[n] = InMain(msg[n]) \/ msg'[n] = InDlq(msg[n]) \/ msg'[n] = Free
        \/ \E x \in Message : msg'[n] = InMain(x)
    <3>1. [msg[n] EXCEPT !.deaths = @ + 1] \in Message
      BY <1>1 DEF Message
    <3> QED
      BY <1>4, <3>1 DEF Returns, Expires, IsAcked, IsBuried
  <2> QED
    BY <1>1, <2>1, MessageForms, NewForms
<1>5. CASE Arrives(n)
  <2>1. PICK p \in Process, stage \in {"handoff", "check"} :
          /\ channel'[p] # "closed"
          /\ msg'[n] = [msg[n] EXCEPT !.place = "unacked", !.holder = p, !.stage = stage]
    BY <1>5 DEF Arrives
  <2>2. "unacked" \in Places /\ stage \in Stages
    BY DEF Places, Stages
  <2>3. msg'[n] \in Message
    BY <1>1, <2>1, <2>2 DEF Message
  <2>4. msg'[n].place = "unacked" /\ msg'[n].holder = p /\ msg'[n].stage = stage
    BY <1>1, <2>1 DEF Message
  <2> QED
    BY <2>1, <2>3, <2>4, ConsumerNoneAssumption DEF Placed
<1>6. CASE Advances(n)
  BY <1>1, <1>6 DEF Advances, Message, Places, Stages, Placed
<1>7. CASE Fails(n)
  BY <1>1, <1>7, RejectedForm DEF Fails
<1> QED
  BY <1>2, <1>3, <1>4, <1>5, <1>6, <1>7 DEF Moves

\* The messages stay a function of the slots.
LEMMA SlotsStay ==
    ASSUME MessageTypes, [Next]_vars
    PROVE  msg' = [n \in Slot |-> msg'[n]]
<1>1. msg = [n \in Slot |-> msg[n]]
  BY DEF MessageTypes
<1>2. ASSUME NEW m \in Slot, NEW x, msg' = [msg EXCEPT ![m] = x]
      PROVE  msg' = [n \in Slot |-> msg'[n]]
  BY <1>1, <1>2
<1>3. ASSUME NEW m \in Slot, Handle(m) \/ HandoffRefused(m) \/ RedriveDlq(m) \/ RedriveUnacked(m)
      PROVE  msg' = [n \in Slot |-> msg'[n]]
  <2>1. \E k \in Slot : \E x : msg' = [msg EXCEPT ![k] = x]
    <3>1. CASE RetryExpires(m) \/ Ack(m)
      BY <3>1 DEF RetryExpires, Ack
    <3>2. CASE Check(m) \/ Store(m) \/ Handoff(m) \/ HandoffRefused(m)
      <4>1. \E stage : Goto(m, stage)
        BY <3>2 DEF Check, Store, Handoff, HandoffRefused
      <4> QED
        BY <4>1 DEF Goto
    <3>3. CASE ProcessFails(m) \/ PauseForInfra(m) \/ Discard(m) \/ RedriveDlq(m)
      BY <3>3 DEF ProcessFails, PauseForInfra, Discard, RedriveDlq
    <3>4. CASE RedriveUnacked(m)
      BY <3>4 DEF RedriveUnacked
    <3> QED
      BY <1>3, <3>1, <3>2, <3>3, <3>4 DEF Handle
  <2> QED
    BY <1>2, <2>1
<1>4. ASSUME NEW p \in Process, NEW m \in Slot, Deliver(p, m)
      PROVE  msg' = [n \in Slot |-> msg'[n]]
  BY <1>1, <1>4 DEF Deliver
<1>5. ASSUME NEW e \in Event, Publish(e) PROVE msg' = [n \in Slot |-> msg'[n]]
  BY <1>1, <1>2, <1>5 DEF Publish
<1>6. ASSUME NEW p \in Process, LoseChannel(p) PROVE msg' = [n \in Slot |-> msg'[n]]
  BY <1>6 DEF LoseChannel
<1>7. CASE UNCHANGED msg
  BY <1>1, <1>7
<1>8. ASSUME \/ \E p \in Process : Consume(p)
             \/ \E e \in Event : LateStore(e) \/ LateFails(e) \/ SweepLedger(e)
             \/ DatabaseDown \/ DatabaseUp \/ UNCHANGED vars
      PROVE  UNCHANGED msg
  BY <1>8 DEF Consume, CancelConsume, ResumeConsuming, Start, LateStore, LateFails, SweepLedger,
     DatabaseDown, DatabaseUp, vars, broker
<1> QED
  BY <1>3, <1>4, <1>5, <1>6, <1>7, <1>8 DEF Next, ChannelCloses, Crash

LEMMA MessageStep ==
    ASSUME MessageTypes, ConsumerTypes, [Next]_vars
    PROVE  MessageTypes'
BY SlotsStay, EveryMessageMoves, MessageKept DEF MessageTypes, Placed

LEMMA ConsumerStep ==
    ASSUME MessageTypes, ConsumerTypes, [Next]_vars
    PROVE  ConsumerTypes'
<1>1. ASSUME NEW m \in Slot, PauseForInfra(m) PROVE ConsumerTypes'
  BY <1>1 DEF PauseForInfra, ConsumerTypes
<1>2. ASSUME NEW p \in Process, Consume(p) \/ ChannelCloses(p) \/ Crash(p) PROVE ConsumerTypes'
  BY <1>2 DEF Consume, CancelConsume, ResumeConsuming, Start, ChannelCloses, Crash, ConsumerTypes
<1>3. CASE UNCHANGED consumer
  BY <1>3 DEF consumer, ConsumerTypes
<1> QED
  BY <1>1, <1>2, <1>3 DEF Next, Handle, RetryExpires, Check, Store, Ack, ProcessFails, Handoff,
     Discard, HandoffRefused, RedriveDlq, RedriveUnacked, Deliver, Publish, LateStore, LateFails,
     SweepLedger, DatabaseDown, DatabaseUp, vars

LEMMA BrokerStep == BrokerTypes /\ [Next]_vars => BrokerTypes'
<1> SUFFICES ASSUME BrokerTypes, [Next]_vars PROVE BrokerTypes'
  OBVIOUS
<1>1. CASE UNCHANGED <<bound, taken, db>>
  BY <1>1 DEF BrokerTypes
<1>2. ASSUME NEW e \in Event, Publish(e) PROVE BrokerTypes'
  BY <1>2 DEF Publish, BrokerTypes
<1>3. ASSUME NEW p \in Process, Start(p) PROVE BrokerTypes'
  BY <1>3 DEF Start, BrokerTypes
<1>4. CASE DatabaseDown \/ DatabaseUp
  BY <1>4 DEF DatabaseDown, DatabaseUp, broker, BrokerTypes
<1>5. ASSUME NEW m \in Slot, Handle(m) \/ HandoffRefused(m) \/ RedriveDlq(m) \/ RedriveUnacked(m)
      PROVE  UNCHANGED <<bound, taken, db>>
  BY <1>5 DEF Handle, RetryExpires, Check, Store, Ack, ProcessFails, PauseForInfra, Handoff,
     Discard, HandoffRefused, RedriveDlq, RedriveUnacked
<1>6. ASSUME NEW p \in Process,
             \/ CancelConsume(p) \/ ResumeConsuming(p) \/ ChannelCloses(p) \/ Crash(p)
             \/ \E m \in Slot : Deliver(p, m)
      PROVE  UNCHANGED <<bound, taken, db>>
  BY <1>6 DEF CancelConsume, ResumeConsuming, ChannelCloses, Crash, Deliver, broker
<1>7. ASSUME (\E e \in Event : LateStore(e) \/ LateFails(e) \/ SweepLedger(e)) \/ UNCHANGED vars
      PROVE  UNCHANGED <<bound, taken, db>>
  BY <1>7 DEF LateStore, LateFails, SweepLedger, vars, broker
<1> QED
  BY <1>1, <1>2, <1>3, <1>4, <1>5, <1>6, <1>7 DEF Next, Consume

LEMMA EnqueueTypes ==
    ASSUME ledger \subseteq Event, notes \in [Event -> Nat], NEW e \in Event, Enqueue(e)
    PROVE  ledger' \subseteq Event /\ notes' \in [Event -> Nat]
BY DEF Enqueue, tables

LEMMA TableStep ==
    ASSUME MessageTypes, DeathsCounted, TableTypes, [Next]_vars
    PROVE  TableTypes'
<1>1. CASE UNCHANGED <<tables, finished, late>>
  BY <1>1 DEF TableTypes, tables
<1>2. ASSUME NEW m \in Slot, Store(m) PROVE TableTypes'
  <2>1. msg[m].event \in Event
    BY <1>2 DEF Store, At, DeathsCounted
  <2> QED
    BY <1>2, <2>1, EnqueueTypes DEF Store, TableTypes
<1>3. ASSUME NEW m \in Slot, Ack(m) PROVE TableTypes'
  <2>1. msg[m].event \in Event
    BY <1>3 DEF Ack, At, DeathsCounted
  <2> QED
    BY <1>3, <2>1 DEF Ack, TableTypes, tables
<1>4. ASSUME NEW p \in Process, ChannelCloses(p) PROVE TableTypes'
  <2>1. ASSUME NEW e \in Event
        PROVE  Cardinality({m \in Unacked(p) : msg[m].event = e /\ msg[m].stage = "store"}) \in Nat
    <3>1. {m \in Unacked(p) : msg[m].event = e /\ msg[m].stage = "store"} \subseteq Slot
      BY DEF Unacked
    <3> QED
      BY <3>1, SlotAssumption, FS_Subset, FS_CardinalityType
  <2> QED
    BY <1>4, <2>1 DEF ChannelCloses, TableTypes, tables
<1>5. ASSUME NEW e \in Event, LateStore(e) PROVE TableTypes'
  <2>1. late' \in [Event -> Nat] /\ UNCHANGED finished
    BY <1>5 DEF LateStore, TableTypes
  <2> QED
    BY <1>5, <2>1, EnqueueTypes DEF LateStore, TableTypes, tables
<1>6. ASSUME NEW e \in Event, LateFails(e) \/ SweepLedger(e) PROVE TableTypes'
  BY <1>6 DEF LateFails, SweepLedger, TableTypes, tables
<1>7. ASSUME NEW m \in Slot,
             \/ RetryExpires(m) \/ Check(m) \/ ProcessFails(m) \/ PauseForInfra(m) \/ Handoff(m)
             \/ Discard(m) \/ HandoffRefused(m) \/ RedriveDlq(m) \/ RedriveUnacked(m)
             \/ \E p \in Process : Deliver(p, m)
      PROVE  UNCHANGED <<tables, finished, late>>
  BY <1>7 DEF RetryExpires, Check, ProcessFails, PauseForInfra, Handoff, Discard, HandoffRefused,
     RedriveDlq, RedriveUnacked, Deliver
<1>8. ASSUME (\E p \in Process : Consume(p) \/ Crash(p)) \/ (\E e \in Event : Publish(e))
             \/ DatabaseDown \/ DatabaseUp \/ UNCHANGED vars
      PROVE  UNCHANGED <<tables, finished, late>>
  BY <1>8 DEF Consume, CancelConsume, ResumeConsuming, Start, Crash, Publish, DatabaseDown,
     DatabaseUp, vars
<1> QED
  BY <1>1, <1>2, <1>3, <1>4, <1>5, <1>6, <1>7, <1>8 DEF Next, Handle

\* The bounds' counters count; no step but a sweep moves that of the sweeps.
LEMMA BudgetMoves ==
    ASSUME BudgetTypes, [Next]_vars
    PROVE  BudgetTypes' /\ (sweeps' = sweeps \/ \E e \in Event : SweepLedger(e))
<1>1. CASE UNCHANGED budget
  BY <1>1 DEF budget, BudgetTypes
<1>2. CASE Fault
  BY <1>2 DEF Fault, BudgetTypes
<1>3. ASSUME NEW e \in Event, Publish(e) \/ SweepLedger(e)
      PROVE  BudgetTypes' /\ (sweeps' = sweeps \/ SweepLedger(e))
  BY <1>3 DEF Publish, SweepLedger, BudgetTypes
<1>4. ASSUME NEW m \in Slot, RedriveDlq(m) PROVE BudgetTypes' /\ sweeps' = sweeps
  BY <1>4 DEF RedriveDlq, BudgetTypes
<1>5. CASE DatabaseDown
  BY <1>5 DEF DatabaseDown, BudgetTypes
<1>6. ASSUME NEW m \in Slot,
             \/ Handle(m) \/ HandoffRefused(m) \/ RedriveUnacked(m)
             \/ \E p \in Process : Deliver(p, m)
      PROVE  Fault \/ UNCHANGED budget
  BY <1>6 DEF Handle, RetryExpires, Check, Store, Ack, ProcessFails, PauseForInfra, Handoff, Discard,
     HandoffRefused, RedriveUnacked, Deliver
<1>7. ASSUME NEW p \in Process, Consume(p) \/ ChannelCloses(p) \/ Crash(p)
      PROVE  Fault \/ UNCHANGED budget
  BY <1>7 DEF Consume, CancelConsume, ResumeConsuming, Start, ChannelCloses, Crash
<1>8. ASSUME (\E e \in Event : LateStore(e) \/ LateFails(e)) \/ DatabaseUp \/ UNCHANGED vars
      PROVE  UNCHANGED budget
  BY <1>8 DEF LateStore, LateFails, DatabaseUp, vars
<1> QED
  BY <1>1, <1>2, <1>3, <1>4, <1>5, <1>6, <1>7, <1>8 DEF Next

LEMMA TypeInit == Init => TypeOK
<1> SUFFICES ASSUME Init PROVE TypeOK
  OBVIOUS
<1>1. MessageTypes
  BY NewForms DEF Init, MessageTypes
<1>2. ConsumerTypes /\ BrokerTypes /\ TableTypes /\ BudgetTypes
  BY DEF Init, ConsumerTypes, BrokerTypes, TableTypes, BudgetTypes
<1> QED
  BY <1>1, <1>2, TypeParts

LEMMA TypeStep == TypeOK /\ DeathsCounted /\ [Next]_vars => TypeOK'
<1> SUFFICES ASSUME TypeOK, DeathsCounted, [Next]_vars PROVE TypeOK'
  OBVIOUS
<1>1. MessageTypes /\ ConsumerTypes /\ BrokerTypes /\ TableTypes /\ BudgetTypes
  BY TypeParts
<1>2. MessageTypes' /\ ConsumerTypes' /\ BrokerTypes' /\ TableTypes' /\ BudgetTypes'
  BY <1>1, MessageStep, ConsumerStep, BrokerStep, TableStep, BudgetMoves
<1> QED
  BY <1>2 DEF TypeOK, MessageTypes, Placed, ConsumerTypes, BrokerTypes, TableTypes, BudgetTypes

-----------------------------------------------------------------------------
(* Deaths and errors.                                                      *)

\* A message's deaths are accounted for by its errors.
Counted(x) ==
    /\ x.place # "free" => x.event \in Event
    /\ x.deaths + (IF x.place = "retry" THEN 1 ELSE 0) <= 2 * x.errors

Earned(x) ==
    x.place = "dlq" \/ x.stage \in {"handoff", "discard"} =>
        Kind[x.event] = "malformed" \/ 2 * (x.errors - 1) >= MaxAttempts

LEMMA InOrderMeans ==
    DeathsCounted /\ DeadLettersEarnedIt <=> \A m \in Slot : Counted(msg[m]) /\ Earned(msg[m])
BY DEF DeathsCounted, DeadLettersEarnedIt, Counted, Earned

LEMMA BuriedCounted ==
    ASSUME NEW x \in Message, Placed(x), Counted(x), Earned(x), x.stage = "discard"
    PROVE  Counted(InDlq(x)) /\ Earned(InDlq(x))
<1>1. x.place = "unacked"
  BY DEF Placed
<1>2. /\ InDlq(x).place = "dlq" /\ InDlq(x).event = x.event
      /\ InDlq(x).deaths = x.deaths /\ InDlq(x).errors = x.errors
  BY DEF InDlq, Message
<1> QED
  BY <1>1, <1>2 DEF Counted, Earned

LEMMA RequeuedCounted ==
    ASSUME NEW x \in Message, Counted(x), x.place # "free"
    PROVE  Counted(InMain(x)) /\ Earned(InMain(x))
<1>1. /\ InMain(x).place = "main" /\ InMain(x).event = x.event /\ InMain(x).stage = "none"
      /\ InMain(x).deaths = x.deaths /\ InMain(x).errors = x.errors
  BY DEF InMain, Message
<1>2. x.deaths \in Nat /\ x.errors \in Nat
  BY DEF Message
<1> QED
  BY <1>1, <1>2 DEF Counted, Earned

LEMMA RejectedCounted ==
    ASSUME NEW x \in Message, Counted(x), x.place = "unacked"
    PROVE  Counted(Rejected(x)) /\ Earned(Rejected(x))
<1>1. x.deaths \in Nat /\ x.errors \in Nat /\ MaxAttempts \in Nat
  BY ConsumerLimitAssumption DEF Message
<1>2. CASE x.deaths >= MaxAttempts
  <2>1. /\ Rejected(x).place = "unacked" /\ Rejected(x).event = x.event
        /\ Rejected(x).deaths = x.deaths /\ Rejected(x).errors = x.errors + 1
    BY <1>2 DEF Rejected, Message
  <2> QED
    BY <1>1, <1>2, <2>1 DEF Counted, Earned
<1>3. CASE ~(x.deaths >= MaxAttempts)
  <2>1. /\ Rejected(x).place = "retry" /\ Rejected(x).stage = "none"
        /\ Rejected(x).event = x.event
        /\ Rejected(x).deaths = x.deaths + 1 /\ Rejected(x).errors = x.errors + 1
    BY <1>3 DEF Rejected, Message
  <2> QED
    BY <1>1, <2>1 DEF Counted, Earned
<1> QED
  BY <1>2, <1>3

LEMMA DeathStep ==
    ASSUME MessageTypes, ConsumerTypes, DeathsCounted, DeadLettersEarnedIt, [Next]_vars
    PROVE  DeathsCounted' /\ DeadLettersEarnedIt'
<1>1. \A m \in Slot : msg[m] \in Message /\ Placed(msg[m]) /\ Counted(msg[m]) /\ Earned(msg[m])
  BY InOrderMeans DEF MessageTypes
<1>2. ASSUME NEW n \in Slot, Moves(n) PROVE Counted(msg'[n]) /\ Earned(msg'[n])
  <2>1. CASE Stays(n)
    BY <1>1, <2>1 DEF Stays
  <2>2. CASE Enters(n)
    <3>1. ASSUME NEW e \in Event, msg'[n] = InMain([Free EXCEPT !.event = e])
          PROVE  Counted(msg'[n]) /\ Earned(msg'[n])
      <4>1. /\ msg'[n].event = e /\ msg'[n].place = "main" /\ msg'[n].stage = "none"
            /\ msg'[n].deaths = 0 /\ msg'[n].errors = 0
        BY <3>1 DEF Free, InMain
      <4> QED
        BY <4>1 DEF Counted, Earned
    <3>2. ASSUME NEW m \in Slot, msg[m].place = "dlq", msg'[n] = InMain(msg[m])
          PROVE  Counted(msg'[n]) /\ Earned(msg'[n])
      BY <1>1, <3>2, RequeuedCounted
    <3>3. ASSUME NEW m \in Slot, msg[m].stage = "discard", msg'[n] = InDlq(msg[m])
          PROVE  Counted(msg'[n]) /\ Earned(msg'[n])
      BY <1>1, <3>3, BuriedCounted
    <3> QED
      BY <2>2, <3>1, <3>2, <3>3 DEF Enters
  <2>3. CASE Returns(n)
    BY <1>1, <2>3, RequeuedCounted DEF Returns
  <2>4. CASE Expires(n)

    <3>1. /\ msg'[n].place = "main" /\ msg'[n].stage = "none" /\ msg'[n].event = msg[n].event
          /\ msg'[n].deaths = msg[n].deaths + 1 /\ msg'[n].errors = msg[n].errors
      BY <1>1, <2>4 DEF Expires, InMain, Message
    <3>2. msg[n].deaths + 1 <= 2 * msg[n].errors /\ msg[n].event \in Event
      BY <1>1, <2>4 DEF Expires, Counted
    <3>3. msg[n].deaths + 1 \in Nat
      BY <1>1 DEF Message

    <3> QED
      BY <3>1, <3>2, <3>3 DEF Counted, Earned
  <2>5. CASE Arrives(n)
    <3>1. /\ msg'[n].place = "unacked" /\ msg'[n].event = msg[n].event
          /\ msg'[n].deaths = msg[n].deaths /\ msg'[n].errors = msg[n].errors
          /\ msg'[n].stage = IF Kind[msg[n].event] = "malformed" THEN "handoff" ELSE "check"
      BY <1>1, <2>5 DEF Arrives, Message
    <3> QED
      BY <1>1, <2>5, <3>1 DEF Arrives, Counted, Earned
  <2>6. CASE Advances(n)
    <3>1. PICK stage \in {"store", "ack", "discard", "left"} :
            /\ msg'[n] = [msg[n] EXCEPT !.stage = stage]
            /\ stage = "discard" => msg[n].stage = "handoff"
      BY <2>6 DEF Advances
    <3>2. /\ msg'[n].place = "unacked" /\ msg'[n].event = msg[n].event /\ msg'[n].stage = stage
          /\ msg'[n].deaths = msg[n].deaths /\ msg'[n].errors = msg[n].errors
      BY <1>1, <2>6, <3>1 DEF Advances, Message
    <3> QED
      BY <1>1, <2>6, <3>1, <3>2 DEF Advances, Counted, Earned
  <2>7. CASE IsAcked(n)
    BY <2>7 DEF IsAcked, Free, Counted, Earned
  <2>8. CASE Fails(n)
    BY <1>1, <2>8, RejectedCounted DEF Fails
  <2>9. CASE IsBuried(n)
    BY <1>1, <2>9, BuriedCounted DEF IsBuried
  <2> QED
    BY <1>2, <2>1, <2>2, <2>3, <2>4, <2>5, <2>6, <2>7, <2>8, <2>9 DEF Moves
<1>3. \A n \in Slot : Counted(msg'[n]) /\ Earned(msg'[n])
  BY <1>2, EveryMessageMoves
<1> QED
  BY <1>3 DEF DeathsCounted, DeadLettersEarnedIt, Counted, Earned

-----------------------------------------------------------------------------
(* Notifications.                                                          *)

\* What one step does to the ledger row and the notifications of one event.
TableMoves(e) ==
    \/ (e \in ledger' <=> e \in ledger) /\ notes'[e] = notes[e]
    \/ e \notin ledger /\ e \in ledger' /\ notes'[e] = notes[e] + 1
    \/ e \in ledger /\ e \notin ledger' /\ notes'[e] = notes[e] /\ sweeps' = sweeps + 1

LEMMA EveryTableMoves ==
    ASSUME TableTypes, [Next]_vars
    PROVE  \A e \in Event : TableMoves(e)
<1>1. ASSUME NEW x, Enqueue(x) PROVE \A e \in Event : TableMoves(e)
  BY <1>1 DEF Enqueue, tables, TableTypes, TableMoves
<1>2. CASE UNCHANGED tables
  BY <1>2 DEF tables, TableMoves
<1>3. ASSUME NEW x \in Event, SweepLedger(x) PROVE \A e \in Event : TableMoves(e)
  BY <1>3 DEF SweepLedger, TableMoves
<1>4. ASSUME NEW m \in Slot, Handle(m) PROVE UNCHANGED tables \/ Enqueue(msg[m].event)
  BY <1>4 DEF Handle, RetryExpires, Check, Store, Ack, ProcessFails, PauseForInfra, Handoff, Discard
<1>5. ASSUME NEW e \in Event, LateStore(e) \/ LateFails(e) \/ Publish(e)
      PROVE  UNCHANGED tables \/ Enqueue(e)
  BY <1>5 DEF LateStore, LateFails, Publish
<1>6. ASSUME NEW m \in Slot,
             \/ HandoffRefused(m) \/ RedriveDlq(m) \/ RedriveUnacked(m)
             \/ \E p \in Process : Deliver(p, m)
      PROVE  UNCHANGED tables
  BY <1>6 DEF HandoffRefused, RedriveDlq, RedriveUnacked, Deliver
<1>7. ASSUME NEW p \in Process, Consume(p) \/ ChannelCloses(p) \/ Crash(p)
      PROVE  UNCHANGED tables
  BY <1>7 DEF Consume, CancelConsume, ResumeConsuming, Start, ChannelCloses, Crash
<1>8. ASSUME DatabaseDown \/ DatabaseUp \/ UNCHANGED vars PROVE UNCHANGED tables
  BY <1>8 DEF DatabaseDown, DatabaseUp, vars
<1> QED
  BY <1>1, <1>2, <1>3, <1>4, <1>5, <1>6, <1>7, <1>8 DEF Next

LEMMA NotesStep ==
    ASSUME TableTypes, BudgetTypes, NotesCounted, [Next]_vars
    PROVE  NotesCounted' /\ \A e \in Event : notes'[e] >= notes[e]
<1>1. sweeps \in Nat /\ sweeps' >= sweeps
  BY BudgetMoves DEF BudgetTypes, SweepLedger
<1>2. ASSUME NEW e \in Event
      PROVE  /\ e \in ledger' => notes'[e] >= 1
             /\ notes'[e] <= sweeps' + (IF e \in ledger' THEN 1 ELSE 0)
             /\ notes'[e] >= notes[e]
  <2>1. PICK n \in Nat : n = notes[e]
    BY DEF TableTypes
  <2>2. PICK s \in Nat : s = sweeps
    BY <1>1
  <2>3. PICK t \in Nat : t = sweeps' /\ t >= s
    BY <1>1, <2>2, BudgetMoves DEF BudgetTypes
  <2>4. (e \in ledger => n >= 1) /\ n <= s + (IF e \in ledger THEN 1 ELSE 0)
    BY <2>1, <2>2 DEF NotesCounted
  <2>5. TableMoves(e)
    BY EveryTableMoves
  <2> QED
    BY <2>1, <2>2, <2>3, <2>4, <2>5 DEF TableMoves
<1> QED
  BY <1>2 DEF NotesCounted

LEMMA AckStep ==
    ASSUME MessageTypes, ConsumerTypes, TableTypes, BudgetTypes, DeathsCounted, NotesCounted,
           AcksAreDue, [Next]_vars
    PROVE  AcksAreDue'
<1> SUFFICES ASSUME NEW n \in Slot, msg'[n].stage = "ack", Kind[msg'[n].event] = "plain"
             PROVE  notes'[msg'[n].event] >= 1
  BY DEF AcksAreDue
<1>1. msg[n] \in Message /\ Placed(msg[n]) /\ (msg[n].place = "unacked" => msg[n].event \in Event)
  BY DEF MessageTypes, DeathsCounted
<1>2. CASE Stays(n)
  <2>1. msg'[n] = msg[n] /\ msg[n].event \in Event /\ notes[msg[n].event] >= 1
    BY <1>1, <1>2 DEF Stays, AcksAreDue, Placed
  <2>2. notes'[msg[n].event] >= notes[msg[n].event] /\ notes[msg[n].event] \in Nat
        /\ notes'[msg[n].event] \in Nat
    BY <2>1, NotesStep, TableStep DEF TableTypes
  <2> QED
    BY <2>1, <2>2
<1>3. CASE Advances(n)
  <2>1. PICK stage \in {"store", "ack", "discard", "left"} :
          /\ msg'[n] = [msg[n] EXCEPT !.stage = stage]
          /\ stage = "ack" /\ Kind[msg[n].event] = "plain" => msg[n].event \in ledger'
    BY <1>3 DEF Advances
  <2>2. msg'[n].event = msg[n].event /\ msg'[n].stage = stage /\ msg[n].event \in Event
    BY <1>1, <1>3, <2>1 DEF Advances, Message
  <2> QED
    BY <2>1, <2>2, NotesStep DEF NotesCounted
<1>4. \A x \in Message : InMain(x).stage = "none" /\ InDlq(x).stage = "none"
  BY DEF InMain, InDlq, Message
<1>5. CASE Enters(n) \/ Returns(n) \/ Expires(n) \/ IsAcked(n) \/ IsBuried(n)
  <2>1. [msg[n] EXCEPT !.deaths = @ + 1] \in Message
    BY <1>1 DEF Message
  <2>2. (\E x \in Message : msg'[n] = InMain(x) \/ msg'[n] = InDlq(x)) \/ msg'[n] = Free
    <3>1. CASE Enters(n)
      BY <3>1, NewForms DEF Enters, MessageTypes
    <3> QED
      BY <1>1, <1>5, <2>1, <3>1 DEF Returns, Expires, IsAcked, IsBuried
  <2> QED
    BY <1>4, <2>2 DEF Free
<1>6. CASE Arrives(n)
  BY <1>1, <1>6 DEF Arrives, Message
<1>7. CASE Fails(n)
  <2>1. Rejected(msg[n]).stage \in {"handoff", "none"}
    BY <1>1 DEF Rejected, Message
  <2> QED
    BY <1>7, <2>1 DEF Fails
<1> QED
  BY <1>2, <1>3, <1>5, <1>6, <1>7, EveryMessageMoves DEF Moves

-----------------------------------------------------------------------------
(* No message is dropped.                                                  *)

LEMMA TakenMoves ==
    ASSUME MessageTypes, [Next]_vars
    PROVE  /\ finished \subseteq finished'
           /\ \A e \in taken' \ taken : \E m \in Slot : /\ msg'[m].event = e
                                                       /\ msg'[m].place = "main"
<1>1. CASE UNCHANGED <<taken, finished>>
  BY <1>1
<1>2. ASSUME NEW m \in Slot, Ack(m) PROVE taken' = taken /\ finished \subseteq finished'
  BY <1>2 DEF Ack
<1>3. ASSUME NEW x \in Event, Publish(x)
      PROVE  /\ finished' = finished
             /\ \A e \in taken' \ taken : \E m \in Slot : /\ msg'[m].event = e
                                                         /\ msg'[m].place = "main"
  <2>1. CASE UNCHANGED taken
    BY <1>3, <2>1 DEF Publish
  <2>2. ASSUME NEW m \in Slot, taken' = taken \cup {x},
               msg' = [msg EXCEPT ![m] = InMain([Free EXCEPT !.event = x])]
        PROVE  \A e \in taken' \ taken : \E k \in Slot : /\ msg'[k].event = e
                                                         /\ msg'[k].place = "main"
    <3>1. msg'[m] = InMain([Free EXCEPT !.event = x])
      BY <2>2 DEF MessageTypes
    <3>2. msg'[m].event = x /\ msg'[m].place = "main"
      BY <3>1 DEF InMain, Free
    <3> QED
      BY <2>2, <3>2
  <2> QED
    BY <1>3, <2>1, <2>2 DEF Publish
<1>4. ASSUME NEW m \in Slot,
             \/ RetryExpires(m) \/ Check(m) \/ Store(m) \/ ProcessFails(m) \/ PauseForInfra(m)
             \/ Handoff(m) \/ Discard(m) \/ HandoffRefused(m) \/ RedriveDlq(m)
             \/ RedriveUnacked(m) \/ \E p \in Process : Deliver(p, m)
      PROVE  UNCHANGED <<taken, finished>>
  BY <1>4 DEF RetryExpires, Check, Store, ProcessFails, PauseForInfra, Handoff, Discard,
     HandoffRefused, RedriveDlq, RedriveUnacked, Deliver
<1>5. ASSUME NEW p \in Process, Consume(p) \/ ChannelCloses(p) \/ Crash(p)
      PROVE  UNCHANGED <<taken, finished>>
  BY <1>5 DEF Consume, CancelConsume, ResumeConsuming, Start, ChannelCloses, Crash, broker
<1>6. ASSUME \/ \E e \in Event : LateStore(e) \/ LateFails(e) \/ SweepLedger(e)
             \/ DatabaseDown \/ DatabaseUp \/ UNCHANGED vars
      PROVE  UNCHANGED <<taken, finished>>
  BY <1>6 DEF LateStore, LateFails, SweepLedger, DatabaseDown, DatabaseUp, vars, broker
<1> QED
  BY <1>1, <1>2, <1>3, <1>4, <1>5, <1>6 DEF Next, Handle

\* A message keeps its event while it has a slot, until it is acknowledged as handled.
LEMMA EventStays ==
    ASSUME MessageTypes, NEW n \in Slot, Moves(n), msg[n].place # "free"
    PROVE  \/ msg'[n].event = msg[n].event /\ msg'[n].place \in Places \ {"free"}
           \/ IsAcked(n)
<1>1. msg[n] \in Message /\ Placed(msg[n]) /\ msg[n].place \in Places
  BY DEF MessageTypes, Message
<1>2. CASE Stays(n)
  BY <1>1, <1>2 DEF Stays
<1>3. CASE Returns(n) \/ Expires(n)
  BY <1>1, <1>3 DEF Returns, Expires, InMain, Message, Places
<1>4. CASE Arrives(n)
  BY <1>1, <1>4 DEF Arrives, Message, Places
<1>5. CASE Advances(n)
  BY <1>1, <1>5 DEF Advances, Message, Places
<1>6. CASE Fails(n)
  <2>1. /\ Rejected(msg[n]).event = msg[n].event
        /\ Rejected(msg[n]).place \in {"unacked", "retry"}
    BY <1>1, <1>6 DEF Fails, Rejected, Message
  <2> QED
    BY <1>6, <2>1 DEF Fails, Places
<1>7. CASE IsBuried(n)
  BY <1>1, <1>7 DEF IsBuried, InDlq, Message, Places
<1>8. ~Enters(n)
  BY DEF Enters
<1> QED
  BY <1>2, <1>3, <1>4, <1>5, <1>6, <1>7, <1>8 DEF Moves

LEMMA DroppedStep ==
    ASSUME MessageTypes, ConsumerTypes, BrokerTypes, TableTypes, BudgetTypes, DeathsCounted,
           NotesCounted, AcksAreDue, NothingDropped, [Next]_vars
    PROVE  NothingDropped'
<1> DEFINE Somewhere == {"main", "unacked", "retry", "dlq"}
<1> SUFFICES ASSUME NEW e \in taken'
             PROVE  \/ \E m \in Slot : msg'[m].event = e /\ msg'[m].place \in Somewhere
                    \/ e \in finished' /\ (Kind[e] = "plain" => notes'[e] >= 1)
  BY DEF NothingDropped, Queued
<1>1. CASE e \notin taken
  BY <1>1, TakenMoves
<1>2. ASSUME e \in taken, NEW n \in Slot, msg[n].event = e, msg[n].place \in Somewhere
      PROVE  \/ \E m \in Slot : msg'[m].event = e /\ msg'[m].place \in Somewhere
             \/ e \in finished' /\ (Kind[e] = "plain" => notes'[e] >= 1)
  <2>1. (msg'[n].event = e /\ msg'[n].place \in Somewhere) \/ IsAcked(n)
    BY <1>2, EventStays, EveryMessageMoves DEF Places
  <2>2. CASE IsAcked(n)
    <3>1. e \in Event /\ e \in finished' /\ (Kind[e] = "plain" => notes[e] >= 1)
      BY <1>2, <2>2 DEF IsAcked, AcksAreDue, BrokerTypes
    <3>2. notes[e] \in Nat /\ notes'[e] \in Nat /\ notes'[e] >= notes[e]
      BY <3>1, NotesStep, TableStep DEF TableTypes
    <3> QED
      BY <3>1, <3>2
  <2> QED
    BY <2>1, <2>2
<1>3. CASE e \in taken /\ e \in finished /\ (Kind[e] = "plain" => notes[e] >= 1)
  <2>1. e \in Event /\ e \in finished'
    BY <1>3, TakenMoves DEF BrokerTypes
  <2>2. notes[e] \in Nat /\ notes'[e] \in Nat /\ notes'[e] >= notes[e]
    BY <2>1, NotesStep, TableStep DEF TableTypes
  <2> QED
    BY <1>3, <2>1, <2>2
<1> QED
  BY <1>1, <1>2, <1>3 DEF NothingDropped, Queued

-----------------------------------------------------------------------------
(* Pauses.                                                                 *)

LEMMA PauseStep ==
    ASSUME MessageTypes, ConsumerTypes, PausesInOrder, PausedMeansSilent, [Next]_vars
    PROVE  PausesInOrder' /\ PausedMeansSilent'
<1>1. ASSUME NEW m \in Slot, PauseForInfra(m) PROVE PausesInOrder' /\ PausedMeansSilent'
  <2>1. PICK q \in Process : q = msg[m].holder /\ channel[q] # "closed"
    BY <1>1 DEF PauseForInfra, MessageTypes, Placed, Message
  <2>2. /\ paused' = [paused EXCEPT ![q] = IF @ = "no" THEN "cancelling" ELSE @]
        /\ UNCHANGED <<channel, timer>>
    BY <1>1, <2>1 DEF PauseForInfra
  <2> QED
    BY <2>1, <2>2 DEF ConsumerTypes, PausesInOrder, PausedMeansSilent
<1>2. ASSUME NEW p \in Process, Consume(p) PROVE PausesInOrder' /\ PausedMeansSilent'
  <2>1. CASE CancelConsume(p)
    BY <2>1 DEF CancelConsume, ConsumerTypes, PausesInOrder, PausedMeansSilent
  <2>2. CASE ResumeConsuming(p)
    BY <2>2 DEF ResumeConsuming, ConsumerTypes, PausesInOrder, PausedMeansSilent
  <2>3. CASE Start(p)
    BY <2>3 DEF Start, ConsumerTypes, PausesInOrder, PausedMeansSilent
  <2> QED
    BY <1>2, <2>1, <2>2, <2>3 DEF Consume
<1>3. ASSUME NEW p \in Process, ChannelCloses(p) PROVE PausesInOrder' /\ PausedMeansSilent'
  BY <1>3 DEF ChannelCloses, ConsumerTypes, PausesInOrder, PausedMeansSilent
<1>4. ASSUME NEW p \in Process, Crash(p) PROVE PausesInOrder' /\ PausedMeansSilent'
  BY <1>4 DEF Crash, ConsumerTypes, PausesInOrder, PausedMeansSilent
<1>5. CASE UNCHANGED consumer
  BY <1>5 DEF consumer, PausesInOrder, PausedMeansSilent
<1> QED
  BY <1>1, <1>2, <1>3, <1>4, <1>5 DEF Next, Handle, RetryExpires, Check, Store, Ack, ProcessFails,
     Handoff, Discard, HandoffRefused, RedriveDlq, RedriveUnacked, Deliver, Publish, LateStore,
     LateFails, SweepLedger, DatabaseDown, DatabaseUp, vars

-----------------------------------------------------------------------------
(* The inductive invariant and the properties.                             *)

LEMMA InvInit == Init => IInv
<1> SUFFICES ASSUME Init PROVE IInv
  OBVIOUS
<1>1. TypeOK
  BY TypeInit
<1>2. DeathsCounted /\ AcksAreDue /\ DeadLettersEarnedIt
  BY DEF Init, Free, DeathsCounted, AcksAreDue, DeadLettersEarnedIt
<1>3. NotesCounted /\ NothingDropped /\ PausesInOrder /\ PausedMeansSilent
  BY DEF Init, NotesCounted, NothingDropped, PausesInOrder, PausedMeansSilent
<1> QED
  BY <1>1, <1>2, <1>3 DEF IInv

LEMMA InvStep == IInv /\ [Next]_vars => IInv'
<1> SUFFICES ASSUME IInv, [Next]_vars PROVE IInv'
  OBVIOUS
<1>1. MessageTypes /\ ConsumerTypes /\ BrokerTypes /\ TableTypes /\ BudgetTypes
  BY TypeParts DEF IInv
<1>2. TypeOK'
  BY TypeStep DEF IInv
<1>3. DeathsCounted' /\ DeadLettersEarnedIt'
  BY <1>1, DeathStep DEF IInv
<1>4. NotesCounted' /\ AcksAreDue' /\ NothingDropped'
  BY <1>1, NotesStep, AckStep, DroppedStep DEF IInv
<1>5. PausesInOrder' /\ PausedMeansSilent'
  BY <1>1, PauseStep DEF IInv
<1> QED
  BY <1>2, <1>3, <1>4, <1>5 DEF IInv

THEOREM Invariance == Spec => []IInv
<1>1. Init => IInv
  BY InvInit
<1>2. IInv /\ [Next]_vars => IInv'
  BY InvStep
<1> QED
  BY <1>1, <1>2, PTL DEF Spec

\* The types of the queues, the consumers and the tables hold in every instance; an
\* unacknowledged message is held over a channel that is open.
THEOREM TypeCorrect == Spec => []TypeOK
<1>1. IInv => TypeOK
  BY DEF IInv
<1> QED
  BY <1>1, Invariance, PTL

\* process() and the ledger: for any number of publishes, redeliveries, concurrent
\* handlers and redrives an event gets one notification, and one more for every ledger
\* row that retention took.
THEOREM OneEffect == Spec => []ExactlyOnceEffect
<1>1. IInv => ExactlyOnceEffect
  <2> SUFFICES ASSUME IInv, NEW e \in Event
               PROVE  notes[e] <= 1 + sweeps /\ (e \in ledger => notes[e] >= 1)
    BY DEF ExactlyOnceEffect
  <2>1. PICK n \in Nat, s \in Nat : n = notes[e] /\ s = sweeps
    BY DEF IInv, TypeOK
  <2> QED
    BY <2>1 DEF IInv, NotesCounted
<1> QED
  BY <1>1, Invariance, PTL

\* handleDelivery, deadLetter and the broker's requeueing: whatever closes, crashes or is
\* refused, an event its queue took is in a queue or with a consumer until it is handled.
THEOREM NoneDropped == Spec => []NothingDropped
<1>1. IInv => NothingDropped
  BY DEF IInv
<1> QED
  BY <1>1, Invariance, PTL

\* isInfraError and countDeaths: no number of outages dead-letters a message; it takes
\* half of maxAttempts failures of its own and one more.
THEOREM DeadLettersForCause == Spec => []DeadLettersEarnedIt
<1>1. IInv => DeadLettersEarnedIt
  BY DEF IInv
<1> QED
  BY <1>1, Invariance, PTL

\* pauseForInfra and handleChannelClose: a paused consumer consumes only over a channel
\* that replaced the paused one.
THEOREM SilentWhenPaused == Spec => []PausedMeansSilent
<1>1. IInv => PausedMeansSilent
  BY DEF IInv
<1> QED
  BY <1>1, Invariance, PTL

=============================================================================
