----------------------------- MODULE AuditProofs -----------------------------
(***************************************************************************)
(* What AuditPipeline promises of the rows of cdp.audit_log holds for any  *)
(* number of events, workers and failures, and any size of the batches and *)
(* of the stream.                                                          *)
(***************************************************************************)
EXTENDS AuditPipeline, FiniteSetTheorems, SequenceTheorems, TLAPS

Worker(w) ==
  \/ \E e \in Events : Log(w, e) \/ Push(w, e)
  \/ PeriodicFlush(w) \/ Reschedule(w) \/ WorkerExit(w)

Portal ==
  \/ \E b \in sends : Arrive(b) \/ SendFails(b)
  \/ \E p \in posts : PostTouch(p) \/ PostFails(p) \/ \E e \in p.left : PostInsert(p, e)

Stream == Consumer \/ ConsumerFails \/ StreamEvicted

\* The actors of the pipeline: workers, the portal's endpoint, the consumer.
LEMMA Actors ==
  [Next]_vars =>
    (\E w \in Workers : Worker(w)) \/ Portal \/ Stream \/ PortalCrash \/ UNCHANGED vars
  BY DEF Next, Gateway, Posting, Failures, Worker, Portal, Stream

-----------------------------------------------------------------------------
(* The types.                                                              *)

\* A call is owed only an event that is no security event. The consumer has
\* nothing at hand but while it persists.
Owing ==
  /\ \A p \in posts : p.touch \in (Events \ Security) \cup {NoEvent}
  /\ consumer.pc # "persist" => consumer.hand = {}

TypeInv == ATypeOK /\ Owing

LEMMA InitTypes == Init => TypeInv
  <1> SUFFICES ASSUME Init PROVE TypeInv
    OBVIOUS
  <1>1. unread \in Seq(Security)
    BY EmptySeq DEF Init
  <1>2. faults \in 0..MaxFaults /\ group \in BOOLEAN
    <2>1. group \in BOOLEAN /\ (group \/ ColdStart)
      BY AuditAssumption DEF Init
    <2>2. group \/ MaxFaults > 0
      BY <2>1, AuditAssumption
    <2> QED
      BY <2>1, <2>2, AuditAssumption DEF Init
  <1> QED
    BY <1>1, <1>2 DEF Init, TypeInv, ATypeOK, Owing, Starting

LEMMA FaultsTyped ==
  ASSUME ATypeOK, Fault \/ Sound
  PROVE  faults' \in 0..MaxFaults
  BY AuditAssumption DEF ATypeOK, Fault, Sound

\* What the worker hands on, or loses, is a part of its batch.
LEMMA TriggerTyped ==
  ASSUME TypeInv, NEW w \in Workers, NEW b \in SUBSET Events,
         (Handoff(w, b) /\ Fault) \/ Trigger(w, b)
  PROVE  /\ batch' \in [Workers -> SUBSET Events]
         /\ timer' \in [Workers -> {"off", "on", "busy"}]
         /\ sends' \subseteq SUBSET Events
         /\ faults' \in 0..MaxFaults
  <1>1. faults' \in 0..MaxFaults
    BY FaultsTyped DEF Trigger, TypeInv
  <1> QED
    BY <1>1 DEF Trigger, Handoff, Unscheduled, TypeInv, ATypeOK

LEMMA AppendTyped ==
  ASSUME TypeInv, NEW e \in Security
  PROVE  /\ Append(unread, e) \in Seq(Security)
         /\ Tail(Append(unread, e)) \in Seq(Security)
  <1>1. Append(unread, e) \in Seq(Security) /\ Append(unread, e) # <<>>
    BY AppendProperties DEF TypeInv, ATypeOK
  <1> QED
    BY <1>1, HeadTailProperties

LEMMA WorkerTyped ==
  ASSUME TypeInv, NEW w \in Workers, Worker(w)
  PROVE  TypeInv'
  <1> USE DEF TypeInv, ATypeOK, Owing, redis, table
  <1>1. ASSUME NEW e \in Events, Log(w, e)
        PROVE  TypeInv'
    <2>1. CASE e \in Security
      BY <1>1, <2>1 DEF Log
    <2>2. CASE e \notin Security
      <3>1. batch[w] \cup {e} \in SUBSET Events /\ Trigger(w, batch[w] \cup {e})
        BY <1>1, <2>2 DEF Log
      <3>2. /\ logged' \subseteq Events
            /\ UNCHANGED <<sockets, pushing, posts, unread, group, pel, consumer, rows, touched>>
        BY <1>1, <2>2 DEF Log
      <3> QED
        BY <3>1, <3>2, TriggerTyped
    <2> QED
      BY <2>1, <2>2
  <1>2. ASSUME NEW e \in Events, Push(w, e)
        PROVE  TypeInv'
    <2>1. e \in Security /\ batch[w] \in SUBSET Events
      BY <1>2 DEF Push
    <2>2. Trigger(w, batch[w]) \/ (Handoff(w, batch[w]) /\ Fault)
      BY <1>2 DEF Push
    <2>3. unread' \in Seq(Security)
      <3>1. unread' \in {unread, Append(unread, e), Tail(Append(unread, e))}
        BY <1>2 DEF Push
      <3>2. /\ Append(unread, e) \in Seq(Security)
            /\ Tail(Append(unread, e)) \in Seq(Security)
        BY <2>1, AppendTyped
      <3>3. unread \in Seq(Security)
        OBVIOUS
      <3> QED
        BY <3>1, <3>2, <3>3, Zenon
    <2>4. /\ pushing' \in [Workers -> SUBSET Security]
          /\ UNCHANGED <<sockets, logged, posts, group, pel, consumer, rows, touched>>
      BY <1>2 DEF Push
    <2> QED
      BY <2>1, <2>2, <2>3, <2>4, TriggerTyped
  <1>3. CASE PeriodicFlush(w)
    BY <1>3 DEF PeriodicFlush
  <1>4. CASE Reschedule(w)
    BY <1>4, FaultsTyped DEF Reschedule
  <1>5. CASE WorkerExit(w)
    BY <1>5, FaultsTyped DEF WorkerExit
  <1> QED
    BY <1>1, <1>2, <1>3, <1>4, <1>5 DEF Worker

\* A post resumes with less to do.
LEMMA ResumeTyped ==
  ASSUME TypeInv, NEW p \in posts, NEW S \in SUBSET p.left,
         NEW t \in (Events \ Security) \cup {NoEvent}, Resume(p, [left |-> S, touch |-> t])
  PROVE  posts' \subseteq Post /\ \A q \in posts' : q.touch \in (Events \ Security) \cup {NoEvent}
  BY DEF TypeInv, ATypeOK, Owing, Resume, Post

LEMMA PortalTyped ==
  ASSUME TypeInv, Portal
  PROVE  TypeInv'
  <1> USE DEF TypeInv, ATypeOK, Owing, gateway, redis, table
  <1>1. ASSUME NEW b \in sends, SendFails(b)
        PROVE  TypeInv'
    BY <1>1, FaultsTyped DEF SendFails
  <1>2. ASSUME NEW b \in sends, Arrive(b)
        PROVE  TypeInv'
    BY <1>2 DEF Arrive, Post
  <1>3. ASSUME NEW p \in posts, NEW e \in p.left, PostInsert(p, e)
        PROVE  TypeInv'
    <2>1. e \in Events /\ p.left \ {e} \in SUBSET p.left
      BY DEF Post
    <2>2. /\ posts' \subseteq Post
          /\ \A q \in posts' : q.touch \in (Events \ Security) \cup {NoEvent}
      BY <1>3, <2>1, ResumeTyped DEF PostInsert
    <2>3. rows' \in [Events -> Nat]
      BY <1>3, <2>1 DEF PostInsert
    <2> QED
      BY <1>3, <2>2, <2>3 DEF PostInsert
  <1>4. ASSUME NEW p \in posts, PostTouch(p)
        PROVE  TypeInv'
    <2>1. /\ posts' \subseteq Post
          /\ \A q \in posts' : q.touch \in (Events \ Security) \cup {NoEvent}
      BY <1>4, ResumeTyped DEF PostTouch
    <2> QED
      BY <1>4, <2>1 DEF PostTouch
  <1>5. ASSUME NEW p \in posts, PostFails(p)
        PROVE  TypeInv'
    BY <1>5, FaultsTyped DEF PostFails
  <1> QED
    BY <1>1, <1>2, <1>3, <1>4, <1>5 DEF Portal

\* What a read takes and what it leaves are the stream, cut in two.
LEMMA ReadSplits ==
  ASSUME TypeInv, Read
  PROVE  /\ consumer' = [pc |-> "persist", hand |-> consumer'.hand, done |-> {}]
         /\ consumer'.hand \subseteq Security
         /\ unread' \in Seq(Security)
         /\ \E n \in 0..Len(unread) :
              /\ consumer'.hand = {unread[i] : i \in 1..n}
              /\ Len(unread') = Len(unread) - n
              /\ \A i \in 1..Len(unread') : unread'[i] = unread[n + i]
  <1> DEFINE n == Take(ReadCount)
  <1>1. Len(unread) \in Nat /\ \A i \in 1..Len(unread) : unread[i] \in Security
    BY LenProperties, ElementOfSeq DEF TypeInv, ATypeOK
  <1>2. n \in 0..Len(unread)
    BY <1>1, AuditAssumption DEF Take
  <1>3. /\ consumer' = [pc |-> "persist", hand |-> {unread[i] : i \in 1..n}, done |-> {}]
        /\ unread' = SubSeq(unread, n + 1, Len(unread))
    BY DEF Read
  <1> HIDE DEF n
  <1>4. /\ SubSeq(unread, n + 1, Len(unread)) \in Seq(Security)
        /\ Len(SubSeq(unread, n + 1, Len(unread))) = Len(unread) - n
        /\ \A i \in 1..(Len(unread) - n) :
             SubSeq(unread, n + 1, Len(unread))[i] = unread[n + i]
    <2>1. n + 1 \in Int /\ Len(unread) \in Int /\ Len(unread) - (n + 1) + 1 = Len(unread) - n
      BY <1>1, <1>2
    <2>2. \A i \in (n + 1)..Len(unread) : unread[i] \in Security
      BY <1>1, <1>2
    <2>3. \A i \in 1..(Len(unread) - n) : (n + 1) + i - 1 = n + i
      BY <1>2
    <2>4. (IF n + 1 <= Len(unread) THEN Len(unread) - (n + 1) + 1 ELSE 0) = Len(unread) - n
      BY <1>1, <1>2
    <2> QED
      BY <2>1, <2>2, <2>3, <2>4, SubSeqProperties
  <1> QED
    BY <1>1, <1>2, <1>3, <1>4

\* An entry that is persisted leaves the consumer's hand, and nothing else does.
LEMMA PersistLeaves ==
  ASSUME TypeInv, NEW e \in Security, Persist(e)
  PROVE  /\ consumer' \in [pc : {"ensure", "read", "persist"}, hand : SUBSET Security,
                           done : SUBSET Security]
         /\ consumer'.pc = "persist"
         /\ consumer'.hand = consumer.hand \ {e}
  <1>1. /\ consumer \in [pc : {"ensure", "read", "persist"}, hand : SUBSET Security,
                          done : SUBSET Security]
        /\ consumer.pc = "persist"
    BY DEF TypeInv, ATypeOK, Persist
  <1>2. CASE consumer' = [consumer EXCEPT !.hand = @ \ {e}, !.done = @ \cup {e}]
    BY <1>1, <1>2
  <1>3. CASE consumer' = [consumer EXCEPT !.hand = @ \ {e}]
    BY <1>1, <1>3
  <1> QED
    BY <1>2, <1>3 DEF Persist

LEMMA StreamTyped ==
  ASSUME TypeInv, Stream \/ PortalCrash
  PROVE  TypeInv'
  <1> USE DEF TypeInv, ATypeOK, Owing, gateway, redis, table, Starting, Reading
  <1>1. CASE Ensure
    <2>1. unread' \in Seq(Security)
      <3>1. unread' \in {unread, <<>>}
        BY <1>1 DEF Ensure
      <3>2. <<>> \in Seq(Security) /\ unread \in Seq(Security)
        BY EmptySeq
      <3> QED
        BY <3>1, <3>2, Zenon
    <2> QED
      BY <1>1, <2>1, FaultsTyped DEF Ensure
  <1>2. CASE Read
    <2>1. /\ consumer' = [pc |-> "persist", hand |-> consumer'.hand, done |-> {}]
          /\ consumer'.hand \subseteq Security
          /\ unread' \in Seq(Security)
      BY <1>2, ReadSplits
    <2>2. pel' = pel \cup consumer'.hand
      BY <1>2 DEF Read
    <2>3. UNCHANGED <<gateway, sends, posts, group, table, faults>>
      BY <1>2 DEF Read
    <2> QED
      BY <2>1, <2>2, <2>3
  <1>3. ASSUME NEW e \in Security, Persist(e)
        PROVE  TypeInv'
    <2>1. e \in Events /\ rows[e] + 1 \in Nat /\ faults' \in 0..MaxFaults
      BY <1>3, AuditAssumption, FaultsTyped DEF Persist
    <2>2. rows' \in [Events -> Nat]
      BY <1>3, <2>1 DEF Persist
    <2>3. /\ consumer' \in [pc : {"ensure", "read", "persist"}, hand : SUBSET Security,
                            done : SUBSET Security]
          /\ consumer'.pc = "persist"
      BY <1>3, PersistLeaves
    <2> QED
      BY <1>3, <2>1, <2>2, <2>3 DEF Persist
  <1>4. CASE Ack
    BY <1>4 DEF Ack
  <1>5. CASE ConsumerFails
    BY <1>5, FaultsTyped DEF ConsumerFails
  <1>6. CASE StreamEvicted
    BY <1>6, EmptySeq, FaultsTyped DEF StreamEvicted
  <1>7. CASE PortalCrash
    BY <1>7, FaultsTyped DEF PortalCrash
  <1> QED
    BY <1>1, <1>2, <1>3, <1>4, <1>5, <1>6, <1>7 DEF Stream, Consumer

LEMMA StepTypes == TypeInv /\ [Next]_vars => TypeInv'
  <1>1. TypeInv /\ UNCHANGED vars => TypeInv'
    BY DEF vars, gateway, redis, table, TypeInv, ATypeOK, Owing
  <1> QED
    BY <1>1, Actors, WorkerTyped, PortalTyped, StreamTyped

LEMMA AlwaysTyped == Spec => []TypeInv
  BY InitTypes, StepTypes, PTL DEF Spec

\* Batches, posts, stream and table hold what their types say (AuditPipeline).
THEOREM AuditTypes == Spec => []ATypeOK
  BY AlwaysTyped, PTL DEF TypeInv

-----------------------------------------------------------------------------
(* Where an event is on its way to the table.                              *)

InBatch(e) == \E w \in Workers : e \in batch[w]
InSends(e) == \E b \in sends : e \in b
InPosts(e) == \E p \in posts : e \in p.left

OnHttpPath(e) == \/ \E w \in Workers : e \in batch[w]
                 \/ \E b \in sends : e \in b
                 \/ \E p \in posts : e \in p.left

\* An event is in one place of the HTTP path at most.
HttpOnce(e) ==
  /\ \A v, w \in Workers : e \in batch[v] /\ e \in batch[w] => v = w
  /\ \A b, c \in sends : e \in b /\ e \in c => b = c
  /\ \A p, q \in posts : e \in p.left /\ e \in q.left => p = q
  /\ InBatch(e) => ~InSends(e) /\ ~InPosts(e)
  /\ InSends(e) => ~InPosts(e)

Pushed(e)   == \E w \in Workers : e \in pushing[w]
Unread(e)   == \E i \in 1..Len(unread) : unread[i] = e
InStream(e) == Pushed(e) \/ Unread(e) \/ e \in consumer.hand

\* An event is in one place of the stream's path at most.
StreamOnce(e) ==
  /\ \A v, w \in Workers : e \in pushing[v] /\ e \in pushing[w] => v = w
  /\ \A i, j \in 1..Len(unread) : unread[i] = e /\ unread[j] = e => i = j
  /\ Pushed(e) => ~Unread(e) /\ e \notin consumer.hand
  /\ Unread(e) => e \notin consumer.hand

\* A place on a path is a row to come, and there is none before the log phase.
Room(e) ==
  /\ rows[e] <= 1 + Cardinality({e} \cap Security)
  /\ rows[e] > 0 => ~(OnHttpPath(e) /\ InStream(e))
  /\ rows[e] > 0 /\ e \notin Security => ~OnHttpPath(e)
  /\ rows[e] > 1 => ~OnHttpPath(e) /\ ~InStream(e)
  /\ e \notin logged => rows[e] = 0 /\ ~OnHttpPath(e) /\ ~InStream(e)

OnWay(e) == HttpOnce(e) /\ StreamOnce(e) /\ Room(e)

Enters(e) == e \notin logged /\ e \in logged'

LEMMA Paths ==
  ASSUME TypeInv, NEW e \in Events
  PROVE  /\ Cardinality({e} \cap Security) = IF e \in Security THEN 1 ELSE 0
         /\ rows[e] \in Nat
         /\ OnHttpPath(e) <=> InBatch(e) \/ InSends(e) \/ InPosts(e)
         /\ InStream(e) => e \in Security
  <1>1. CASE e \in Security
    <2>1. {e} \cap Security = {e}
      BY <1>1
    <2> QED
      BY <1>1, <2>1, FS_Singleton DEF TypeInv, ATypeOK, OnHttpPath, InBatch, InSends, InPosts
  <1>2. CASE e \notin Security
    <2>1. {e} \cap Security = {}
      BY <1>2
    <2>2. ~InStream(e)
      BY <1>2, ElementOfSeq DEF InStream, Pushed, Unread, TypeInv, ATypeOK
    <2> QED
      BY <1>2, <2>1, <2>2, FS_EmptySet
      DEF TypeInv, ATypeOK, OnHttpPath, InBatch, InSends, InPosts
  <1> QED
    BY <1>1, <1>2

-----------------------------------------------------------------------------
(* The worker's steps.                                                     *)

\* Worker w keeps B as its batch, sends it, or loses it.
Hands(w, B) ==
  /\ \A v \in Workers \ {w} : batch'[v] = batch[v]
  /\ \/ batch'[w] = B /\ sends' = sends
     \/ batch'[w] = {} /\ sends' \in {sends, sends \cup {B}}

LEMMA TriggerHands ==
  ASSUME TypeInv, NEW w \in Workers, NEW B,
         (Handoff(w, B) /\ Fault) \/ Trigger(w, B)
  PROVE  Hands(w, B)
  BY DEF Trigger, Handoff, Unscheduled, Hands, TypeInv, ATypeOK

\* What a worker hands on is its batch, and the event just logged.
LEMMA WorkerHands ==
  ASSUME TypeInv, NEW w \in Workers, Worker(w)
  PROVE  /\ posts' = posts /\ rows' = rows
         /\ \E B : /\ Hands(w, B) /\ batch[w] \subseteq B
                  /\ \A e \in B \ batch[w] : Enters(e)
  <1>1. ASSUME NEW e \in Events, Log(w, e)
        PROVE  Hands(w, batch[w] \cup {e}) /\ Enters(e)
    <2>1. CASE e \in Security
      BY <1>1, <2>1 DEF Log, Hands, Enters, TypeInv, ATypeOK
    <2>2. CASE e \notin Security
      BY <1>1, <2>2, TriggerHands DEF Log, Enters
    <2> QED
      BY <2>1, <2>2
  <1>2. ASSUME NEW e \in Events, Push(w, e)
        PROVE  Hands(w, batch[w])
    BY <1>2, TriggerHands DEF Push
  <1>3. CASE PeriodicFlush(w) \/ Reschedule(w) \/ WorkerExit(w)
    <2>1. Hands(w, batch[w])
      BY <1>3 DEF PeriodicFlush, Reschedule, WorkerExit, Hands, TypeInv, ATypeOK
    <2> QED
      BY <1>3, <2>1 DEF PeriodicFlush, Reschedule, WorkerExit, table
  <1>4. posts' = posts /\ rows' = rows
    BY DEF Worker, Log, Push, PeriodicFlush, Reschedule, WorkerExit, table
  <1> QED
    BY <1>1, <1>2, <1>3, <1>4 DEF Worker

LEMMA HandsOnce ==
  ASSUME TypeInv, NEW e \in Events, HttpOnce(e), e \notin logged => ~OnHttpPath(e),
         NEW w \in Workers, NEW B, Hands(w, B), batch[w] \subseteq B,
         \A d \in B \ batch[w] : Enters(d), posts' = posts
  PROVE  HttpOnce(e)' /\ (OnHttpPath(e)' => OnHttpPath(e) \/ Enters(e))
  <1>1. e \in B => e \in batch[w] \/ (Enters(e) /\ ~OnHttpPath(e))
    BY DEF Enters
  <1>2. \A b \in sends' : b \in sends \/ (b = B /\ batch'[w] = {})
    BY DEF Hands
  <1>3. \A v \in Workers : batch'[v] = batch[v] \/ (v = w /\ batch'[v] \in {B, {}})
    BY DEF Hands
  <1>4. batch'[w] = {} \/ sends' = sends
    BY DEF Hands
  <1>5. OnHttpPath(e)' => OnHttpPath(e) \/ Enters(e)
    BY <1>1, <1>2, <1>3 DEF OnHttpPath
  <1>6. \A u, v \in Workers : e \in batch'[u] /\ e \in batch'[v] => u = v
    BY <1>1, <1>3 DEF HttpOnce, OnHttpPath
  <1>7. \A b, c \in sends' : e \in b /\ e \in c => b = c
    BY <1>1, <1>2 DEF HttpOnce, OnHttpPath, InBatch, InSends
  <1>8. InBatch(e)' => ~InSends(e)' /\ ~InPosts(e)'
    BY <1>1, <1>2, <1>3, <1>4 DEF HttpOnce, OnHttpPath, InBatch, InSends, InPosts
  <1>9. InSends(e)' => ~InPosts(e)'
    BY <1>1, <1>2 DEF HttpOnce, OnHttpPath, InBatch, InSends, InPosts
  <1> QED
    BY <1>5, <1>6, <1>7, <1>8, <1>9 DEF HttpOnce

\* Whatever becomes of an entry that is pushed, the stream keeps its order: it
\* loses at most its oldest entry and gains at most x.
Shifts(x) ==
  \E k \in {0, 1} : \A i \in 1..Len(unread') :
    LET j == i + k
    IN  \/ j \in 1..Len(unread) /\ unread'[i] = unread[j]
        \/ j = Len(unread) + 1 /\ unread'[i] = x

LEMMA PushShifts ==
  ASSUME TypeInv, NEW x \in Security,
         unread' \in {unread, Append(unread, x), Tail(Append(unread, x))}
  PROVE  Shifts(x)
  <1> DEFINE u == Append(unread, x)
  <1>1. Len(unread) \in Nat
    BY LenProperties DEF TypeInv, ATypeOK
  <1>2. /\ u \in Seq(Security) /\ u # <<>>
        /\ Len(u) = Len(unread) + 1 /\ u[Len(unread) + 1] = x
        /\ \A i \in 1..Len(unread) : u[i] = unread[i]
    BY AppendProperties DEF TypeInv, ATypeOK
  <1> HIDE DEF u
  <1>3. /\ Len(Tail(u)) = Len(unread)
        /\ \A i \in 1..Len(unread) : Tail(u)[i] = u[i + 1]
    BY <1>1, <1>2, HeadTailProperties
  <1>4. CASE unread' = unread
    <2>1. \A i \in 1..Len(unread') : i + 0 \in 1..Len(unread) /\ unread'[i] = unread[i + 0]
      BY <1>1, <1>4
    <2> QED
      BY <2>1 DEF Shifts
  <1>5. CASE unread' = u
    <2>1. \A i \in 1..Len(unread') :
            \/ i + 0 \in 1..Len(unread) /\ unread'[i] = unread[i + 0]
            \/ i + 0 = Len(unread) + 1 /\ unread'[i] = x
      BY <1>1, <1>2, <1>5
    <2> QED
      BY <2>1 DEF Shifts
  <1>6. CASE unread' = Tail(u)
    <2>1. \A i \in 1..Len(unread') :
            \/ i + 1 \in 1..Len(unread) /\ unread'[i] = unread[i + 1]
            \/ i + 1 = Len(unread) + 1 /\ unread'[i] = x
      BY <1>1, <1>2, <1>3, <1>6
    <2> QED
      BY <2>1 DEF Shifts
  <1> QED
    BY <1>4, <1>5, <1>6 DEF u

LEMMA PushOnce ==
  ASSUME TypeInv, NEW e \in Events, StreamOnce(e), NEW w \in Workers, NEW x \in Events,
         Push(w, x)
  PROVE  StreamOnce(e)' /\ (InStream(e)' => InStream(e))
  <1>1. /\ x \in Security /\ x \in pushing[w] /\ consumer' = consumer
        /\ \A v \in Workers : pushing'[v] = IF v = w THEN pushing[v] \ {x} ELSE pushing[v]
    BY DEF Push, TypeInv, ATypeOK
  <1>2. unread' \in {unread, Append(unread, x), Tail(Append(unread, x))}
    BY DEF Push
  <1>3. PICK k \in {0, 1} : \A i \in 1..Len(unread') :
          \/ i + k \in 1..Len(unread) /\ unread'[i] = unread[i + k]
          \/ i + k = Len(unread) + 1 /\ unread'[i] = x
    BY <1>1, <1>2, PushShifts DEF Shifts
  <1>4. Pushed(x)
    BY <1>1 DEF Pushed
  <1>5. Unread(e)' => Unread(e) \/ e = x
    BY <1>3 DEF Unread
  <1>6. Pushed(e)' => Pushed(e)
    BY <1>1 DEF Pushed
  <1>7. e = x => ~Pushed(e)'
    BY <1>1 DEF Pushed, StreamOnce
  <1>8. \A i, j \in 1..Len(unread') : unread'[i] = e /\ unread'[j] = e => i = j
    <2> SUFFICES ASSUME NEW i \in 1..Len(unread'), NEW j \in 1..Len(unread'),
                        unread'[i] = e, unread'[j] = e
                 PROVE  i = j
      OBVIOUS
    <2>1. i \in Int /\ j \in Int /\ i + k = j + k => i = j
      OBVIOUS
    <2>2. i + k \in 1..Len(unread) /\ j + k \in 1..Len(unread) => i + k = j + k
      BY <1>3, <1>4 DEF StreamOnce, Unread
    <2>3. e = x => ~\E m \in 1..Len(unread) : unread[m] = e
      BY <1>4 DEF StreamOnce, Unread
    <2>4. \/ i + k \in 1..Len(unread) /\ unread[i + k] = e
          \/ i + k = Len(unread) + 1 /\ e = x
      BY <1>3
    <2>5. \/ j + k \in 1..Len(unread) /\ unread[j + k] = e
          \/ j + k = Len(unread) + 1 /\ e = x
      BY <1>3
    <2> QED
      BY <2>1, <2>2, <2>3, <2>4, <2>5
  <1> QED
    BY <1>1, <1>4, <1>5, <1>6, <1>7, <1>8 DEF StreamOnce, InStream

\* A worker's step leaves an event in one place of each path at most, and brings
\* there only one whose log phase begins.
LEMMA WorkerOnce ==
  ASSUME TypeInv, NEW e \in Events, OnWay(e), NEW w \in Workers, Worker(w)
  PROVE  OnWay(e)'
  <1> USE DEF OnWay
  <1>1. HttpOnce(e)' /\ (OnHttpPath(e)' => OnHttpPath(e) \/ Enters(e)) /\ rows' = rows
    <2>1. e \notin logged => ~OnHttpPath(e)
      BY DEF Room
    <2> QED
      BY <2>1, WorkerHands, HandsOnce
  <1>2. StreamOnce(e)' /\ (InStream(e)' => InStream(e) \/ Enters(e))
    <2>1. ASSUME NEW x \in Events, Log(w, x)
          PROVE  StreamOnce(e)' /\ (InStream(e)' => InStream(e) \/ Enters(e))
      <3>1. UNCHANGED <<unread, consumer>> /\ Enters(x)
        BY <2>1 DEF Log, redis, Enters
      <3>2. \A v \in Workers : pushing'[v] = pushing[v] \/ (v = w /\ pushing'[v] = pushing[v] \cup {x})
        <4>1. pushing[w] \cup {} = pushing[w]
          OBVIOUS
        <4>2. pushing' \in {pushing, [pushing EXCEPT ![w] = @ \cup {x}],
                           [pushing EXCEPT ![w] = @ \cup {}]}
          BY <2>1, Zenon DEF Log
        <4> QED
          BY <4>1, <4>2 DEF TypeInv, ATypeOK
      <3>3. Enters(e) => ~InStream(e)
        BY DEF Room, Enters
      <3> QED
        BY <3>1, <3>2, <3>3 DEF StreamOnce, InStream, Pushed, Unread
    <2>2. ASSUME NEW x \in Events, Push(w, x)
          PROVE  StreamOnce(e)' /\ (InStream(e)' => InStream(e) \/ Enters(e))
      BY <2>2, PushOnce
    <2>3. CASE PeriodicFlush(w) \/ Reschedule(w) \/ WorkerExit(w)
      <3>1. UNCHANGED <<unread, consumer>>
        BY <2>3 DEF PeriodicFlush, Reschedule, WorkerExit, redis
      <3>2. \A v \in Workers : pushing'[v] = pushing[v] \/ pushing'[v] = {}
        BY <2>3 DEF PeriodicFlush, Reschedule, WorkerExit, TypeInv, ATypeOK
      <3> QED
        BY <3>1, <3>2 DEF StreamOnce, InStream, Pushed, Unread
    <2> QED
      BY <2>1, <2>2, <2>3 DEF Worker
  <1>3. logged \subseteq logged'
    BY DEF Worker, Log, Push, PeriodicFlush, Reschedule, WorkerExit
  <1> QED
    BY <1>1, <1>2, <1>3 DEF Room, Enters

-----------------------------------------------------------------------------
(* The steps of the portal and of the consumer.                            *)

LEMMA ResumeOnce ==
  ASSUME TypeInv, NEW e \in Events, HttpOnce(e), UNCHANGED <<batch, sends>>,
         NEW p \in posts, NEW S \in SUBSET p.left, NEW t, Resume(p, [left |-> S, touch |-> t])
  PROVE  /\ HttpOnce(e)' /\ (OnHttpPath(e)' => OnHttpPath(e))
         /\ e \in p.left \ S => ~OnHttpPath(e)'
  <1>1. \A q \in posts' : q \in posts \ {p} \/ q.left = S
    BY DEF Resume
  <1>2. \A q, r \in posts' : q # r => q \in posts \ {p} \/ r \in posts \ {p}
    BY DEF Resume
  <1>3. \A q, r \in posts' : e \in q.left /\ e \in r.left => q = r
    BY <1>1, <1>2 DEF HttpOnce
  <1>4. InPosts(e)' => InPosts(e)
    BY <1>1 DEF InPosts
  <1>5. HttpOnce(e)'
    BY <1>3, <1>4 DEF HttpOnce, InBatch, InSends
  <1>6. e \in p.left => InPosts(e)
    BY DEF InPosts
  <1>7. e \in p.left \ S => ~InPosts(e)'
    BY <1>1 DEF InPosts, HttpOnce
  <1> QED
    BY <1>4, <1>5, <1>6, <1>7 DEF HttpOnce, OnHttpPath, InPosts, InSends, InBatch

LEMMA PortalOnce ==
  ASSUME TypeInv, NEW e \in Events, OnWay(e), Portal
  PROVE  OnWay(e)'
  <1> USE DEF OnWay
  <1>0. /\ UNCHANGED <<logged, batch, pushing, unread, consumer>>
        /\ StreamOnce(e)' /\ InStream(e)' = InStream(e)
    <2>1. UNCHANGED <<logged, batch, pushing, unread, consumer>>
      BY DEF Portal, Arrive, SendFails, PostInsert, PostTouch, PostFails, gateway, redis
    <2> QED
      BY <2>1 DEF StreamOnce, InStream, Pushed, Unread
  <1>1. CASE \E b \in sends : Arrive(b) \/ SendFails(b)
    <2>1. PICK b \in sends : Arrive(b) \/ SendFails(b)
      BY <1>1
    <2>2. /\ rows' = rows /\ sends' = sends \ {b}
          /\ posts' \in {posts, posts \cup {[left |-> b, touch |-> NoEvent]}}
      BY <2>1 DEF Arrive, SendFails, table
    <2>3. e \in b => InSends(e) /\ ~InSends(e)' /\ ~InPosts(e)
      BY <2>2 DEF HttpOnce, InSends
    <2>4. InSends(e)' => InSends(e) /\ e \notin b
      BY <2>2, <2>3 DEF InSends
    <2>5. InPosts(e)' => InPosts(e) \/ e \in b
      BY <2>2 DEF InPosts
    <2>6. \A q, r \in posts' : e \in q.left /\ e \in r.left => q = r
      BY <2>2, <2>3 DEF HttpOnce, InPosts
    <2>7. HttpOnce(e)' /\ (OnHttpPath(e)' => OnHttpPath(e))
      BY <1>0, <2>2, <2>3, <2>4, <2>5, <2>6 DEF HttpOnce, InBatch, OnHttpPath, InSends, InPosts
    <2> QED
      BY <1>0, <2>2, <2>7 DEF Room
  <1>2. ASSUME NEW p \in posts, NEW x \in p.left, PostInsert(p, x)
        PROVE  OnWay(e)'
    <2>1. PICK t : Resume(p, [left |-> p.left \ {x}, touch |-> t])
      BY <1>2 DEF PostInsert
    <2>2. UNCHANGED <<batch, sends>> /\ p.left \ {x} \in SUBSET p.left
      BY <1>2 DEF PostInsert, gateway
    <2>3. /\ HttpOnce(e)' /\ (OnHttpPath(e)' => OnHttpPath(e))
          /\ e = x => ~OnHttpPath(e)'
      BY <2>1, <2>2, ResumeOnce
    <2>4. /\ e # x => rows'[e] = rows[e]
          /\ e = x => rows'[e] = rows[e] + 1 /\ OnHttpPath(e)
      BY <1>2 DEF PostInsert, OnHttpPath, TypeInv, ATypeOK
    <2>5. e = x => rows[e] + 1 <= 1 + Cardinality({e} \cap Security)
      BY <2>4, Paths DEF Room
    <2> QED
      BY <1>0, <2>3, <2>4, <2>5, Paths DEF Room
  <1>3. ASSUME NEW p \in posts, PostTouch(p)
        PROVE  OnWay(e)'
    <2>1. UNCHANGED <<batch, sends, rows>> /\ Resume(p, [left |-> p.left, touch |-> NoEvent])
      BY <1>3 DEF PostTouch, gateway
    <2>2. HttpOnce(e)' /\ (OnHttpPath(e)' => OnHttpPath(e))
      BY <2>1, ResumeOnce
    <2> QED
      BY <1>0, <2>1, <2>2 DEF Room
  <1>4. ASSUME NEW p \in posts, PostFails(p)
        PROVE  OnWay(e)'
    <2>1. UNCHANGED <<batch, sends, rows>> /\ posts' = posts \ {p}
      BY <1>4 DEF PostFails, gateway, table
    <2> QED
      BY <1>0, <2>1 DEF HttpOnce, Room, OnHttpPath, InBatch, InSends, InPosts
  <1> QED
    BY <1>1, <1>2, <1>3, <1>4 DEF Portal

LEMMA ReadOnce ==
  ASSUME TypeInv, NEW e \in Events, StreamOnce(e), Read
  PROVE  StreamOnce(e)' /\ (InStream(e)' => InStream(e))
  <1>1. PICK n \in 0..Len(unread) :
          /\ consumer'.hand = {unread[i] : i \in 1..n}
          /\ Len(unread') = Len(unread) - n
          /\ \A i \in 1..Len(unread') : unread'[i] = unread[n + i]
    BY ReadSplits
  <1>2. Len(unread) \in Nat
    BY LenProperties DEF TypeInv, ATypeOK
  <1>3. \A i \in 1..Len(unread') : i \in Int /\ n + i \in 1..Len(unread) /\ n + i > n
    BY <1>1, <1>2
  <1>4. \A i, j \in 1..Len(unread') : unread'[i] = e /\ unread'[j] = e => i = j
    <2> SUFFICES ASSUME NEW i \in 1..Len(unread'), NEW j \in 1..Len(unread'),
                        unread'[i] = e, unread'[j] = e
                 PROVE  i = j
      OBVIOUS
    <2>1. n + i = n + j
      BY <1>1, <1>3 DEF StreamOnce
    <2> QED
      BY <1>3, <2>1
  <1>5. e \in consumer'.hand => Unread(e)
    BY <1>1, <1>2 DEF Unread
  <1>6. Unread(e)' => Unread(e) /\ e \notin consumer'.hand
    <2> SUFFICES ASSUME NEW i \in 1..Len(unread'), unread'[i] = e
                 PROVE  Unread(e) /\ e \notin consumer'.hand
      BY DEF Unread
    <2>1. n + i \in 1..Len(unread) /\ n + i > n /\ unread[n + i] = e
      BY <1>1, <1>3
    <2>2. ASSUME NEW m \in 1..n, unread[m] = e
          PROVE  FALSE
      BY <1>2, <2>1, <2>2 DEF StreamOnce
    <2> QED
      BY <1>1, <2>1, <2>2 DEF Unread
  <1>7. pushing' = pushing
    BY DEF Read, gateway
  <1> QED
    BY <1>4, <1>5, <1>6, <1>7 DEF StreamOnce, InStream, Pushed

LEMMA StreamStepOnce ==
  ASSUME TypeInv, NEW e \in Events, OnWay(e), Stream \/ PortalCrash
  PROVE  OnWay(e)'
  <1> USE DEF OnWay
  <1>0. UNCHANGED <<logged, batch, pushing>>
    BY DEF Stream, Consumer, Ensure, Read, Persist, Ack, ConsumerFails, StreamEvicted, PortalCrash,
           gateway
  <1>1. /\ HttpOnce(e)' /\ (OnHttpPath(e)' => OnHttpPath(e))
        /\ rows' # rows => OnHttpPath(e)' = OnHttpPath(e)
    <2>1. CASE Stream
      <3>1. UNCHANGED <<sends, posts>>
        BY <2>1 DEF Stream, Consumer, Ensure, Read, Persist, Ack, ConsumerFails, StreamEvicted
      <3> QED
        BY <1>0, <3>1 DEF HttpOnce, OnHttpPath, InBatch, InSends, InPosts
    <2>2. CASE PortalCrash
      <3>1. sends' \subseteq sends /\ posts' = {} /\ rows' = rows
        BY <2>2 DEF PortalCrash, table
      <3> QED
        BY <1>0, <3>1 DEF HttpOnce, OnHttpPath, InBatch, InSends, InPosts
    <2> QED
      BY <2>1, <2>2
  <1>2. ASSUME NEW x \in Security, Persist(x)
        PROVE  OnWay(e)'
    <2>1. unread' = unread /\ consumer'.hand = consumer.hand \ {x} /\ x \in consumer.hand
      BY <1>2, PersistLeaves DEF Persist, redis
    <2>2. /\ StreamOnce(e)' /\ (InStream(e)' => InStream(e))
          /\ e = x => InStream(e) /\ ~InStream(e)'
      BY <1>0, <2>1 DEF StreamOnce, InStream, Pushed, Unread
    <2>3. rows' = rows \/ rows' = [rows EXCEPT ![x] = @ + 1]
      BY <1>2 DEF Persist
    <2>4. rows'[e] = rows[e] \/ (e = x /\ rows'[e] = rows[e] + 1)
      BY <2>3 DEF TypeInv, ATypeOK
    <2>5. e = x => rows[e] + 1 <= 1 + Cardinality({e} \cap Security)
      BY <2>2, Paths DEF Room
    <2> QED
      BY <1>0, <1>1, <2>2, <2>4, <2>5, Paths DEF Room
  <1>3. CASE Read
    <2>1. rows' = rows
      BY <1>3 DEF Read, table
    <2> QED
      BY <1>0, <1>1, <1>3, <2>1, ReadOnce DEF Room
  <1>4. CASE Ensure \/ Ack \/ ConsumerFails \/ StreamEvicted \/ PortalCrash
    <2>1. rows' = rows /\ unread' \in {unread, <<>>} /\ consumer'.hand \subseteq consumer.hand
      BY <1>4 DEF Ensure, Ack, ConsumerFails, StreamEvicted, PortalCrash, Starting, Reading, table,
                  redis
    <2>2. Unread(e)' => Unread(e)
      BY <2>1, EmptySeq DEF Unread
    <2>3. \A i, j \in 1..Len(unread') : unread'[i] = e /\ unread'[j] = e => i = j
      BY <2>1, EmptySeq DEF StreamOnce
    <2>4. StreamOnce(e)' /\ (InStream(e)' => InStream(e))
      BY <1>0, <2>1, <2>2, <2>3 DEF StreamOnce, InStream, Pushed
    <2> QED
      BY <1>0, <1>1, <2>1, <2>4 DEF Room
  <1> QED
    BY <1>2, <1>3, <1>4 DEF Stream, Consumer

OncePerPath == \A e \in Events : OnWay(e)

LEMMA InitOnce == Init => OncePerPath
  <1> SUFFICES ASSUME Init, NEW e \in Events PROVE OnWay(e)
    BY DEF OncePerPath
  <1>1. ~OnHttpPath(e) /\ ~InStream(e) /\ rows[e] = 0
    BY EmptySeq DEF Init, OnHttpPath, InStream, Pushed, Unread, Starting
  <1>2. 0 <= 1 + Cardinality({e} \cap Security)
    BY Paths, InitTypes
  <1>3. HttpOnce(e) /\ StreamOnce(e)
    BY <1>1 DEF Init, HttpOnce, StreamOnce, OnHttpPath, InStream, InBatch, InSends, InPosts,
                Pushed, Unread
  <1> QED
    BY <1>1, <1>2, <1>3 DEF OnWay, Room

LEMMA StepOnce == TypeInv /\ OncePerPath /\ [Next]_vars => OncePerPath'
  <1> SUFFICES ASSUME TypeInv, [Next]_vars, NEW e \in Events, OnWay(e) PROVE OnWay(e)'
    BY DEF OncePerPath
  <1>1. CASE UNCHANGED vars
    BY <1>1 DEF vars, gateway, redis, table, OnWay, HttpOnce, StreamOnce, Room, OnHttpPath, InStream,
                InBatch, InSends, InPosts, Pushed, Unread
  <1> QED
    BY <1>1, Actors, WorkerOnce, PortalOnce, StreamStepOnce

LEMMA AlwaysOnce == Spec => []OncePerPath
  BY InitOnce, StepOnce, AlwaysTyped, PTL DEF Spec

\* No event gets two rows by one path, and only a security event has two paths,
\* whatever fails: nothing is sent, delivered or inserted twice (AuditPipeline).
THEOREM NoPathWritesTwice == Spec => []OneRowPerPath
  <1>1. OncePerPath => OneRowPerPath
    BY DEF OncePerPath, OnWay, Room, OneRowPerPath
  <1> QED
    BY <1>1, AlwaysOnce, PTL

-----------------------------------------------------------------------------
(* last_used_at.                                                           *)

\* A call that is owed its UPDATE has its row already.
Justified ==
  /\ TouchedIsRecorded
  /\ \A p \in posts : p.touch # NoEvent => rows[p.touch] > 0

LEMMA RowsStay ==
  ASSUME TypeInv, [Next]_vars, NEW e \in Events
  PROVE  rows'[e] \in Nat /\ rows'[e] >= rows[e]
  <1>1. rows[e] \in Nat
    BY DEF TypeInv, ATypeOK
  <1>2. rows' = rows \/ \E x \in Events : rows' = [rows EXCEPT ![x] = @ + 1]
    <2>1. CASE \E w \in Workers : Worker(w)
      BY <2>1, WorkerHands
    <2>2. CASE Portal
      BY <2>2 DEF Portal, Arrive, SendFails, PostInsert, PostTouch, PostFails, table, TypeInv,
                  ATypeOK, Post
    <2>3. CASE Stream \/ PortalCrash \/ UNCHANGED vars
      BY <2>3, AuditAssumption
      DEF Stream, Consumer, Ensure, Read, Persist, Ack, ConsumerFails, StreamEvicted, PortalCrash,
          vars, table
    <2> QED
      BY <2>1, <2>2, <2>3, Actors
  <1> QED
    BY <1>1, <1>2 DEF TypeInv, ATypeOK

LEMMA StepJustified == TypeInv /\ Justified /\ [Next]_vars => Justified'
  <1> SUFFICES ASSUME TypeInv, Justified, [Next]_vars PROVE Justified'
    OBVIOUS
  <1>0. ASSUME NEW e \in Events, rows[e] > 0
        PROVE  rows'[e] > 0
    <2>1. rows[e] \in Nat
      BY DEF TypeInv, ATypeOK
    <2>2. rows'[e] \in Nat /\ rows'[e] >= rows[e]
      BY RowsStay
    <2> QED
      BY <1>0, <2>1, <2>2
  <1>1. \A p \in posts : p.touch \in Events \cup {NoEvent} /\ p.left \subseteq Events
    BY DEF TypeInv, ATypeOK, Post
  <1>2. touched \subseteq Events
    BY DEF TypeInv, ATypeOK
  <1>3. ASSUME NEW p \in posts, NEW e \in p.left, PostInsert(p, e)
        PROVE  Justified'
    <2>1. touched' = touched /\ rows'[e] = rows[e] + 1 /\ rows[e] \in Nat
      BY <1>1, <1>3 DEF PostInsert, TypeInv, ATypeOK
    <2>2. \A q \in posts' : q \in posts \/ q.touch \in {e, NoEvent}
      BY <1>3 DEF PostInsert, Resume
    <2> QED
      BY <1>0, <1>1, <1>2, <2>1, <2>2 DEF Justified, TouchedIsRecorded
  <1>4. ASSUME NEW p \in posts, PostTouch(p)
        PROVE  Justified'
    <2>1. touched' = touched \cup {p.touch} /\ p.touch # NoEvent
      BY <1>4 DEF PostTouch
    <2>2. \A q \in posts' : q \in posts \/ q.touch = NoEvent
      BY <1>4 DEF PostTouch, Resume
    <2> QED
      BY <1>0, <1>1, <1>2, <2>1, <2>2 DEF Justified, TouchedIsRecorded
  <1>5. ASSUME touched' = touched, \A q \in posts' : q \in posts \/ q.touch = NoEvent
        PROVE  Justified'
    BY <1>0, <1>1, <1>2, <1>5 DEF Justified, TouchedIsRecorded
  <1>6. CASE \E w \in Workers : Worker(w)
    BY <1>5, <1>6 DEF Worker, Log, Push, PeriodicFlush, Reschedule, WorkerExit, table
  <1>7. CASE \E b \in sends : Arrive(b) \/ SendFails(b)
    BY <1>5, <1>7 DEF Arrive, SendFails, table
  <1>8. CASE \E p \in posts : PostFails(p)
    BY <1>5, <1>8 DEF PostFails, table
  <1>9. CASE Stream \/ PortalCrash \/ UNCHANGED vars
    BY <1>5, <1>9
    DEF Stream, Consumer, Ensure, Read, Persist, Ack, ConsumerFails, StreamEvicted, PortalCrash,
        vars, table
  <1> QED
    BY <1>3, <1>4, <1>6, <1>7, <1>8, <1>9, Actors DEF Portal

\* last_used_at moves only for a call that has its row (PostTouch after PostInsert).
THEOREM UsesAreRecorded == Spec => []TouchedIsRecorded
  <1>1. Init => Justified
    BY DEF Init, Justified, TouchedIsRecorded
  <1>2. Justified => TouchedIsRecorded
    BY DEF Justified
  <1> QED
    BY <1>1, <1>2, AlwaysTyped, StepJustified, PTL DEF Spec

-----------------------------------------------------------------------------
(* The consumer's acknowledgements.                                        *)

\* What the consumer is about to acknowledge has its row.
DoneRecorded == \A e \in consumer.done : rows[e] > 0

LEMMA StepDone == TypeInv /\ DoneRecorded /\ [Next]_vars => DoneRecorded'
  <1> SUFFICES ASSUME TypeInv, DoneRecorded, [Next]_vars, NEW e \in consumer'.done
               PROVE  rows'[e] > 0
    BY DEF DoneRecorded
  <1>1. ASSUME e \in consumer.done
        PROVE  rows'[e] > 0
    <2>1. e \in Events /\ rows[e] \in Nat /\ rows[e] > 0
      BY <1>1, AuditAssumption DEF DoneRecorded, TypeInv, ATypeOK
    <2>2. rows'[e] \in Nat /\ rows'[e] >= rows[e]
      BY <2>1, RowsStay
    <2> QED
      BY <2>1, <2>2
  <1>2. ASSUME NEW x \in Security, Persist(x)
        PROVE  rows'[e] > 0
    <2>1. CASE e \in consumer.done
      BY <1>1, <2>1
    <2>2. CASE e \notin consumer.done
      <3>1. consumer' # [consumer EXCEPT !.hand = @ \ {x}]
        BY <2>2 DEF TypeInv, ATypeOK
      <3>2. /\ rows' = [rows EXCEPT ![x] = @ + 1]
            /\ consumer' = [consumer EXCEPT !.hand = @ \ {x}, !.done = @ \cup {x}]
        BY <1>2, <3>1 DEF Persist
      <3>3. e = x
        BY <2>2, <3>2 DEF TypeInv, ATypeOK
      <3>4. x \in Events /\ rows[x] \in Nat
        BY AuditAssumption DEF TypeInv, ATypeOK
      <3> QED
        BY <3>2, <3>3, <3>4 DEF TypeInv, ATypeOK
    <2> QED
      BY <2>1, <2>2
  <1>3. CASE consumer' = consumer
    BY <1>1, <1>3
  <1>4. CASE consumer'.done = {}
    BY <1>4
  <1>5. CASE Stream
    BY <1>2, <1>3, <1>4, <1>5, ReadSplits
    DEF Stream, Consumer, Ensure, Read, Ack, ConsumerFails, StreamEvicted, Reading
  <1>6. CASE PortalCrash
    BY <1>4, <1>6 DEF PortalCrash, Starting
  <1>7. CASE (\E w \in Workers : Worker(w)) \/ Portal
    BY <1>3, <1>7 DEF Worker, Log, Push, PeriodicFlush, Reschedule, WorkerExit, Portal, Arrive,
           SendFails, PostTouch, PostFails, PostInsert
  <1>8. CASE UNCHANGED vars
    BY <1>3, <1>8 DEF vars
  <1> QED
    BY <1>5, <1>6, <1>7, <1>8, Actors

LEMMA AlwaysDone == Spec => []DoneRecorded
  <1>1. Init => DoneRecorded
    BY DEF Init, DoneRecorded, Starting
  <1> QED
    BY <1>1, AlwaysTyped, StepDone, PTL DEF Spec

Drops == \A e \in pel \ pel' : rows[e] > 0 \/ ~group'

\* An entry leaves the pending list only with its row written, or with the
\* stream itself (AuditPipeline).
THEOREM AcksAreRecorded == Spec => AckedIsRecorded
  <1>1. DoneRecorded /\ [Next]_vars => [Drops]_vars
    <2> SUFFICES ASSUME DoneRecorded, [Next]_vars, vars' # vars
                 PROVE  Drops
      OBVIOUS
    <2>1. CASE Ack
      BY <2>1 DEF Ack, DoneRecorded, Drops
    <2>2. CASE StreamEvicted
      BY <2>2 DEF StreamEvicted, Drops
    <2>3. CASE pel \subseteq pel'
      BY <2>3 DEF Drops
    <2>4. (\E w \in Workers : Worker(w)) \/ Portal \/ PortalCrash => pel' = pel
      BY DEF Worker, Log, Push, PeriodicFlush, Reschedule, WorkerExit, Portal, Arrive, SendFails,
             PostTouch, PostFails, PostInsert, PortalCrash, redis
    <2>5. Stream => Ack \/ StreamEvicted \/ pel \subseteq pel'
      BY DEF Stream, Consumer, Ensure, Read, Persist, ConsumerFails, redis
    <2> QED
      BY <2>1, <2>2, <2>3, <2>4, <2>5, Actors
  <1> QED
    BY <1>1, AlwaysDone, PTL DEF Spec, AckedIsRecorded, Drops
=============================================================================
