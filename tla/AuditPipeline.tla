---------------------------- MODULE AuditPipeline ----------------------------
(***************************************************************************)
(* How an event of the gateway becomes a row of cdp.audit_log.             *)
(*                                                                         *)
(* Every event goes into the batch of its gateway worker (pat-audit), is   *)
(* posted to the portal and inserted item by item. A security event is     *)
(* also meant for the Redis stream cdp:audit:security, from which the      *)
(* portal's consumer inserts it. Neither path knows of the other. The push *)
(* to the stream is made in the log phase, where OpenResty opens no        *)
(* socket: it raises and log() ends there.                                 *)
(***************************************************************************)
EXTENDS Naturals, FiniteSets, Sequences

CONSTANTS
  Events,     \* requests whose log phase runs
  Security,   \* those classified as security events
  Workers,    \* gateway workers
  BatchSize,  \* audit_batch_size
  ReadCount,  \* BATCH_SIZE of the consumer
  MaxLen,     \* security_stream_maxlen
  MaxFaults,  \* bound: failures explored, trims of the stream among them
  ColdStart,  \* whether the consumer group may not have been created yet
  LogSockets, \* whether the runtime opens sockets in the log phase: OpenResty
              \* does not, the plugin is written as though it did
  NoEvent

ASSUME AuditAssumption ==
  /\ Security \subseteq Events
  /\ NoEvent \notin Events
  /\ BatchSize \in Nat \ {0} /\ ReadCount \in Nat \ {0} /\ MaxLen \in Nat \ {0}
  /\ MaxFaults \in Nat
  /\ ColdStart \in BOOLEAN /\ (ColdStart => MaxFaults > 0)
  /\ LogSockets \subseteq BOOLEAN

VARIABLES
  sockets,  \* what the runtime does with a socket opened in the log phase
  logged,   \* events whose log phase has begun
  batch,    \* batch[w]: _batch of the worker
  pushing,  \* pushing[w]: events the worker is adding to the stream
  timer,    \* timer[w]: the chain of periodic flushes: off, on, or busy
  sends,    \* batches on their way to the portal
  posts,    \* batches the portal is inserting
  unread,   \* stream entries after the group's last delivered one
  group,    \* whether the consumer group exists
  pel,      \* entries delivered to the consumer, not acknowledged
  consumer, \* the coroutine run_consumer
  rows,     \* rows[e]: rows of cdp.audit_log for the event
  touched,  \* calls that have set last_used_at of their token
  faults

gateway  == <<sockets, logged, batch, pushing, timer>>
redis    == <<unread, group, pel>>
table    == <<rows, touched>>
vars == <<gateway, sends, posts, redis, consumer, table, faults>>

Post     == [left : SUBSET Events, touch : Events \cup {NoEvent}]
Starting == [pc |-> "ensure", hand |-> {}, done |-> {}]
Reading  == [pc |-> "read", hand |-> {}, done |-> {}]

ATypeOK ==
  /\ sockets \in LogSockets
  /\ logged \subseteq Events
  /\ batch \in [Workers -> SUBSET Events]
  /\ pushing \in [Workers -> SUBSET Security]
  /\ timer \in [Workers -> {"off", "on", "busy"}]
  /\ sends \subseteq SUBSET Events
  /\ posts \subseteq Post
  /\ unread \in Seq(Security)
  /\ group \in BOOLEAN
  /\ pel \subseteq Security
  /\ consumer \in [pc : {"ensure", "read", "persist"}, hand : SUBSET Security,
                   done : SUBSET Security]
  /\ rows \in [Events -> Nat]
  /\ touched \subseteq Events \ Security
  /\ faults \in 0..MaxFaults

Init ==
  /\ sockets \in LogSockets
  /\ logged   = {}
  /\ batch    = [w \in Workers |-> {}]
  /\ pushing  = [w \in Workers |-> {}]
  /\ timer    = [w \in Workers |-> "off"]
  /\ sends    = {}
  /\ posts    = {}
  /\ unread   = <<>>
  /\ group \in {TRUE, ~ColdStart}
  /\ pel      = {}
  /\ consumer = Starting
  /\ rows     = [e \in Events |-> 0]
  /\ touched  = {}
  /\ faults   = IF group THEN 0 ELSE 1

Fault == faults < MaxFaults /\ faults' = faults + 1
Sound == UNCHANGED faults

-----------------------------------------------------------------------------
(* The gateway worker.                                                     *)

\* Mutant of Handoff: the batch is handed to the flush and kept.
HandoffKeeps(w, b) ==
  /\ batch' = [batch EXCEPT ![w] = b]
  /\ timer' = [timer EXCEPT ![w] = IF @ = "off" THEN "on" ELSE @]
  /\ sends' = IF Cardinality(b) >= BatchSize THEN sends \cup {b} ELSE sends

\* The end of log(): start the periodic flush once per worker, and flush at
\* the size limit.
Handoff(w, b) ==
  LET full == Cardinality(b) >= BatchSize
  IN  /\ batch' = [batch EXCEPT ![w] = IF full THEN {} ELSE b]
      /\ timer' = [timer EXCEPT ![w] = IF @ = "off" THEN "on" ELSE @]
      /\ sends' = IF full THEN sends \cup {b} ELSE sends

\* take_batch() is evaluated before ngx.timer.at runs, so a timer that cannot
\* be scheduled takes the batch with it.
Unscheduled(w, b) ==
  LET full == Cardinality(b) >= BatchSize
  IN  /\ full \/ timer[w] = "off"
      /\ batch' = [batch EXCEPT ![w] = IF full THEN {} ELSE b]
      /\ UNCHANGED <<timer, sends>>

Trigger(w, b) == \/ Handoff(w, b) /\ Sound
                 \/ Unscheduled(w, b) /\ Fault

\* A security event is added to the stream within log(). Where no socket
\* opens, that raises: the event stays in the batch and log() ends, before the
\* periodic flush and the size limit are looked at.
Log(w, e) ==
  /\ e \notin logged
  /\ logged' = logged \cup {e}
  /\ \/ /\ e \in Security
        /\ batch' = [batch EXCEPT ![w] = @ \cup {e}]
        /\ pushing' = [pushing EXCEPT ![w] = @ \cup (IF sockets THEN {e} ELSE {})]
        /\ UNCHANGED <<timer, sends, faults>>
     \/ /\ e \notin Security
        /\ Trigger(w, batch[w] \cup {e})
        /\ UNCHANGED pushing
  /\ UNCHANGED <<sockets, posts, redis, consumer, table>>

\* push_security_event returns: the entry is in the stream, or it is not and
\* only a warning says so. XADD ... MAXLEN ~ n: when there are more than n
\* entries the oldest may go. Then log() goes on.
Push(w, e) ==
  /\ e \in pushing[w]
  /\ pushing' = [pushing EXCEPT ![w] = @ \ {e}]
  /\ \/ unread' = Append(unread, e) /\ Trigger(w, batch[w])
     \/ /\ \/ Len(unread) >= MaxLen /\ unread' = Tail(Append(unread, e))
           \/ UNCHANGED unread
        /\ Fault /\ Handoff(w, batch[w])
  /\ UNCHANGED <<sockets, logged, posts, group, pel, consumer, table>>

\* Mutant of PeriodicFlush: it waits for a full batch.
PeriodicFlushFull(w) ==
  /\ timer[w] = "on"
  /\ Cardinality(batch[w]) >= BatchSize
  /\ sends' = sends \cup {batch[w]}
  /\ batch' = [batch EXCEPT ![w] = {}]
  /\ timer' = [timer EXCEPT ![w] = "busy"]
  /\ UNCHANGED <<sockets, logged, pushing, posts, redis, consumer, table, faults>>

PeriodicFlush(w) ==
  /\ timer[w] = "on"
  /\ batch[w] # {}
  /\ sends' = sends \cup {batch[w]}
  /\ batch' = [batch EXCEPT ![w] = {}]
  /\ timer' = [timer EXCEPT ![w] = "busy"]
  /\ UNCHANGED <<sockets, logged, pushing, posts, redis, consumer, table, faults>>

\* The next flush is scheduled when the send has returned; if that fails, the
\* next log() of the worker starts the chain again.
Reschedule(w) ==
  /\ timer[w] = "busy"
  /\ \/ timer' = [timer EXCEPT ![w] = "on"] /\ Sound
     \/ timer' = [timer EXCEPT ![w] = "off"] /\ Fault
  /\ UNCHANGED <<sockets, logged, batch, pushing, sends, posts, redis, consumer, table>>

\* The worker exits: its batch is sent if the premature timer manages to. One
\* that exits in order has no log() under way, one that is killed may have.
WorkerExit(w) ==
  /\ Fault
  /\ batch[w] \cup pushing[w] # {}
  /\ sends' \in {sends, sends \cup ({batch[w]} \ {{}})}
  /\ batch'   = [batch EXCEPT ![w] = {}]
  /\ pushing' = [pushing EXCEPT ![w] = {}]
  /\ timer'   = [timer EXCEPT ![w] = "off"]
  /\ UNCHANGED <<sockets, logged, posts, redis, consumer, table>>

-----------------------------------------------------------------------------
(* POST /internal/audit.                                                   *)

\* A failed post is not tried again.
SendFails(b) ==
  /\ b \in sends
  /\ Fault
  /\ sends' = sends \ {b}
  /\ UNCHANGED <<gateway, posts, redis, consumer, table>>

Arrive(b) ==
  /\ b \in sends
  /\ sends' = sends \ {b}
  /\ posts' = posts \cup {[left |-> b, touch |-> NoEvent]}
  /\ UNCHANGED <<gateway, redis, consumer, table, faults>>

Resume(p, q) ==
  posts' = (posts \ {p}) \cup (IF q.left = {} /\ q.touch = NoEvent THEN {} ELSE {q})

\* Mutant of PostInsert: every event counts as a use of the token.
PostInsertAny(p, e) ==
  /\ p \in posts /\ p.touch = NoEvent /\ e \in p.left
  /\ rows' = [rows EXCEPT ![e] = @ + 1]
  /\ Resume(p, [left |-> p.left \ {e}, touch |-> e])
  /\ UNCHANGED <<gateway, sends, redis, consumer, touched, faults>>

\* Mutant of PostInsert: the UPDATE comes first.
PostTouchFirst(p, e) ==
  /\ p \in posts /\ p.touch = NoEvent /\ e \in p.left
  /\ touched' = touched \cup ({e} \ Security)
  /\ Resume(p, [left |-> p.left \ {e}, touch |-> NoEvent])
  /\ UNCHANGED <<gateway, sends, redis, consumer, rows, faults>>

\* Each INSERT and each UPDATE commits by itself.
PostInsert(p, e) ==
  /\ p \in posts /\ p.touch = NoEvent /\ e \in p.left
  /\ rows' = [rows EXCEPT ![e] = @ + 1]
  /\ Resume(p, [left  |-> p.left \ {e},
                touch |-> IF e \in Security THEN NoEvent ELSE e])
  /\ UNCHANGED <<gateway, sends, redis, consumer, touched, faults>>

PostTouch(p) ==
  /\ p \in posts /\ p.touch # NoEvent
  /\ touched' = touched \cup {p.touch}
  /\ Resume(p, [left |-> p.left, touch |-> NoEvent])
  /\ UNCHANGED <<gateway, sends, redis, consumer, rows, faults>>

\* A statement raises: the rest of the batch is gone.
PostFails(p) ==
  /\ p \in posts
  /\ Fault
  /\ posts' = posts \ {p}
  /\ UNCHANGED <<gateway, sends, redis, consumer, table>>

-----------------------------------------------------------------------------
(* The stream consumer.                                                    *)

\* XGROUP CREATE with id "$" skips what the stream holds. A failure is logged
\* and the loop starts without the group.
Ensure ==
  /\ consumer.pc = "ensure"
  /\ consumer' = Reading
  /\ \/ /\ group' = TRUE
        /\ unread' = IF group THEN unread ELSE <<>>
        /\ Sound
     \/ Fault /\ UNCHANGED <<group, unread>>
  /\ UNCHANGED <<gateway, sends, posts, pel, table>>

Take(n) == IF n <= Len(unread) THEN n ELSE Len(unread)

\* XREADGROUP ">": entries never delivered before. Without the group it
\* raises, and the loop sleeps and reads again.
Read ==
  /\ consumer.pc = "read"
  /\ group /\ unread # <<>>
  /\ LET n == Take(ReadCount)
         s == {unread[i] : i \in 1..n}
     IN  /\ consumer' = [pc |-> "persist", hand |-> s, done |-> {}]
         /\ pel' = pel \cup s
         /\ unread' = SubSeq(unread, n + 1, Len(unread))
  /\ UNCHANGED <<gateway, sends, posts, group, table, faults>>

\* Mutant of Persist: the id is kept for XACK whether or not the INSERT failed.
PersistAnyway(e) ==
  /\ consumer.pc = "persist" /\ e \in consumer.hand
  /\ \/ rows' = [rows EXCEPT ![e] = @ + 1] /\ Sound
     \/ UNCHANGED rows /\ Fault
  /\ consumer' = [consumer EXCEPT !.hand = @ \ {e}, !.done = @ \cup {e}]
  /\ UNCHANGED <<gateway, sends, posts, redis, touched>>

Persist(e) ==
  /\ consumer.pc = "persist" /\ e \in consumer.hand
  /\ \/ /\ rows' = [rows EXCEPT ![e] = @ + 1]
        /\ consumer' = [consumer EXCEPT !.hand = @ \ {e}, !.done = @ \cup {e}]
        /\ Sound
     \/ /\ consumer' = [consumer EXCEPT !.hand = @ \ {e}]
        /\ Fault
        /\ UNCHANGED rows
  /\ UNCHANGED <<gateway, sends, posts, redis, touched>>

Ack ==
  /\ consumer.pc = "persist" /\ consumer.hand = {}
  /\ pel' = pel \ consumer.done
  /\ consumer' = Reading
  /\ UNCHANGED <<gateway, sends, posts, unread, group, table, faults>>

\* get_pool, acquire or XACK raises: the blanket catch goes back to reading.
ConsumerFails ==
  /\ consumer.pc = "persist"
  /\ consumer.done = {} \/ consumer.hand = {}
  /\ Fault
  /\ consumer' = Reading
  /\ UNCHANGED <<gateway, sends, posts, redis, table>>

-----------------------------------------------------------------------------

\* The portal dies and is restarted; posts under way are refused or cut off.
PortalCrash ==
  /\ Fault
  /\ posts' = {}
  /\ consumer' = Starting
  /\ \E cut \in SUBSET sends : sends' = sends \ cut
  /\ UNCHANGED <<gateway, redis, table>>

\* maxmemory-policy allkeys-lru: the stream may go, and its group with it.
StreamEvicted ==
  /\ group
  /\ Fault
  /\ unread' = <<>>
  /\ group' = FALSE
  /\ pel' = {}
  /\ UNCHANGED <<gateway, sends, posts, consumer, table>>

Gateway == \E w \in Workers :
  \/ \E e \in Events : Log(w, e) \/ Push(w, e)
  \/ PeriodicFlush(w) \/ Reschedule(w)

Posting == \/ \E b \in sends : Arrive(b)
           \/ \E p \in posts : PostTouch(p) \/ \E e \in p.left : PostInsert(p, e)

Consumer == Ensure \/ Read \/ Ack \/ (\E e \in Security : Persist(e))

Failures == \/ \E w \in Workers : WorkerExit(w)
            \/ \E b \in sends : SendFails(b)
            \/ \E p \in posts : PostFails(p)
            \/ ConsumerFails \/ PortalCrash \/ StreamEvicted

Next == Gateway \/ Posting \/ Consumer \/ Failures

Spec == Init /\ [][Next]_vars

\* Timers of a live worker fire, cosocket calls return or time out, and the
\* portal's event loop runs every ready coroutine.
Fairness ==
  /\ \A w \in Workers : /\ WF_vars(PeriodicFlush(w)) /\ WF_vars(Reschedule(w))
                        /\ \A e \in Security : WF_vars(Push(w, e))
  /\ WF_vars(Posting)
  /\ WF_vars(Consumer)

FairSpec == Spec /\ Fairness

-----------------------------------------------------------------------------

\* No path writes an event twice: a batch that is taken is gone from the
\* worker, a stream entry is read once. Only a security event, which takes
\* both paths, can have two rows, and it keeps to that under any failure.
OneRowPerPath ==
  \A e \in Events : rows[e] <= 1 + Cardinality({e} \cap Security)

\* An entry leaves the consumer's pending list only with its row written, or
\* with the stream itself: XACK names what was stored, whatever failed between
\* XREADGROUP and XACK, in this iteration or in one before.
AckedIsRecorded == [][\A e \in pel \ pel' : rows[e] > 0 \/ ~group']_vars

\* The event is in the batch of a worker that flushes by its size alone.
Waiting(e) == \E w \in Workers : e \in batch[w] /\ timer[w] = "off"

\* If nothing fails, every event is recorded in the end without later requests
\* to push it out of its batch, once its worker has the periodic flush. A
\* security event does not start the flush, nor does it make a batch full: on a
\* worker that has logged no other event it waits for one (pat-audit.lua, log).
EventRecorded ==
  \A e \in Events : (e \in logged /\ ~Waiting(e)) ~> (rows[e] > 0 \/ faults > 0)

\* last_used_at, by which BAT-CDP-04 judges a token unused, is only moved by a
\* call that has its row, whatever fails in between.
TouchedIsRecorded == \A e \in touched : rows[e] > 0
=============================================================================
