------------------------------ MODULE AlertBus ------------------------------
(***************************************************************************)
(* The alert bus (monitoring/alerts.py): emit() puts an event on a bounded *)
(* queue unless one of its cooldown key was emitted a moment ago, and one  *)
(* task takes the events in turn and posts each part of each to every      *)
(* channel that is configured.                                             *)
(*                                                                         *)
(* Abstractions: an event is its number of messages and a serial number,   *)
(* counted modulo Serials, more than the events that can be told apart at  *)
(* any time.  Cooldown ages are ticks of the monotonic clock.              *)
(***************************************************************************)
EXTENDS Naturals, Sequences

CONSTANTS
  Channels,       \* those configured, in the order they are posted to
  QueueSize,      \* asyncio.Queue(maxsize=512)
  AlertCooldown,  \* alert_cooldown_sec, in ticks
  CooldownKeys,   \* event types, with what emit() adds to tell them apart
  NoCooldown      \* those that bypass the cooldown: circuit_breaker

ASSUME BusAssumption ==
  /\ Channels \in Seq({"discord", "telegram"}) /\ Len(Channels) > 0
  /\ QueueSize \in Nat \ {0}
  /\ AlertCooldown \in Nat
  /\ NoCooldown \subseteq CooldownKeys

VARIABLES
  bus,       \* [age, queue, serial]: cooldowns, queue, last event accepted
  worker,    \* the task: Idle, or the post it awaits
  shutdown   \* "no"; "stopping" while the task waits for an event, "finishing"
             \* once it posts its last; "ended" (the task), "closed"

busVars == <<bus, worker, shutdown>>

Serials == QueueSize + 2
Follows(serial) == (serial + 1) % Serials

Post == [serial : 0..Serials - 1, parts : 1..2, part : 1..2, channel : 1..Len(Channels)]
Idle == [serial |-> 0, parts |-> 0, part |-> 0, channel |-> 0]

\* Nothing was emitted yet: last times read as 0, the start of the host.
NewBus(uptime, serial) ==
  [age |-> [k \in CooldownKeys |-> uptime], queue |-> << >>, serial |-> serial]

BusInit ==
  /\ \E uptime \in 0..AlertCooldown : bus = NewBus(uptime, 0)
  /\ worker = Idle
  /\ shutdown = "no"

\* Mutation: the queue has no bound.
EmittedUnbounded(b, key, parts) ==
  LET muted  == key \notin NoCooldown /\ b.age[key] < AlertCooldown
      marked == IF key \in NoCooldown THEN b.age ELSE [b.age EXCEPT ![key] = 0]
      next   == Follows(b.serial)
  IN  IF muted THEN b
      ELSE [age    |-> marked,
            queue  |-> Append(b.queue, [serial |-> next, parts |-> parts]),
            serial |-> next]

\* emit(): the cooldown starts over even when the queue turns out to be full.
Emitted(b, key, parts) ==
  LET muted  == key \notin NoCooldown /\ b.age[key] < AlertCooldown
      marked == IF key \in NoCooldown THEN b.age ELSE [b.age EXCEPT ![key] = 0]
      next   == Follows(b.serial)
  IN  IF muted THEN b
      ELSE IF Len(b.queue) = QueueSize THEN [b EXCEPT !.age = marked]
      ELSE [age    |-> marked,
            queue  |-> Append(b.queue, [serial |-> next, parts |-> parts]),
            serial |-> next]

Aged(b) ==
  [b EXCEPT !.age = [k \in CooldownKeys |-> IF @[k] < AlertCooldown THEN @[k] + 1
                                                                    ELSE @[k]]]

-----------------------------------------------------------------------------
(* The dispatching task *)

Posting == worker # Idle

\* The task looks at the flag before it waits for an event, so one that waits
\* when the bus is stopped may take one more.
Take ==
  /\ worker = Idle
  /\ shutdown \in {"no", "stopping"}
  /\ bus.queue # << >>
  /\ LET event == Head(bus.queue)
     IN  worker' = [serial |-> event.serial, parts |-> event.parts,
                    part |-> 1, channel |-> 1]
  /\ bus' = [bus EXCEPT !.queue = Tail(@)]
  /\ shutdown' = IF shutdown = "stopping" THEN "finishing" ELSE shutdown

\* Mutation: after the last channel the message is posted all over again.
PostEndsOver ==
  /\ Posting
  /\ worker' = [worker EXCEPT !.channel = 1 + (@ % Len(Channels))]
  /\ UNCHANGED <<bus, shutdown>>

\* A post returns, or fails with an HTTP status or a ClientError that is
\* logged: on to the next channel, then to the next message of the event.
PostEnds ==
  /\ Posting
  /\ worker' = IF worker.channel < Len(Channels)
               THEN [worker EXCEPT !.channel = @ + 1]
               ELSE IF worker.part < worker.parts
               THEN [worker EXCEPT !.part = @ + 1, !.channel = 1]
               ELSE Idle
  /\ UNCHANGED <<bus, shutdown>>

\* A timeout is no ClientError: what is left of the event is abandoned.
PostTimesOut ==
  /\ Posting
  /\ worker' = Idle
  /\ UNCHANGED <<bus, shutdown>>

-----------------------------------------------------------------------------
(* stop() *)

StopBus ==
  /\ shutdown = "no"
  /\ shutdown' = IF Posting THEN "finishing" ELSE "stopping"
  /\ UNCHANGED <<bus, worker>>

Stopping == shutdown \in {"stopping", "finishing"}

\* The task sees the flag: after its event, or when its wait of a second is over.
WorkerEnds ==
  /\ Stopping
  /\ ~Posting
  /\ shutdown' = "ended"
  /\ UNCHANGED <<bus, worker>>

\* A task that is still posting after five seconds is cancelled.
WorkerCancelled ==
  /\ shutdown = "finishing"
  /\ Posting
  /\ worker' = Idle
  /\ shutdown' = "ended"
  /\ UNCHANGED bus

\* Mutation: the session is closed without waiting for the task.
CloseAtOnce ==
  /\ Stopping
  /\ shutdown' = "closed"
  /\ UNCHANGED <<bus, worker>>

CloseSession ==
  /\ shutdown = "ended"
  /\ shutdown' = "closed"
  /\ UNCHANGED <<bus, worker>>

BusNext ==
  \/ Take
  \/ PostEnds
  \/ PostTimesOut
  \/ StopBus
  \/ WorkerEnds
  \/ WorkerCancelled
  \/ CloseSession

\* The event loop resumes the task, and a post ends within its ten seconds.
BusFairness == WF_busVars(Take) /\ WF_busVars(PostEnds \/ PostTimesOut)

-----------------------------------------------------------------------------
(* Properties *)

BusTypeOK ==
  /\ bus.age \in [CooldownKeys -> 0..AlertCooldown]
  /\ bus.queue \in Seq([serial : 0..Serials - 1, parts : 1..2])
  /\ Len(bus.queue) <= QueueSize
  /\ bus.serial \in 0..Serials - 1
  /\ Posting => worker \in Post
  /\ shutdown \in {"no", "stopping", "finishing", "ended", "closed"}

\* No post is under way on a closed session: stop() waits for
\* the task, or cancels it, before it closes the session (alerts.py:121-130).
ClosedIsQuiet == shutdown = "closed" => ~Posting

\* An accepted alert does not stay in the queue while the bot runs, however
\* the posts before it end.
QueuedIsTaken ==
  \A k \in 0..Serials - 1 :
    (\E i \in DOMAIN bus.queue : bus.queue[i].serial = k)
      ~> (shutdown # "no" \/ ~\E i \in DOMAIN bus.queue : bus.queue[i].serial = k)
=============================================================================
