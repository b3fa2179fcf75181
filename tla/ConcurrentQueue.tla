-------------------------- MODULE ConcurrentQueue --------------------------
(***************************************************************************)
(* The top level of class ConcurrentQueue (concurrentqueue.h): which       *)
(* producer's queue a call works on.  An enqueuing thread has a            *)
(* ProducerToken, or finds its implicit producer by its thread id in a     *)
(* hash table that grows; a dequeuing thread scores the producers of the   *)
(* list, or walks the list from the place its ConsumerToken gives it.      *)
(*                                                                         *)
(* The queue of one producer is SubQueue, which Producers implements: in   *)
(* and out count its elements.  A dequeue that meets another one may come  *)
(* back with less than is there (DequeueUndo of ProducerBase).             *)
(*                                                                         *)
(* Keys of the hash tables are never removed (thread exit notification is  *)
(* compiled out) and only a thread itself inserts its id, so that probing  *)
(* finds an id where it was inserted whatever happens meanwhile; the       *)
(* positions of keys are left out, and a table is full when it has as many *)
(* keys as slots.                                                          *)
(***************************************************************************)
EXTENDS Integers, Sequences, FiniteSets, FiniteSetsExt

CONSTANTS
  Enqueuers,
  Consumers,
  INITIAL_IMPLICIT_PRODUCER_HASH_SIZE,
  EXPLICIT_CONSUMER_CONSUMPTION_QUOTA_BEFORE_ROTATE,
  MaxBulk,        \* bound: elements per bulk call
  MaxElements,    \* bound: elements enqueued
  MaxProducers    \* bound: producers created

ASSUME HashAssumption == INITIAL_IMPLICIT_PRODUCER_HASH_SIZE \in Nat \ {0}
ASSUME QueueThreadsAssumption == IsFiniteSet(Enqueuers) /\ IsFiniteSet(Consumers)
ASSUME BulkAssumption == MaxBulk \in Nat \ {0}

VARIABLES
  producers,      \* all producers, in the order of their creation
  list,           \* producerListTail: the producers linked so far, the newest last
  producerCount,
  hashes,         \* implicitProducerHash: the tables, the newest last
  implicitProducerHashCount,
  implicitProducerHashResizeInProgress,
  globalExplicitConsumerOffset,
  withToken,      \* which enqueuers and consumers use a token
  enq,            \* per enqueuer: pc and locals; token is its ProducerToken
  deq,            \* per consumer: pc and locals
  token           \* per consumer: its ConsumerToken

hashVars == <<hashes, implicitProducerHashCount, implicitProducerHashResizeInProgress>>
listVars == <<list, producerCount>>
tokenVars == <<globalExplicitConsumerOffset, token>>

None == 0         \* a null pointer; of a local also: not in use

NewProducer(t) == [isExplicit |-> withToken[t], inactive |-> FALSE, in |-> 0, out |-> 0]
NewHash(n) == [capacity |-> n, keys |-> {}, value |-> [t \in Enqueuers |-> None]]

(* An enqueuer keeps its token; a consumer's locals: the call's max, the   *)
(* elements it is still entitled to (need), the producers it has still to  *)
(* try in this pass (todo), the end of the list it loaded (tail), and the  *)
(* scores of try_dequeue. *)
NoEnq == [pc |-> "idle", token |-> None, hash |-> 0, newCount |-> 0, producer |-> None,
          pos |-> 0, count |-> 0]
NoDeq == [pc |-> "idle", max |-> 1, need |-> 0, todo |-> <<>>, tail |-> 0, first |-> FALSE,
          size |-> 0, best |-> None, bestSize |-> 0, nonEmpty |-> 0]
NoToken(i) == [initialOffset |-> i, lastKnownGlobalOffset |-> -1, itemsConsumedFromCurrent |-> 0,
               currentProducer |-> None, desiredProducer |-> None]

(* The constructors of the queue and of the consumers' tokens. *)
QueueInit ==
  /\ producers = <<>> /\ list = <<>> /\ producerCount = 0
  /\ hashes = <<NewHash(INITIAL_IMPLICIT_PRODUCER_HASH_SIZE)>>
  /\ implicitProducerHashCount = 0
  /\ implicitProducerHashResizeInProgress = FALSE
  /\ globalExplicitConsumerOffset = 0
  /\ withToken \in [Enqueuers \cup Consumers -> BOOLEAN]
  /\ enq = [t \in Enqueuers |-> NoEnq]
  /\ deq = [c \in Consumers |-> NoDeq]
  /\ token \in [Consumers -> {NoToken(i) : i \in 0 .. Cardinality(Consumers)}]
  /\ \A c, d \in Consumers : withToken[c] /\ withToken[d] /\ c # d => token[c].initialOffset # token[d].initialOffset
  /\ \A c \in Consumers : token[c].initialOffset < Cardinality({d \in Consumers : withToken[d]} \cup {c})
  /\ \A c \in Consumers : ~withToken[c] => token[c].initialOffset = 0

---------------------------------------------------------------------------

EnqStep(t, r) == enq' = [enq EXCEPT ![t] = r]
EnqGoto(t, l) == EnqStep(t, [enq[t] EXCEPT !.pc = l])
EnqReturn(t) == EnqStep(t, [NoEnq EXCEPT !.token = enq[t].token])
EnqueueVars == <<deq, tokenVars, withToken>>

Enqueued == MapThenSumSet(LAMBDA i : producers[i].in, DOMAIN producers)
Promised == MapThenSumSet(LAMBDA t : IF enq[t].pc = "signal" THEN 0 ELSE enq[t].count, Enqueuers)

(* enqueue and enqueue_bulk.  With a token: its producer. *)
Enqueue(t, n) ==
  /\ enq[t].pc = "idle"
  /\ Enqueued + Promised + n <= MaxElements
  /\ IF withToken[t]
     THEN /\ enq[t].token # None
          /\ EnqStep(t, [enq[t] EXCEPT !.pc = "put", !.count = n, !.producer = enq[t].token])
     ELSE EnqStep(t, [enq[t] EXCEPT !.pc = "lookup", !.count = n])
  /\ UNCHANGED <<producers, listVars, hashVars, EnqueueVars>>

Main(t) == hashes[enq[t].hash]

(* get_or_add_implicit_producer: look for the thread in the tables, from   *)
(* the current one back. *)
LookUp(t) ==
  /\ enq[t].pc = "lookup"
  /\ LET h == Len(hashes)
         found == {k \in 1 .. h : t \in hashes[k].keys}
         k == CHOOSE k \in found : \A j \in found : j <= k
     IN EnqStep(t, IF found = {} THEN [enq[t] EXCEPT !.pc = "count", !.hash = h]
                   ELSE [enq[t] EXCEPT !.pc = IF k = h THEN "put" ELSE "insert",
                                       !.hash = IF k = h THEN 0 ELSE h, !.producer = hashes[k].value[t]])
  /\ UNCHANGED <<producers, listVars, hashVars, EnqueueVars>>

(* Claim a slot: of a thread's new producer, or lazily of a thread that    *)
(* was found in an older table. *)
Insert(t) ==
  /\ enq[t].pc = "insert"
  /\ Cardinality(Main(t).keys) < Main(t).capacity
  /\ hashes' = [hashes EXCEPT ![enq[t].hash] = [Main(t) EXCEPT !.keys = @ \cup {t}, !.value[t] = enq[t].producer]]
  /\ EnqStep(t, [enq[t] EXCEPT !.pc = "put", !.hash = 0, !.newCount = 0])
  /\ UNCHANGED <<producers, listVars, implicitProducerHashCount, implicitProducerHashResizeInProgress, EnqueueVars>>

HashCount(t) ==
  /\ enq[t].pc = "count"
  /\ implicitProducerHashCount' = implicitProducerHashCount + 1
  /\ EnqStep(t, [enq[t] EXCEPT !.pc = "resize", !.newCount = implicitProducerHashCount + 1])
  /\ UNCHANGED <<producers, listVars, hashes, implicitProducerHashResizeInProgress, EnqueueVars>>

Half(h) == h.capacity \div 2

(* A table that is half full: try to be the one who replaces it. *)
HashTry(t) ==
  /\ enq[t].pc = "resize"
  /\ IF enq[t].newCount >= Half(Main(t)) /\ ~implicitProducerHashResizeInProgress
     THEN implicitProducerHashResizeInProgress' = TRUE /\ EnqGoto(t, "grow")
     ELSE EnqGoto(t, "room") /\ UNCHANGED implicitProducerHashResizeInProgress
  /\ UNCHANGED <<producers, listVars, hashes, implicitProducerHashCount, EnqueueVars>>

(* The capacity after doubling until the count is below its half. *)
Doubled(n, count) ==
  LET cap[k \in Nat] == IF k = 0 THEN 2 * n ELSE 2 * cap[k - 1]
  IN cap[CHOOSE k \in 0 .. count : count < cap[k] \div 2 /\ \A j \in 0 .. k - 1 : count >= cap[j] \div 2]

(* Load the current table again and replace it if it is too small; without *)
(* memory uncount the thread ... *)
HashGrow(t) ==
  /\ enq[t].pc = "grow"
  /\ LET h == hashes[Len(hashes)]
     IN IF enq[t].newCount >= Half(h)
        THEN \/ /\ hashes' = Append(hashes, NewHash(Doubled(h.capacity, enq[t].newCount)))
                /\ EnqStep(t, [enq[t] EXCEPT !.pc = "unlock", !.hash = Len(hashes) + 1])
                /\ UNCHANGED <<implicitProducerHashCount, implicitProducerHashResizeInProgress>>
             \/ /\ implicitProducerHashCount' = implicitProducerHashCount - 1
                /\ EnqStep(t, [NoEnq EXCEPT !.token = enq[t].token, !.pc = "failed"])
                /\ UNCHANGED <<hashes, implicitProducerHashResizeInProgress>>
        ELSE /\ EnqStep(t, [enq[t] EXCEPT !.pc = "unlock", !.hash = Len(hashes)])
             /\ UNCHANGED hashVars
  /\ UNCHANGED <<producers, listVars, EnqueueVars>>

(* ... and give up. *)
HashFail(t) ==
  /\ enq[t].pc = "failed"
  /\ implicitProducerHashResizeInProgress' = FALSE
  /\ EnqReturn(t)
  /\ UNCHANGED <<producers, listVars, hashes, implicitProducerHashCount, EnqueueVars>>

HashUnlock(t) ==
  /\ enq[t].pc = "unlock"
  /\ implicitProducerHashResizeInProgress' = FALSE
  /\ EnqGoto(t, "room")
  /\ UNCHANGED <<producers, listVars, hashes, implicitProducerHashCount, EnqueueVars>>

(* Mutant: a table is filled to its last slot. *)
HashRoomAll(t) ==
  /\ enq[t].pc = "room"
  /\ IF enq[t].newCount <= Main(t).capacity
     THEN EnqGoto(t, "create")
     ELSE EnqStep(t, [enq[t] EXCEPT !.pc = "resize", !.hash = Len(hashes)])
  /\ UNCHANGED <<producers, listVars, hashVars, EnqueueVars>>

(* Less than three quarters full: use the table; otherwise wait for the    *)
(* next one. *)
HashRoom(t) ==
  /\ enq[t].pc = "room"
  /\ IF enq[t].newCount < Half(Main(t)) + Main(t).capacity \div 4
     THEN EnqGoto(t, "create")
     ELSE EnqStep(t, [enq[t] EXCEPT !.pc = "resize", !.hash = Len(hashes)])
  /\ UNCHANGED <<producers, listVars, hashVars, EnqueueVars>>

---------------------------------------------------------------------------

(* The constructor of a ProducerToken: recycle_or_create_producer(true).   *)
(* (Implicit producers never become inactive.) *)
MakeToken(t) ==
  /\ withToken[t] /\ enq[t].pc = "idle" /\ enq[t].token = None
  /\ EnqStep(t, [enq[t] EXCEPT !.pc = "scan", !.pos = Len(list)])
  /\ UNCHANGED <<producers, listVars, hashVars, EnqueueVars>>

(* Mutant: the flag is tested but not taken. *)
ScanTake(t) ==
  /\ enq[t].pc = "scan"
  /\ IF enq[t].pos = 0
     THEN EnqGoto(t, "create") /\ UNCHANGED producers
     ELSE LET p == list[enq[t].pos]
          IN IF producers[p].inactive /\ producers[p].isExplicit
             THEN /\ EnqStep(t, [NoEnq EXCEPT !.token = p])
                  /\ UNCHANGED producers
             ELSE /\ EnqStep(t, [enq[t] EXCEPT !.pos = @ - 1])
                  /\ UNCHANGED producers
  /\ UNCHANGED <<listVars, hashVars, EnqueueVars>>

(* Take the next producer of the list if its token is gone. *)
Scan(t) ==
  /\ enq[t].pc = "scan"
  /\ IF enq[t].pos = 0
     THEN EnqGoto(t, "create") /\ UNCHANGED producers
     ELSE LET p == list[enq[t].pos]
          IN IF producers[p].inactive /\ producers[p].isExplicit
             THEN /\ producers' = [producers EXCEPT ![p].inactive = FALSE]
                  /\ EnqStep(t, [NoEnq EXCEPT !.token = p])
             ELSE /\ EnqStep(t, [enq[t] EXCEPT !.pos = @ - 1])
                  /\ UNCHANGED producers
  /\ UNCHANGED <<listVars, hashVars, EnqueueVars>>

(* add_producer: count a new producer, if there is memory for it, ... *)
Create(t) ==
  /\ enq[t].pc = "create"
  /\ \/ /\ Len(producers) < MaxProducers
        /\ producers' = Append(producers, NewProducer(t))
        /\ producerCount' = producerCount + 1
        /\ EnqStep(t, [enq[t] EXCEPT !.pc = "link", !.producer = Len(producers) + 1])
        /\ UNCHANGED implicitProducerHashCount
     \/ /\ implicitProducerHashCount' = implicitProducerHashCount - (IF withToken[t] THEN 0 ELSE 1)
        /\ EnqReturn(t)
        /\ UNCHANGED <<producers, producerCount>>
  /\ UNCHANGED <<list, hashes, implicitProducerHashResizeInProgress, EnqueueVars>>

(* ... and link it. *)
Link(t) ==
  /\ enq[t].pc = "link"
  /\ list' = Append(list, enq[t].producer)
  /\ IF withToken[t] THEN EnqStep(t, [NoEnq EXCEPT !.token = enq[t].producer])
     ELSE EnqGoto(t, "insert")
  /\ UNCHANGED <<producers, producerCount, hashVars, EnqueueVars>>

(* The destructor of a ProducerToken. *)
DropToken(t) ==
  /\ enq[t].pc = "idle" /\ enq[t].token # None
  /\ producers' = [producers EXCEPT ![enq[t].token].inactive = TRUE]
  /\ EnqStep(t, NoEnq)
  /\ UNCHANGED <<listVars, hashVars, EnqueueVars>>

(* The enqueue itself, or its failure. *)
Put(t) ==
  /\ enq[t].pc = "put"
  /\ \/ /\ producers' = [producers EXCEPT ![enq[t].producer].in = @ + enq[t].count]
        /\ EnqGoto(t, "signal")
     \/ /\ EnqReturn(t)
        /\ UNCHANGED producers
  /\ UNCHANGED <<listVars, hashVars, EnqueueVars>>

ProducerStep(t) ==
  \/ LookUp(t) \/ Insert(t) \/ HashCount(t) \/ HashTry(t) \/ HashGrow(t) \/ HashFail(t) \/ HashUnlock(t)
  \/ HashRoom(t) \/ Scan(t) \/ Create(t) \/ Link(t) \/ Put(t)

---------------------------------------------------------------------------

DeqStep(c, r) == deq' = [deq EXCEPT ![c] = r]
DequeueVars == <<producerCount, list, hashVars, withToken, enq>>

(* The list from position tail on back, down to i + 1; the other producers *)
(* of the list that ends at tail, from p on round to p again; and those of *)
(* the whole list, from its end. *)
Back(tail, i) == [k \in 1 .. tail - i |-> list[tail + 1 - k]]
From(tail) == Back(tail, 0)
Position(p) == CHOOSE i \in 1 .. Len(list) : list[i] = p
Others(p, tail) == From(Position(p) - 1) \o Back(tail, Position(p))
Without(p) == Back(Len(list), Position(p)) \o From(Position(p) - 1)

(* Where a pass goes on.  When the scores are known it visits the best     *)
(* producer; when it ends without what the call needs, the loop around     *)
(* try_dequeue begins another one. *)
Onward(d) ==
  LET scored == d.pc = "score" /\ (d.todo = <<>> \/ d.nonEmpty = 3)
      again == [d EXCEPT !.pc = "pass", !.todo = <<>>, !.tail = 0]
  IN IF scored THEN IF d.nonEmpty = 0 THEN again
                    ELSE [d EXCEPT !.pc = "visit", !.first = TRUE, !.todo = <<d.best>>,
                                   !.best = None, !.bestSize = 0, !.nonEmpty = 0]
     ELSE IF d.pc = "visit" /\ d.todo = <<>> THEN again
     ELSE d

(* try_dequeue with a token goes to its current producer first, after a    *)
(* rotation to the one that is its turn; without a token it scores the     *)
(* producers, and try_dequeue_bulk without a token walks the list. *)
Walk(p, n) == LET step[k \in 0 .. n] ==
                    IF k = 0 THEN p
                    ELSE LET i == Position(step[k - 1]) IN list[IF i = 1 THEN Len(list) ELSE i - 1]
              IN step[n]

Rotated(k) ==
  LET start == IF k.desiredProducer # None THEN k.desiredProducer
               ELSE Walk(list[Len(list)], producerCount - 1 - (k.initialOffset % producerCount))
      delta == globalExplicitConsumerOffset - k.lastKnownGlobalOffset
      p == Walk(start, IF delta >= producerCount THEN delta % producerCount ELSE delta)
  IN [k EXCEPT !.desiredProducer = p, !.currentProducer = p, !.itemsConsumedFromCurrent = 0,
               !.lastKnownGlobalOffset = globalExplicitConsumerOffset]

Pass(c) ==
  /\ deq[c].pc = "pass"
  /\ IF withToken[c]
     THEN LET k == token[c]
          IN IF k.desiredProducer # None /\ k.lastKnownGlobalOffset = globalExplicitConsumerOffset
             THEN /\ DeqStep(c, [deq[c] EXCEPT !.pc = "visit", !.first = TRUE, !.todo = <<k.currentProducer>>])
                  /\ UNCHANGED token
             ELSE /\ k.desiredProducer # None \/ list # <<>>   \* else the call fails and is repeated
                  /\ token' = [token EXCEPT ![c] = Rotated(k)]
                  /\ DeqStep(c, [deq[c] EXCEPT !.pc = "visit", !.first = TRUE,
                                               !.todo = <<Rotated(k).currentProducer>>])
     ELSE /\ DeqStep(c, Onward([deq[c] EXCEPT !.pc = IF deq[c].max > 1 THEN "visit" ELSE "score",
                                              !.todo = From(Len(list))]))
          /\ UNCHANGED token
  /\ UNCHANGED <<producers, globalExplicitConsumerOffset, DequeueVars>>

(* size_approx of the next producer loads its tail, ... *)
ScoreTail(c) ==
  /\ deq[c].pc = "score"
  /\ DeqStep(c, [deq[c] EXCEPT !.pc = "size", !.size = producers[Head(deq[c].todo)].in])
  /\ UNCHANGED <<producers, tokenVars, DequeueVars>>

(* ... then its head. *)
ScoreHead(c) ==
  /\ deq[c].pc = "size"
  /\ LET p == Head(deq[c].todo)
         size == deq[c].size - producers[p].out
         d == [deq[c] EXCEPT !.pc = "score", !.todo = Tail(@), !.size = 0,
                             !.nonEmpty = IF size > 0 THEN @ + 1 ELSE @]
     IN DeqStep(c, Onward(IF size > d.bestSize THEN [d EXCEPT !.best = p, !.bestSize = size] ELSE d))
  /\ UNCHANGED <<producers, tokenVars, DequeueVars>>

InPass(d) == deq[d].pc \in {"pass", "score", "size", "visit"}

(* What a dequeue of at most n from p may bring: what is there, or less    *)
(* when it races with another consumer. *)
Gains(c, p, n) ==
  LET there == producers[p].in - producers[p].out
      m == IF there < n THEN there ELSE n
  IN IF \E d \in Consumers \ {c} : InPass(d) THEN 0 .. m ELSE {m}

(* The token after n elements came from p. *)
Consumed(c, p, n) ==
  IF deq[c].first THEN [token[c] EXCEPT !.itemsConsumedFromCurrent = @ + n]
  ELSE IF n = 0 THEN token[c]
  ELSE [token[c] EXCEPT !.currentProducer = p, !.itemsConsumedFromCurrent = n]

(* Does the token's quota run out? *)
Rotates(c, n) ==
  LET items == token[c].itemsConsumedFromCurrent + n
      quota == EXPLICIT_CONSUMER_CONSUMPTION_QUOTA_BEFORE_ROTATE
  IN deq[c].first /\ (IF deq[c].max = 1 THEN items = quota ELSE items >= quota)

(* p gave n elements, too few: with a token go round the list, from p on   *)
(* again whenever p gave some; without one go on along the list, after the *)
(* best producer with the whole of it. *)
Missed(c, p, n) ==
  LET d == [deq[c] EXCEPT !.need = @ - n, !.first = FALSE]
      tail == IF d.tail = 0 THEN Len(list) ELSE d.tail
  IN IF withToken[c] /\ (deq[c].first \/ n > 0) THEN [d EXCEPT !.tail = tail, !.todo = Others(p, tail)]
     ELSE IF deq[c].first THEN [d EXCEPT !.todo = Without(p)]
     ELSE [d EXCEPT !.todo = Tail(@)]

(* dequeue or dequeue_bulk on the next producer. *)
VisitGains(c, n) ==
  LET p == Head(deq[c].todo)
  IN /\ producers' = [producers EXCEPT ![p].out = @ + n]
     /\ IF withToken[c]
        THEN /\ token' = [token EXCEPT ![c] = Consumed(c, p, n)]
             /\ globalExplicitConsumerOffset' = globalExplicitConsumerOffset
                  + (IF n = deq[c].need /\ Rotates(c, n) THEN 1 ELSE 0)
        ELSE UNCHANGED tokenVars
     /\ DeqStep(c, IF n = deq[c].need THEN NoDeq
                   ELSE Onward(Missed(c, p, n)))

Visit(c) ==
  /\ deq[c].pc = "visit"
  /\ \E n \in Gains(c, Head(deq[c].todo), deq[c].need) : VisitGains(c, n)
  /\ UNCHANGED DequeueVars

PassStep(c) == Pass(c) \/ ScoreTail(c) \/ ScoreHead(c) \/ Visit(c)

---------------------------------------------------------------------------

Uses(t) == {enq[t].token, enq[t].producer} \ {None}

(* A producer's queue has one enqueuing thread at a time: its token's      *)
(* owner, or the thread whose id leads to it in every table.  All of       *)
(* ExplicitProducer and ImplicitProducer rests on this. *)
OneProducerPerThread ==
  /\ \A t, u \in Enqueuers : t # u => Uses(t) \cap Uses(u) = {}
  /\ \A h, k \in DOMAIN hashes : \A t \in hashes[h].keys : \A u \in hashes[k].keys :
       t = u <=> hashes[h].value[t] = hashes[k].value[u]

(* "Not an infinite loop because at least one slot is free": every table   *)
(* keeps a free slot, with room for the threads about to insert. *)
TablesHaveRoom ==
  \A h \in DOMAIN hashes :
    Cardinality(hashes[h].keys \cup {t \in Enqueuers : enq[t].pc = "insert" /\ enq[t].hash = h})
      < hashes[h].capacity

=============================================================================
