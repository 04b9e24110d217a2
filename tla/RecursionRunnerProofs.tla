------------------------ MODULE RecursionRunnerProofs ------------------------
(***************************************************************************)
(* Proofs about the recursion guard, for every depth limit, inline budget, *)
(* number of nodes and number of calls of RecursionRunner.run, in the      *)
(* local process and in the function.                                      *)
(*                                                                         *)
(* The argument counts.  Every node that was dispatched and has not        *)
(* settled has exactly one event on its way, unless the event was lost or  *)
(* the node waits for an approval; a run planned as a whole has exactly    *)
(* one.  An empty queue is therefore accounted for, and a completed run    *)
(* has no event left that could change its verdict.                        *)
(***************************************************************************)
EXTENDS RecursionRunner, FiniteSetTheorems, SequenceTheorems, TLAPS

-----------------------------------------------------------------------------
(***************************************************************************)
(* The inductive invariant.                                                *)
(***************************************************************************)
NodeKind    == {"task", "node_action", "completed"}
PlanKind    == {"action", "replan"}
QueuedEvent == [id : 1 .. MaxEvents, kind : Kind, depth : 0 .. MaxDepth + InlineBudget + 1]

Elements(q) == {q[i] : i \in 1 .. Len(q)}
Queued      == Elements(queue)

\* Events differ by their ids; only the seed may be on the queue twice.
Distinct(q) ==
    \A i, j \in 1 .. Len(q) : q[i].id = q[j].id /\ i # j => q[i] = Seed /\ q[j] = Seed

\* Ids are new when they are given, and only the seed is a domain event; an
\* event on the queue was not handled before.
EventsFit ==
    /\ queue \in Seq(QueuedEvent)
    /\ Distinct(queue)
    /\ \A e \in Queued :
          /\ e.id < nextId
          /\ e.kind = "domain" \/ e.id = 1 => e = Seed
          /\ e # Seed => e.id \notin seen
    /\ \A x \in seen : x < nextId

\* What is lost belongs to a node.  It is gone, except for the message of the
\* function whose failure could not be reported, and that one is too deep.
LostFits ==
    /\ \A e \in lost : e \in QueuedEvent /\ e.kind \in NodeKind /\ e.id < nextId
    /\ \A e \in Queued \cap lost : mode = "function" /\ e.depth > MaxDepth

ModeFits == mode = "function" => seen = {} /\ processed = 0 /\ ~looping

Unhandled ==
    \/ mode = "process" /\ 1 \notin seen
    \/ mode = "function" /\ Seed \in Queued

\* The seed is the first event.
SeedFirst ==
    Unhandled =>
        /\ run = "running" /\ waiting = NumNodes
        /\ queue = <<Seed>> \/ (queue = <<>> /\ mode = "process" /\ runs = 0)

\* And when it is run again, it is the first event of the call, unless an
\* earlier call ended in an exception.
SeedAlone ==
    mode = "process" /\ lost = {} =>
        /\ ~looping => queue = <<>>
        /\ Seed \in Queued => queue = <<Seed>> /\ processed = 0

\* A run is orchestrated or planned as a whole.
OneWay ==
    /\ waiting = NumNodes =>
          /\ open = 0 /\ ~paused /\ lost = {}
          /\ \A e \in Queued : e.kind \notin NodeKind
    /\ waiting < NumNodes => \A e \in Queued : e.kind \notin PlanKind
    /\ \A e, f \in Queued : e.kind \in PlanKind /\ f.kind \in PlanKind => e = f

\* The events that drive the nodes on.
Live == {e \in Queued : e.kind \in NodeKind /\ e \notin lost}

Counted ==
    /\ IsFiniteSet(Live)
    /\ Cardinality(Live) <= open
    /\ open + waiting <= NumNodes
    /\ paused \/ lost # {} => Cardinality(Live) < open
    /\ run = "running" /\ ~paused /\ lost = {} => Cardinality(Live) = open

Decided ==
    /\ run = "completed" => open = 0 /\ \A e \in Queued : e.kind \notin PlanKind
    /\ run = "running" /\ waiting = NumNodes =>
          Unhandled \/ \E e \in Queued : e.kind = "action"
    /\ run = "running" /\ waiting < NumNodes /\ ~paused /\ lost = {} => open > 0

IInv ==
    /\ TypeOK
    /\ EventsFit /\ LostFits /\ ModeFits
    /\ SeedFirst /\ SeedAlone
    /\ OneWay /\ Counted /\ Decided

-----------------------------------------------------------------------------
(***************************************************************************)
(* The queue.                                                              *)
(***************************************************************************)
\* Taking an event off the queue: the others stay, in their order.
LEMMA Taken ==
    ASSUME queue \in Seq(QueuedEvent), Distinct(queue), NEW i \in 1 .. Len(queue)
    PROVE  /\ Without(i) \in Seq(QueuedEvent)
           /\ Distinct(Without(i))
           /\ Elements(Without(i)) \subseteq Queued
           /\ Queued \ {queue[i]} \subseteq Elements(Without(i))
           /\ queue[i] # Seed => queue[i] \notin Elements(Without(i))
           /\ Len(queue) = 1 => Without(i) = <<>>
<1> DEFINE n == Len(queue)
           a == SubSeq(queue, 1, i - 1)
           b == SubSeq(queue, i + 1, n)
<1>1. n \in Nat /\ i \in Int /\ \A j \in 1 .. n : queue[j] \in QueuedEvent
  BY LenProperties, ElementOfSeq
<1>2. /\ a \in Seq(QueuedEvent) /\ Len(a) = i - 1
      /\ \A j \in 1 .. i - 1 : a[j] = queue[j]
  <2>1. \A j \in 1 .. i - 1 : queue[j] \in QueuedEvent
    BY <1>1
  <2>2. /\ SubSeq(queue, 1, i - 1) \in Seq(QueuedEvent)
        /\ Len(SubSeq(queue, 1, i - 1)) = IF 1 <= i - 1 THEN (i - 1) - 1 + 1 ELSE 0
        /\ \A j \in 1 .. (i - 1) - 1 + 1 : SubSeq(queue, 1, i - 1)[j] = queue[1 + j - 1]
    BY <1>1, <2>1, SubSeqProperties
  <2> QED
    BY <1>1, <2>2
<1>3. /\ b \in Seq(QueuedEvent) /\ Len(b) = n - i
      /\ \A j \in 1 .. n - i : b[j] = queue[i + j]
  <2>1. \A j \in i + 1 .. n : queue[j] \in QueuedEvent
    BY <1>1
  <2>2. /\ SubSeq(queue, i + 1, n) \in Seq(QueuedEvent)
        /\ Len(SubSeq(queue, i + 1, n)) = IF i + 1 <= n THEN n - (i + 1) + 1 ELSE 0
        /\ \A j \in 1 .. n - (i + 1) + 1 : SubSeq(queue, i + 1, n)[j] = queue[(i + 1) + j - 1]
    BY <1>1, <2>1, SubSeqProperties
  <2> QED
    BY <1>1, <2>2
<1> HIDE DEF a, b
<1>4. /\ a \o b \in Seq(QueuedEvent) /\ Len(a \o b) = n - 1
      /\ \A j \in 1 .. n - 1 : (a \o b)[j] = IF j < i THEN queue[j] ELSE queue[j + 1]
  <2>1. /\ a \o b \in Seq(QueuedEvent) /\ Len(a \o b) = Len(a) + Len(b)
        /\ \A j \in 1 .. Len(a) + Len(b) :
              (a \o b)[j] = IF j <= Len(a) THEN a[j] ELSE b[j - Len(a)]
    BY <1>2, <1>3, ConcatProperties
  <2>2. ASSUME NEW j \in 1 .. n - 1
        PROVE  (a \o b)[j] = IF j < i THEN queue[j] ELSE queue[j + 1]
    <3>1. j \in 1 .. Len(a) + Len(b) /\ Len(a) = i - 1
      BY <1>1, <1>2, <1>3
    <3>2. CASE j < i
      <4>1. j <= Len(a) /\ j \in 1 .. i - 1
        BY <1>1, <3>1, <3>2
      <4> QED
        BY <1>2, <2>1, <3>1, <3>2, <4>1
    <3>3. CASE ~(j < i)
      <4>1. ~(j <= Len(a)) /\ j - Len(a) \in 1 .. n - i /\ i + (j - Len(a)) = j + 1
        BY <1>1, <3>1, <3>3
      <4> QED
        BY <1>3, <2>1, <3>1, <3>3, <4>1
    <3> QED
      BY <3>2, <3>3
  <2> QED
    BY <1>1, <1>2, <1>3, <2>1, <2>2
<1>5. Without(i) = a \o b
  BY DEF a, b, Without
<1> DEFINE w == Without(i)
<1>6. /\ w \in Seq(QueuedEvent) /\ Len(w) = n - 1
      /\ \A j \in 1 .. n - 1 : w[j] = IF j < i THEN queue[j] ELSE queue[j + 1]
  BY <1>4, <1>5
<1> HIDE DEF w
<1>7. Distinct(w)
  <2> SUFFICES ASSUME NEW j \in 1 .. Len(w), NEW k \in 1 .. Len(w), w[j].id = w[k].id, j # k
               PROVE  w[j] = Seed /\ w[k] = Seed
    BY DEF Distinct
  <2> DEFINE J == IF j < i THEN j ELSE j + 1
             K == IF k < i THEN k ELSE k + 1
  <2>1. J \in 1 .. n /\ K \in 1 .. n /\ J # K /\ w[j] = queue[J] /\ w[k] = queue[K]
    BY <1>1, <1>6
  <2> HIDE DEF J, K
  <2> QED
    BY <2>1 DEF Distinct
<1>8. Elements(w) \subseteq Queued
  BY <1>1, <1>6 DEF Elements, Queued
<1>9. Queued \ {queue[i]} \subseteq Elements(w)
  <2> SUFFICES ASSUME NEW j \in 1 .. n, j # i
               PROVE  queue[j] \in Elements(w)
    BY DEF Elements, Queued
  <2>1. CASE j < i
    BY <1>1, <1>6, <2>1 DEF Elements
  <2>2. CASE j > i
    <3>1. j - 1 \in 1 .. n - 1 /\ w[j - 1] = queue[j]
      BY <1>1, <1>6, <2>2
    <3> QED
      BY <1>6, <3>1 DEF Elements
  <2> QED
    BY <1>1, <2>1, <2>2
<1>10. ASSUME queue[i] # Seed PROVE queue[i] \notin Elements(w)
  <2> SUFFICES ASSUME NEW j \in 1 .. n - 1, w[j] = queue[i]
               PROVE  FALSE
    BY <1>6 DEF Elements
  <2> DEFINE J == IF j < i THEN j ELSE j + 1
  <2>1. J \in 1 .. n /\ J # i /\ w[j] = queue[J]
    BY <1>1, <1>6
  <2> HIDE DEF J
  <2> QED
    BY <1>10, <2>1 DEF Distinct
<1>11. ASSUME n = 1 PROVE w = <<>>
  BY <1>6, <1>11, EmptySeq
<1> QED
  BY <1>6, <1>7, <1>8, <1>9, <1>10, <1>11 DEF w

\* Putting events with new ids on the queue.
LEMMA Joined ==
    ASSUME NEW q \in Seq(QueuedEvent), NEW r \in Seq(QueuedEvent), Distinct(q), Distinct(r),
           \A e \in Elements(q), f \in Elements(r) : e.id # f.id
    PROVE  /\ q \o r \in Seq(QueuedEvent)
           /\ Distinct(q \o r)
           /\ Elements(q \o r) = Elements(q) \cup Elements(r)
<1> DEFINE c == q \o r
<1>1. /\ Len(q) \in Nat /\ Len(r) \in Nat
      /\ c \in Seq(QueuedEvent) /\ Len(c) = Len(q) + Len(r)
      /\ \A i \in 1 .. Len(c) : c[i] = IF i <= Len(q) THEN q[i] ELSE r[i - Len(q)]
  BY LenProperties, ConcatProperties
<1> HIDE DEF c
<1>2. \A i \in 1 .. Len(q) : q[i] \in Elements(q)
  BY DEF Elements
<1>3. \A i \in 1 .. Len(r) : r[i] \in Elements(r)
  BY DEF Elements
<1>4. Distinct(c)
  <2> SUFFICES ASSUME NEW i \in 1 .. Len(c), NEW j \in 1 .. Len(c), c[i].id = c[j].id, i # j
               PROVE  c[i] = Seed /\ c[j] = Seed
    BY DEF Distinct
  <2>1. CASE i <= Len(q) /\ j <= Len(q)
    BY <1>1, <2>1 DEF Distinct
  <2>2. CASE ~(i <= Len(q)) /\ ~(j <= Len(q))
    <3>1. /\ i - Len(q) \in 1 .. Len(r) /\ j - Len(q) \in 1 .. Len(r) /\ i - Len(q) # j - Len(q)
          /\ c[i] = r[i - Len(q)] /\ c[j] = r[j - Len(q)]
      BY <1>1, <2>2
    <3> QED
      BY <3>1 DEF Distinct
  <2>3. CASE i <= Len(q) /\ ~(j <= Len(q))
    <3>1. i \in 1 .. Len(q) /\ j - Len(q) \in 1 .. Len(r) /\ c[i] = q[i] /\ c[j] = r[j - Len(q)]
      BY <1>1, <2>3
    <3> QED
      BY <1>2, <1>3, <3>1
  <2>4. CASE ~(i <= Len(q)) /\ j <= Len(q)
    <3>1. j \in 1 .. Len(q) /\ i - Len(q) \in 1 .. Len(r) /\ c[j] = q[j] /\ c[i] = r[i - Len(q)]
      BY <1>1, <2>4
    <3> QED
      BY <1>2, <1>3, <3>1
  <2> QED
    BY <2>1, <2>2, <2>3, <2>4
<1>5. Elements(c) \subseteq Elements(q) \cup Elements(r)
  <2> SUFFICES ASSUME NEW i \in 1 .. Len(c) PROVE c[i] \in Elements(q) \cup Elements(r)
    BY DEF Elements
  <2>1. \/ i \in 1 .. Len(q) /\ c[i] = q[i]
        \/ i - Len(q) \in 1 .. Len(r) /\ c[i] = r[i - Len(q)]
    BY <1>1
  <2> QED
    BY <1>2, <1>3, <2>1
<1>6. Elements(q) \subseteq Elements(c)
  BY <1>1 DEF Elements
<1>7. Elements(r) \subseteq Elements(c)
  <2> SUFFICES ASSUME NEW i \in 1 .. Len(r) PROVE r[i] \in Elements(c)
    BY DEF Elements
  <2>1. i + Len(q) \in 1 .. Len(c) /\ ~(i + Len(q) <= Len(q)) /\ (i + Len(q)) - Len(q) = i
    BY <1>1
  <2>2. c[i + Len(q)] = r[i]
    BY <1>1, <2>1
  <2> QED
    BY <2>1, <2>2 DEF Elements
<1> QED
  BY <1>1, <1>4, <1>5, <1>6, <1>7 DEF c

ChildEvent == [kind : Kind \ {"domain"}, depth : 0 .. MaxDepth + InlineBudget + 1]

\* The events a handler puts on the queue get the next ids.
LEMMA Stamped ==
    ASSUME nextId \in 2 .. MaxEvents + 1, NEW children \in Seq(ChildEvent),
           nextId + Len(children) <= MaxEvents + 1
    PROVE  /\ Stamp(children) \in Seq(QueuedEvent)
           /\ Distinct(Stamp(children))
           /\ \A e \in Elements(Stamp(children)) :
                 /\ e.id \in nextId .. nextId + Len(children) - 1
                 /\ \E k \in 1 .. Len(children) : e.kind = children[k].kind
           /\ \A k \in 1 .. Len(children) :
                 \E e \in Elements(Stamp(children)) : e.kind = children[k].kind
<1> DEFINE n == Len(children)
           s == Stamp(children)
<1>1. n \in Nat /\ \A k \in 1 .. n : children[k] \in ChildEvent
  BY LenProperties, ElementOfSeq
<1>2. \A k \in 1 .. n :
         s[k] = [id |-> nextId + k - 1, kind |-> children[k].kind, depth |-> children[k].depth]
  BY DEF Stamp
<1>3. s \in [1 .. n -> QueuedEvent]
  BY <1>1, RecursionAssumption DEF Stamp, QueuedEvent, ChildEvent
<1>4. s \in Seq(QueuedEvent) /\ Len(s) = n
  BY <1>1, <1>3
<1> HIDE DEF s
<1>5. \A k \in 1 .. n : s[k].id = nextId + k - 1 /\ s[k].kind = children[k].kind
  <2> TAKE k \in 1 .. n
  <2>1. s[k] = [id |-> nextId + k - 1, kind |-> children[k].kind, depth |-> children[k].depth]
    BY <1>2
  <2> QED
    BY <2>1
<1>6. Distinct(s)
  BY <1>1, <1>4, <1>5 DEF Distinct
<1>7. ASSUME NEW e \in Elements(s)
      PROVE  /\ e.id \in nextId .. nextId + n - 1
             /\ \E k \in 1 .. n : e.kind = children[k].kind
  <2>1. PICK k \in 1 .. n : e = s[k]
    BY <1>4 DEF Elements
  <2> QED
    BY <1>1, <1>5, <2>1
<1>8. \A k \in 1 .. n : \E e \in Elements(s) : e.kind = children[k].kind
  BY <1>4, <1>5 DEF Elements
<1> QED
  BY <1>4, <1>6, <1>7, <1>8 DEF s

-----------------------------------------------------------------------------
(***************************************************************************)
(* One event handled: what becomes of the queue, whatever the handler is.  *)
(***************************************************************************)
QueueInv == TypeOK /\ EventsFit /\ LostFits /\ ModeFits

New(children) == Elements(Stamp(children))

\* The event leaves the queue, and what is lost with it is remembered.
Leaves(e, q) ==
    /\ Queued \ {e} \subseteq q
    /\ e # Seed => e \notin q

LEMMA DepthOfHandled ==
    ASSUME QueueInv, NEW i \in 1 .. Len(queue), ~ExceedsMaxDepth(queue[i])
    PROVE  /\ queue[i] \in Queued /\ queue[i] \in QueuedEvent
           /\ queue[i].depth \in 0 .. MaxDepth
           /\ queue[i] \notin lost
           /\ processed < MaxDepth
<1>1. queue[i] \in Queued /\ queue[i] \in QueuedEvent
  BY ElementOfSeq DEF QueueInv, EventsFit, Queued, Elements
<1>2. queue[i].depth \in 0 .. MaxDepth /\ processed < MaxDepth
  BY <1>1, RecursionAssumption DEF QueueInv, TypeOK, ExceedsMaxDepth, QueuedEvent
<1>3. queue[i] \notin lost
  BY <1>1, <1>2, RecursionAssumption DEF QueueInv, LostFits
<1> QED
  BY <1>1, <1>2, <1>3

LEMMA Hop ==
    ASSUME QueueInv,
           NEW i \in 1 .. Len(queue), NEW children \in Seq(ChildEvent), NEW used \in Inline,
           Handles(i, children, used),
           \/ lost' = lost
           \/ lost' = lost \cup {queue[i]} /\ queue[i].kind \in NodeKind
    PROVE  /\ EventsFit' /\ LostFits' /\ ModeFits'
           /\ Queued' \subseteq Queued \cup New(children)
           /\ New(children) \subseteq Queued'
           /\ Leaves(queue[i], Queued')
           /\ Len(queue) = 1 => Queued' = New(children)
<1> DEFINE e == queue[i]
           rest == Without(i)
           new == Stamp(children)
<1>1. /\ queue \in Seq(QueuedEvent) /\ Distinct(queue) /\ nextId \in 2 .. MaxEvents + 1
      /\ nextId \in Int
      /\ \A f \in Queued : f.id < nextId /\ f \in QueuedEvent /\ f.id \in Int
  <2>1. queue \in Seq(QueuedEvent) /\ Distinct(queue) /\ nextId \in 2 .. MaxEvents + 1
    BY DEF QueueInv, TypeOK, EventsFit
  <2>2. \A f \in Queued : f.id < nextId /\ f \in QueuedEvent
    BY ElementOfSeq DEF QueueInv, EventsFit, Queued, Elements
  <2>3. \A f \in QueuedEvent : f.id \in Int
    BY RecursionAssumption DEF QueuedEvent
  <2> QED
    BY <2>1, <2>2, <2>3, RecursionAssumption
<1>2. /\ mode' = mode /\ queue' = rest \o new /\ nextId' = nextId + Len(children)
      /\ nextId' <= MaxEvents + 1 /\ looping' = looping
      /\ processed' = IF mode = "process" THEN processed + 1 ELSE 0
      /\ seen' = IF mode = "process" THEN seen \cup {e.id} ELSE {}
      /\ e.id \notin seen
  BY DEF Handles, input
<1>3. Len(children) \in Nat /\ nextId + Len(children) <= MaxEvents + 1
  BY LenProperties, <1>2
<1>4. /\ rest \in Seq(QueuedEvent) /\ Distinct(rest) /\ Elements(rest) \subseteq Queued
      /\ Queued \ {e} \subseteq Elements(rest)
      /\ e # Seed => e \notin Elements(rest)
      /\ Len(queue) = 1 => rest = <<>>
  BY <1>1, Taken
<1>5. /\ new \in Seq(QueuedEvent) /\ Distinct(new)
      /\ \A f \in Elements(new) : /\ f.id \in nextId .. nextId + Len(children) - 1
                                  /\ \E k \in 1 .. Len(children) : f.kind = children[k].kind
  BY <1>1, <1>3, Stamped
<1>6. e \in Queued /\ e \in QueuedEvent /\ e \notin lost
  BY DepthOfHandled DEF Handles
<1> HIDE DEF rest, new
<1>7. \A f \in Elements(rest), g \in Elements(new) : f.id # g.id
  <2> TAKE f \in Elements(rest), g \in Elements(new)
  <2>1. f.id < nextId /\ f.id \in Int
    BY <1>1, <1>4
  <2>2. g.id \in nextId .. nextId + Len(children) - 1
    BY <1>5
  <2> QED
    BY <1>1, <1>3, <2>1, <2>2
<1>8. /\ queue' \in Seq(QueuedEvent) /\ Distinct(queue')
      /\ Queued' = Elements(rest) \cup Elements(new)
  <2>1. /\ rest \o new \in Seq(QueuedEvent) /\ Distinct(rest \o new)
        /\ Elements(rest \o new) = Elements(rest) \cup Elements(new)
    BY <1>4, <1>5, <1>7, Joined
  <2>2. Queued' = Elements(queue')
    BY DEF Queued, Elements
  <2> QED
    BY <1>2, <2>1, <2>2
<1>9. \A f \in Elements(new) : f.id # 1 /\ f.kind # "domain" /\ f \in QueuedEvent
  <2> TAKE f \in Elements(new)
  <2>1. f.id # 1
    BY <1>1, <1>3, <1>5
  <2>2. PICK k \in 1 .. Len(children) : f.kind = children[k].kind
    BY <1>5
  <2>3. children[k] \in ChildEvent
    BY ElementOfSeq
  <2>4. f \in QueuedEvent
    BY <1>5, ElementOfSeq DEF Elements
  <2> QED
    BY <2>1, <2>2, <2>3, <2>4 DEF ChildEvent
<1>10. EventsFit'
  <2>1. ASSUME NEW f \in Queued'
        PROVE  /\ f.id < nextId'
               /\ f.kind = "domain" \/ f.id = 1 => f = Seed
               /\ f # Seed => f.id \notin seen'
    <3>1. CASE f \in Elements(new)
      <4>0. f.id \in nextId .. nextId + Len(children) - 1
        BY <1>5, <3>1
      <4>1. f.id < nextId' /\ f.id >= nextId /\ f.id # e.id
        BY <1>1, <1>2, <1>3, <1>6, <4>0
      <4>2. f.id \notin seen
        BY <1>1, <1>5, <3>1, <4>1 DEF QueueInv, EventsFit, TypeOK
      <4> QED
        BY <1>2, <1>9, <3>1, <4>1, <4>2
    <3>2. CASE f \in Elements(rest)
      <4>1. f \in Queued /\ f.id < nextId'
        BY <1>1, <1>2, <1>3, <1>4, <3>2 DEF QueuedEvent
      <4>2. f.kind = "domain" \/ f.id = 1 => f = Seed
        BY <4>1 DEF QueueInv, EventsFit
      <4>3. ASSUME f # Seed PROVE f.id # e.id
        <5>1. f # e
          BY <1>4, <3>2, <4>3
        <5>2. PICK j \in 1 .. Len(queue) : f = queue[j]
          BY <4>1 DEF Queued, Elements
        <5> QED
          BY <1>1, <4>3, <5>1, <5>2 DEF Distinct
      <4>4. f # Seed => f.id \notin seen
        BY <4>1 DEF QueueInv, EventsFit
      <4> QED
        BY <1>2, <4>1, <4>2, <4>3, <4>4
    <3> QED
      BY <1>8, <3>1, <3>2
  <2>2. \A x \in seen' : x < nextId'
    <3>1. \A x \in seen : x < nextId /\ x \in Int
      BY RecursionAssumption DEF QueueInv, EventsFit, TypeOK
    <3>2. e.id < nextId /\ e.id \in Int
      BY <1>1, <1>6
    <3>3. nextId <= nextId' /\ nextId' \in Int
      BY <1>1, <1>2, <1>3
    <3> QED
      BY <1>1, <1>2, <3>1, <3>2, <3>3
  <2> QED
    BY <1>8, <2>1, <2>2 DEF EventsFit
<1>11. LostFits'
  <2>1. \A f \in lost' : f \in QueuedEvent /\ f.kind \in NodeKind /\ f.id < nextId
    BY <1>1, <1>6 DEF QueueInv, LostFits
  <2>2. nextId <= nextId'
    BY <1>1, <1>2, <1>3
  <2>3. \A f \in lost' : f \in QueuedEvent /\ f.kind \in NodeKind /\ f.id < nextId'
    BY <1>1, <1>2, <1>3, <2>1, <2>2 DEF QueuedEvent
  <2>4. ASSUME NEW f \in Queued' \cap lost'
        PROVE  mode' = "function" /\ f.depth > MaxDepth
    <3>1. f \in Elements(rest)
      BY <1>1, <1>3, <1>5, <1>8, <2>1, <2>4 DEF QueuedEvent
    <3>2. f # e
      <4>1. CASE lost' = lost
        BY <1>6, <4>1
      <4>2. CASE e.kind \in NodeKind
        BY <1>4, <3>1, <4>2 DEF Seed, NodeKind
      <4> QED
        BY <4>1, <4>2
    <3>3. f \in Queued \cap lost
      BY <1>4, <3>1, <3>2
    <3> QED
      BY <1>2, <3>3 DEF QueueInv, LostFits
  <2> QED
    BY <2>3, <2>4 DEF LostFits
<1>12. ModeFits'
  BY <1>2 DEF ModeFits, QueueInv
<1>13. Len(queue) = 1 => Queued' = New(children)
  <2> SUFFICES ASSUME Len(queue) = 1 PROVE Elements(rest) = {}
    BY <1>8 DEF New, new
  <2> QED
    BY <1>4 DEF Elements
<1>14. Leaves(e, Queued')
  <2>1. e # Seed => e \notin Elements(new)
    BY <1>1, <1>3, <1>5, <1>6
  <2> QED
    BY <1>4, <1>8, <2>1 DEF Leaves
<1>15. New(children) = Elements(new)
  BY DEF New, new
<1> QED
  BY <1>4, <1>8, <1>10, <1>11, <1>12, <1>13, <1>14, <1>15

-----------------------------------------------------------------------------
(***************************************************************************)
(* Counting the events of the nodes.                                       *)
(***************************************************************************)
NewNodes(children) == {e \in New(children) : e.kind \in NodeKind}

\* As many events of nodes are put on the queue as a handler asks for.
LEMMA NewCount ==
    ASSUME nextId \in 2 .. MaxEvents + 1, NEW children \in Seq(ChildEvent),
           nextId + Len(children) <= MaxEvents + 1,
           NEW J, J = {k \in 1 .. Len(children) : children[k].kind \in NodeKind}
    PROVE  /\ IsFiniteSet(NewNodes(children))
           /\ Cardinality(NewNodes(children)) = Cardinality(J)
<1> DEFINE n == Len(children)
           s == Stamp(children)
           f == [k \in J |-> s[k]]
           N == NewNodes(children)
<1>1. n \in Nat /\ nextId \in Int /\ J \subseteq 1 .. n
  BY LenProperties, RecursionAssumption
<1>2. s \in Seq(QueuedEvent) /\ Len(s) = n
  <2>1. DOMAIN s = 1 .. n
    BY DEF Stamp
  <2>2. s \in Seq(QueuedEvent)
    BY Stamped
  <2>3. DOMAIN s = 1 .. Len(s) /\ Len(s) \in Nat
    BY <2>2, LenProperties
  <2>4. 1 .. n = 1 .. Len(s)
    BY <2>1, <2>3
  <2> QED
    BY <1>1, <2>2, <2>3, <2>4
<1>3. \A k \in 1 .. n : s[k].id = nextId + k - 1 /\ s[k].kind = children[k].kind
  <2> TAKE k \in 1 .. n
  <2>1. s[k] = [id |-> nextId + k - 1, kind |-> children[k].kind, depth |-> children[k].depth]
    BY DEF Stamp
  <2> QED
    BY <2>1
<1> HIDE DEF s
<1>4. N = {s[k] : k \in J}
  <2>1. New(children) = {s[k] : k \in 1 .. n}
    BY <1>2 DEF New, Elements, s
  <2> QED
    BY <1>3, <2>1 DEF NewNodes
<1>5. f \in Bijection(J, N)
  <2>1. f \in [J -> N] /\ \A k \in J : f[k] = s[k]
    BY <1>4
  <2>2. \A k, l \in J : f[k] = f[l] => k = l
    <3> SUFFICES ASSUME NEW k \in J, NEW l \in J, s[k] = s[l] PROVE k = l
      BY <2>1
    <3> QED
      BY <1>1, <1>3
  <2>3. \A e \in N : \E k \in J : f[k] = e
    BY <1>4, <2>1
  <2> HIDE DEF f, N
  <2> QED
    BY <2>1, <2>2, <2>3 DEF Bijection, Injection, Surjection, IsInjective
<1>6. IsFiniteSet(J)
  <2>1. IsFiniteSet(1 .. n)
    BY <1>1, FS_Interval
  <2> QED
    BY <1>1, <2>1, FS_Subset
<1>7. ExistsBijection(J, N)
  BY <1>5 DEF ExistsBijection
<1> HIDE DEF f, N
<1>8. IsFiniteSet(N) /\ Cardinality(N) = Cardinality(J)
  BY <1>6, <1>7, FS_Bijection
<1> QED
  BY <1>8 DEF N

LiveCount(children, e) ==
    Cardinality(Live) + Cardinality(NewNodes(children)) - (IF e.kind \in NodeKind THEN 1 ELSE 0)

\* The event that is handled drives its node no more, the new ones do.
LEMMA LiveAfter ==
    ASSUME QueueInv, IsFiniteSet(Live),
           NEW i \in 1 .. Len(queue), NEW children \in Seq(ChildEvent), NEW used \in Inline,
           Handles(i, children, used),
           \/ lost' = lost
           \/ lost' = lost \cup {queue[i]} /\ queue[i].kind \in NodeKind
    PROVE  /\ IsFiniteSet(Live')
           /\ Cardinality(Live') = LiveCount(children, queue[i])
           /\ queue[i].kind \in NodeKind => Cardinality(Live) > 0
           /\ Cardinality(Live) \in Nat /\ Cardinality(NewNodes(children)) \in Nat
<1> DEFINE e == queue[i]
           N == NewNodes(children)
           J == {k \in 1 .. Len(children) : children[k].kind \in NodeKind}
<1>1. /\ Queued' \subseteq Queued \cup New(children)
      /\ New(children) \subseteq Queued'
      /\ Queued \ {e} \subseteq Queued' /\ (e # Seed => e \notin Queued')
  BY Hop DEF Leaves
<1>2. nextId \in 2 .. MaxEvents + 1 /\ nextId + Len(children) <= MaxEvents + 1
  BY DEF QueueInv, TypeOK, Handles
<1>3. IsFiniteSet(N) /\ Cardinality(N) = Cardinality(J)
  BY <1>2, NewCount
<1>4. e \in Queued /\ e \notin lost
  BY DepthOfHandled DEF Handles
<1>5. \A f \in New(children) : f \notin Queued /\ f \notin lost /\ f \notin lost'
  <2> TAKE f \in New(children)
  <2>1. f.id \in nextId .. nextId + Len(children) - 1
    BY <1>2, Stamped DEF New
  <2>2. Len(children) \in Nat /\ nextId \in Int
    BY <1>2, LenProperties, RecursionAssumption
  <2>3. ~(f.id < nextId)
    BY <2>1, <2>2
  <2>4. f \notin Queued /\ f \notin lost
    BY <2>3 DEF QueueInv, EventsFit, LostFits
  <2> QED
    BY <1>4, <2>4
<1>6. e.kind \in NodeKind => e # Seed /\ e \in Live
  BY <1>4 DEF Live, Seed, NodeKind
<1>7. Live' = (Live \ {e}) \cup N
  <2>1. Live' = {f \in Queued' : f.kind \in NodeKind /\ f \notin lost'}
    BY DEF Live
  <2>2. ASSUME NEW f \in Live' PROVE f \in (Live \ {e}) \cup N
    <3>1. f \in Queued' /\ f.kind \in NodeKind /\ f \notin lost' /\ f \notin lost
      BY <2>1
    <3>2. f # e
      BY <1>1, <1>6, <3>1
    <3> QED
      BY <1>1, <3>1, <3>2 DEF Live, NewNodes
  <2>3. ASSUME NEW f \in Live \ {e} PROVE f \in Live'
    BY <1>1, <2>1 DEF Live
  <2>4. N \subseteq Live'
    BY <1>1, <1>5, <2>1 DEF NewNodes
  <2> QED
    BY <2>2, <2>3, <2>4
<1>8. Live \cap N = {}
  BY <1>5 DEF Live, NewNodes
<1>9. /\ IsFiniteSet(Live \ {e})
      /\ Cardinality(Live \ {e}) = IF e \in Live THEN Cardinality(Live) - 1 ELSE Cardinality(Live)
  BY FS_RemoveElement
<1>10. e \in Live <=> e.kind \in NodeKind
  BY <1>6 DEF Live
<1> HIDE DEF N
<1>11. (Live \ {e}) \cap N = {}
  BY <1>8
<1>12. /\ IsFiniteSet(Live')
       /\ Cardinality(Live') = Cardinality(Live \ {e}) + Cardinality(N) - Cardinality({})
  <2> DEFINE L == Live \ {e}
  <2> HIDE DEF L
  <2>1. /\ IsFiniteSet(L \cup N)
        /\ Cardinality(L \cup N) = Cardinality(L) + Cardinality(N) - Cardinality(L \cap N)
    BY <1>3, <1>9, FS_Union DEF L
  <2> QED
    BY <1>7, <1>11, <2>1 DEF L
<1>13. /\ Cardinality(Live) \in Nat /\ Cardinality(N) \in Nat /\ Cardinality({}) = 0
       /\ Cardinality(Live \ {e}) \in Nat
       /\ e \in Live => Cardinality(Live) # 0
  BY <1>3, <1>9, FS_CardinalityType, FS_EmptySet
<1>14. Cardinality(Live') = Cardinality(Live) + Cardinality(N) - (IF e.kind \in NodeKind THEN 1 ELSE 0)
  BY <1>9, <1>10, <1>12, <1>13
<1> QED
  BY <1>6, <1>12, <1>13, <1>14 DEF LiveCount, N

-----------------------------------------------------------------------------
(***************************************************************************)
(* The events the handlers put on the queue.                               *)
(***************************************************************************)
LEMMA OneChild ==
    ASSUME NEW kind \in Kind \ {"domain"}, NEW d \in 0 .. MaxDepth + InlineBudget + 1
    PROVE  /\ <<To(kind, d)>> \in Seq(ChildEvent)
           /\ Len(<<To(kind, d)>>) = 1
           /\ <<To(kind, d)>>[1].kind = kind
BY DEF ChildEvent, To

LEMMA Hint ==
    ASSUME source \in 0 .. MaxDepth, NEW hint \in {<<>>, Suggestion}
    PROVE  /\ hint \in Seq(ChildEvent) /\ Len(hint) \in {0, 1}
           /\ \A k \in 1 .. Len(hint) : hint[k].kind = "suggestion"
<1>1. CASE hint = <<>>
  BY <1>1
<1>2. CASE hint = Suggestion
  <2>1. source + 1 \in 0 .. MaxDepth + InlineBudget + 1
    BY RecursionAssumption
  <2>2. "suggestion" \in Kind \ {"domain"}
    BY DEF Kind
  <2> QED
    BY <1>2, <2>1, <2>2, OneChild DEF Suggestion
<1> QED
  BY <1>1, <1>2

Hinted(hint, kind, d) == hint \o <<To(kind, d)>>

LEMMA HintedChild ==
    ASSUME source \in 0 .. MaxDepth, NEW hint \in {<<>>, Suggestion},
           NEW kind \in Kind \ {"domain"}, NEW d \in 0 .. MaxDepth + InlineBudget + 1,
           NEW c, c = Hinted(hint, kind, d)
    PROVE  /\ c \in Seq(ChildEvent) /\ Len(c) \in {1, 2} /\ c[Len(c)].kind = kind
           /\ \A k \in 1 .. Len(c) - 1 : c[k].kind = "suggestion"
<1> DEFINE r == <<To(kind, d)>>
<1>1. r \in Seq(ChildEvent) /\ Len(r) = 1 /\ r[1].kind = kind
  BY OneChild
<1>2. /\ hint \in Seq(ChildEvent) /\ Len(hint) \in {0, 1}
      /\ \A k \in 1 .. Len(hint) : hint[k].kind = "suggestion"
  BY Hint
<1> HIDE DEF r
<1>3. /\ c \in Seq(ChildEvent) /\ Len(c) = Len(hint) + Len(r)
      /\ \A k \in 1 .. Len(hint) + Len(r) :
            c[k] = IF k <= Len(hint) THEN hint[k] ELSE r[k - Len(hint)]
  BY <1>1, <1>2, ConcatProperties DEF r, Hinted
<1>4. Len(c) = Len(hint) + 1 /\ c[Len(c)] = r[1]
  <2>1. Len(c) = Len(hint) + 1 /\ Len(c) \in 1 .. Len(hint) + Len(r) /\ Len(c) - Len(hint) = 1
    BY <1>1, <1>2, <1>3
  <2> QED
    BY <1>2, <1>3, <2>1
<1>5. \A k \in 1 .. Len(c) - 1 : c[k] = hint[k] /\ k \in 1 .. Len(hint)
  BY <1>1, <1>2, <1>3, <1>4
<1> QED
  BY <1>1, <1>2, <1>3, <1>4, <1>5

LEMMA TaskChildren ==
    ASSUME NEW k \in Nat, NEW e, e.depth \in 0 .. MaxDepth
    PROVE  /\ Tasks(k, e) \in Seq(ChildEvent) /\ Len(Tasks(k, e)) = k
           /\ \A j \in 1 .. k : Tasks(k, e)[j].kind = "task"
<1>1. To("task", Child(e)) \in ChildEvent /\ To("task", Child(e)).kind = "task"
  BY RecursionAssumption DEF ChildEvent, To, Child, Kind
<1>2. Tasks(k, e) \in [1 .. k -> ChildEvent] /\ \A j \in 1 .. k : Tasks(k, e)[j] = To("task", Child(e))
  BY <1>1 DEF Tasks
<1> QED
  BY <1>1, <1>2

\* How many of them drive a node.
LEMMA NoNewNodes ==
    ASSUME nextId \in 2 .. MaxEvents + 1, NEW c \in Seq(ChildEvent),
           nextId + Len(c) <= MaxEvents + 1,
           \A k \in 1 .. Len(c) : c[k].kind \notin NodeKind
    PROVE  Cardinality(NewNodes(c)) = 0
<1> DEFINE J == {k \in 1 .. Len(c) : c[k].kind \in NodeKind}
<1>1. J = {}
  OBVIOUS
<1>2. Cardinality(NewNodes(c)) = Cardinality(J)
  BY NewCount
<1> QED
  BY <1>1, <1>2, FS_EmptySet

LEMMA OneNewNode ==
    ASSUME nextId \in 2 .. MaxEvents + 1, NEW c \in Seq(ChildEvent),
           nextId + Len(c) <= MaxEvents + 1,
           Len(c) \in {1, 2}, c[Len(c)].kind \in NodeKind,
           \A k \in 1 .. Len(c) - 1 : c[k].kind = "suggestion"
    PROVE  Cardinality(NewNodes(c)) = 1
<1> DEFINE J == {k \in 1 .. Len(c) : c[k].kind \in NodeKind}
<1>1. J = {Len(c)}
  <2>0. Len(c) \in 1 .. Len(c)
    <3> SUFFICES ASSUME NEW n \in {1, 2} PROVE n \in 1 .. n
      OBVIOUS
    <3> QED
      OBVIOUS
  <2>1. Len(c) \in J
    BY <2>0, Zenon
  <2>2. \A k \in 1 .. Len(c) : k = Len(c) \/ k \in 1 .. Len(c) - 1
    OBVIOUS
  <2> QED
    BY <2>1, <2>2 DEF NodeKind
<1>2. Cardinality(NewNodes(c)) = Cardinality(J)
  BY NewCount
<1> QED
  BY <1>1, <1>2, FS_Singleton

LEMMA NewTasks ==
    ASSUME nextId \in 2 .. MaxEvents + 1, NEW c \in Seq(ChildEvent),
           nextId + Len(c) <= MaxEvents + 1,
           \A k \in 1 .. Len(c) : c[k].kind = "task"
    PROVE  Cardinality(NewNodes(c)) = Len(c)
<1> DEFINE J == {k \in 1 .. Len(c) : c[k].kind \in NodeKind}
<1>1. J = 1 .. Len(c) /\ Len(c) \in Nat
  BY LenProperties DEF NodeKind
<1>2. Cardinality(NewNodes(c)) = Cardinality(J)
  BY NewCount
<1>3. Cardinality(1 .. Len(c)) = Len(c)
  <2>1. Cardinality(1 .. Len(c)) = IF 1 > Len(c) THEN 0 ELSE Len(c) - 1 + 1
    <3> DEFINE n == Len(c)
    <3>1. n \in Int /\ 1 \in Int
      BY <1>1
    <3> HIDE DEF n
    <3>2. Cardinality(1 .. n) = IF 1 > n THEN 0 ELSE n - 1 + 1
      BY <3>1, FS_Interval
    <3> QED
      BY <3>2 DEF n
  <2> QED
    BY <1>1, <2>1
<1> QED
  BY <1>1, <1>2, <1>3

-----------------------------------------------------------------------------
(***************************************************************************)
(* What every handler does to the invariant.                               *)
(***************************************************************************)
LoopType ==
    /\ mode \in {"process", "function"} /\ correlation \in {"run", "other", "none"}
    /\ apiRejects \in BOOLEAN
    /\ \A i \in 1 .. Len(queue) :
          queue[i] \in [id : 1 .. MaxEvents, kind : Kind, depth : 0 .. MaxDepth + InlineBudget + 1]
    /\ nextId \in 2 .. MaxEvents + 1
    /\ looping \in BOOLEAN
    /\ runs \in 0 .. MaxRuns
    /\ processed \in 0 .. MaxDepth
    /\ seen \subseteq 1 .. MaxEvents
    /\ inline \in 0 .. InlineBudget

LEMMA HandlesCommon ==
    ASSUME IInv,
           NEW i \in 1 .. Len(queue), NEW children \in Seq(ChildEvent), NEW used \in Inline,
           Handles(i, children, used),
           \/ lost' = lost
           \/ lost' = lost \cup {queue[i]} /\ queue[i].kind \in NodeKind
    PROVE  /\ LoopType' /\ EventsFit' /\ LostFits' /\ ModeFits' /\ SeedFirst' /\ SeedAlone'
           /\ ~Unhandled'
           /\ \A e \in lost' : e.kind \in {"node_action", "task", "completed"}
<1> DEFINE e == queue[i]
<1>1. QueueInv
  BY DEF IInv, QueueInv
<1>2. /\ EventsFit' /\ LostFits' /\ ModeFits'
      /\ Queued' \subseteq Queued \cup New(children)
      /\ Len(queue) = 1 => Queued' = New(children)
  BY <1>1, Hop
<1>3. /\ mode' = mode /\ correlation' = correlation /\ apiRejects' = apiRejects
      /\ looping' = looping /\ runs' = runs
      /\ mode = "process" => looping
      /\ nextId' = nextId + Len(children) /\ nextId' <= MaxEvents + 1
      /\ processed' = IF mode = "process" THEN processed + 1 ELSE 0
      /\ seen' = IF mode = "process" THEN seen \cup {e.id} ELSE {}
      /\ inline' = IF mode = "process" THEN inline + used ELSE 0
      /\ ~ExceedsMaxDepth(e)
  BY DEF Handles, input, Deliverable
<1>4. e \in QueuedEvent /\ processed < MaxDepth /\ Len(children) \in Nat
  BY <1>1, <1>3, DepthOfHandled, LenProperties
<1>5. LoopType'
  <2>1. \A j \in 1 .. Len(queue') : queue'[j] \in QueuedEvent
    BY <1>2, ElementOfSeq DEF EventsFit
  <2>2. nextId' \in 2 .. MaxEvents + 1
    BY <1>3, <1>4, RecursionAssumption DEF IInv, TypeOK
  <2>3. processed' \in 0 .. MaxDepth
    BY <1>3, <1>4, RecursionAssumption DEF IInv, TypeOK
  <2>4. seen' \subseteq 1 .. MaxEvents
    BY <1>3, <1>4 DEF IInv, TypeOK, QueuedEvent
  <2>5. inline' \in 0 .. InlineBudget
    BY <1>3, RecursionAssumption DEF IInv, TypeOK, Inline
  <2> QED
    BY <1>3, <2>1, <2>2, <2>3, <2>4, <2>5 DEF LoopType, IInv, TypeOK, QueuedEvent
<1>6. Seed \notin New(children)
  <2>1. nextId \in 2 .. MaxEvents + 1 /\ nextId + Len(children) <= MaxEvents + 1
    BY <1>3 DEF IInv, TypeOK
  <2>2. \A f \in New(children) : f.id \in nextId .. nextId + Len(children) - 1
    BY <2>1, Stamped DEF New
  <2>3. Seed.id = 1
    BY DEF Seed
  <2> QED
    BY <1>4, <2>1, <2>2, <2>3, RecursionAssumption
<1>7. Unhandled => queue = <<Seed>>
  <2> SUFFICES ASSUME Unhandled, queue = <<>> PROVE FALSE
    BY DEF IInv, SeedFirst
  <2> QED
    OBVIOUS
<1>8. ~Unhandled'
  <2>1. CASE Unhandled
    <3>0. queue = <<Seed>>
      BY <1>7, <2>1
    <3>1. queue = <<Seed>> /\ e = Seed /\ Len(queue) = 1
      <4>1. Len(<<Seed>>) = 1 /\ <<Seed>>[1] = Seed
        OBVIOUS
      <4>2. i = 1
        BY <3>0, <4>1
      <4> QED
        BY <3>0, <4>1, <4>2
    <3>2. Seed \notin Queued'
      BY <1>2, <1>6, <3>1
    <3>3. mode = "process" => 1 \in seen'
      BY <1>3, <3>1 DEF Seed
    <3> QED
      BY <1>3, <3>2, <3>3 DEF Unhandled
  <2>2. CASE ~Unhandled
    BY <1>2, <1>3, <1>6, <2>2 DEF Unhandled, IInv, TypeOK
  <2> QED
    BY <2>1, <2>2
<1>9. SeedFirst'
  BY <1>8 DEF SeedFirst
<1>10. SeedAlone'
  <2> SUFFICES ASSUME mode' = "process", lost' = {}
               PROVE  looping' /\ Seed \notin Queued'
    BY DEF SeedAlone
  <2>1. looping' /\ lost = {}
    BY <1>3
  <2>2. ASSUME Seed \in Queued PROVE Seed \notin Queued'
    <3>1. queue = <<Seed>>
      BY <1>3, <2>1, <2>2 DEF IInv, SeedAlone
    <3>2. Len(queue) = 1
      BY <3>1
    <3> QED
      BY <1>2, <1>6, <3>2
  <2> QED
    BY <1>2, <1>6, <2>1, <2>2
<1>11. \A f \in lost' : f.kind \in {"node_action", "task", "completed"}
  BY <1>2 DEF LostFits, NodeKind
<1> QED
  BY <1>2, <1>5, <1>8, <1>9, <1>10, <1>11

\* The kinds of the new events are those the handler names.
LEMMA NewKinds ==
    ASSUME NEW children \in Seq(ChildEvent),
           nextId \in 2 .. MaxEvents + 1, nextId + Len(children) <= MaxEvents + 1
    PROVE  /\ \A f \in New(children) : \E k \in 1 .. Len(children) :
                 f = Stamp(children)[k] /\ f.kind = children[k].kind
           /\ \A k \in 1 .. Len(children) : \E f \in New(children) : f.kind = children[k].kind
<1> DEFINE n == Len(children)
           s == Stamp(children)
<1>1. Len(s) = n
  <2>1. DOMAIN s = 1 .. n /\ n \in Nat
    BY LenProperties DEF Stamp
  <2>2. DOMAIN s = 1 .. Len(s) /\ Len(s) \in Nat
    BY Stamped, LenProperties
  <2> QED
    BY <2>1, <2>2
<1>2. \A k \in 1 .. n : s[k].kind = children[k].kind
  <2> TAKE k \in 1 .. n
  <2>1. s[k] = [id |-> nextId + k - 1, kind |-> children[k].kind, depth |-> children[k].depth]
    BY DEF Stamp
  <2> QED
    BY <2>1
<1> HIDE DEF s
<1>3. New(children) = {s[k] : k \in 1 .. n}
  BY <1>1 DEF New, Elements, s
<1> QED
  BY <1>2, <1>3 DEF s

LEMMA Handled ==
    ASSUME IInv,
           NEW i \in 1 .. Len(queue), NEW children \in Seq(ChildEvent), NEW used \in Inline,
           Handles(i, children, used),
           \/ lost' = lost
           \/ lost' = lost \cup {queue[i]} /\ queue[i].kind \in NodeKind
    PROVE  /\ queue[i] \in Queued /\ queue[i] \in QueuedEvent /\ queue[i].id \notin seen
           /\ queue[i].depth \in 0 .. MaxDepth
           /\ Queued' \subseteq Queued \cup New(children)
           /\ New(children) \subseteq Queued'
           /\ Leaves(queue[i], Queued')
           /\ \A f \in New(children) : \E k \in 1 .. Len(children) :
                 f = Stamp(children)[k] /\ f.kind = children[k].kind
           /\ \A k \in 1 .. Len(children) : \E f \in New(children) : f.kind = children[k].kind
           /\ nextId \in 2 .. MaxEvents + 1 /\ nextId + Len(children) <= MaxEvents + 1
           /\ IsFiniteSet(Live')
           /\ Cardinality(Live') = LiveCount(children, queue[i])
           /\ queue[i].kind \in NodeKind => Cardinality(Live) > 0
           /\ Cardinality(Live) \in Nat /\ Cardinality(NewNodes(children)) \in Nat
<1>1. QueueInv /\ IsFiniteSet(Live)
  BY DEF IInv, QueueInv, Counted
<1>2. nextId \in 2 .. MaxEvents + 1 /\ nextId + Len(children) <= MaxEvents + 1
  BY DEF Handles, IInv, TypeOK
<1>3. queue[i].id \notin seen /\ ~ExceedsMaxDepth(queue[i])
  BY DEF Handles
<1> QED
  BY <1>1, <1>2, <1>3, DepthOfHandled, Hop, LiveAfter, NewKinds

\* The seed is handled before anything else.
LEMMA SeedHandled ==
    ASSUME IInv, NEW i \in 1 .. Len(queue), queue[i].kind = "domain", queue[i].id \notin seen
    PROVE  /\ queue[i] = Seed /\ Queued = {Seed} /\ Unhandled
           /\ waiting = NumNodes /\ run = "running"
<1>1. queue[i] \in Queued
  BY DEF Queued, Elements
<1>2. queue[i] = Seed
  BY <1>1 DEF IInv, EventsFit
<1>3. Unhandled
  BY <1>1, <1>2 DEF Unhandled, IInv, TypeOK, Seed
<1>4. queue = <<Seed>> \/ queue = <<>>
  BY <1>3 DEF IInv, SeedFirst
<1>5. queue = <<Seed>>
  BY <1>4
<1>6. Queued = {Seed}
  <2>1. Len(<<Seed>>) = 1 /\ <<Seed>>[1] = Seed
    OBVIOUS
  <2> QED
    BY <1>5, <2>1 DEF Queued, Elements
<1> QED
  BY <1>2, <1>3, <1>6 DEF IInv, SeedFirst

\* A run planned as a whole goes on with at most one event.
LEMMA WholePlan ==
    ASSUME IInv,
           NEW i \in 1 .. Len(queue), NEW children \in Seq(ChildEvent), NEW used \in Inline,
           Handles(i, children, used),
           queue[i].kind \in PlanKind \cup {"domain"},
           \A k \in 1 .. Len(children) : children[k].kind \notin NodeKind,
           \A k, l \in 1 .. Len(children) :
              children[k].kind \in PlanKind /\ children[l].kind \in PlanKind => k = l,
           waiting' = waiting, open' = open, paused' = paused, lost' = lost
    PROVE  /\ waiting = NumNodes
           /\ OneWay' /\ Counted'
           /\ \A f \in Queued' : f.kind \in PlanKind => f \in New(children)
<1> DEFINE e == queue[i]
<1>1. /\ e \in Queued /\ e \in QueuedEvent /\ e.id \notin seen
      /\ Queued' \subseteq Queued \cup New(children)
      /\ e # Seed => e \notin Queued'
      /\ \A f \in New(children) : \E k \in 1 .. Len(children) :
            f = Stamp(children)[k] /\ f.kind = children[k].kind
      /\ nextId \in 2 .. MaxEvents + 1 /\ nextId + Len(children) <= MaxEvents + 1
      /\ IsFiniteSet(Live')
      /\ Cardinality(Live') = LiveCount(children, e)
      /\ Cardinality(Live) \in Nat
  BY Handled DEF Leaves
<1>2. waiting = NumNodes
  <2>1. CASE e.kind = "domain"
    BY <1>1, <2>1, SeedHandled
  <2>2. CASE e.kind \in PlanKind
    BY <1>1, <2>2, RecursionAssumption DEF IInv, OneWay, TypeOK
  <2> QED
    BY <2>1, <2>2
<1>3. open = 0 /\ paused = FALSE /\ lost = {} /\ \A f \in Queued : f.kind \notin NodeKind
  BY <1>2 DEF IInv, OneWay, TypeOK
<1>4. \A f \in Queued' : f.kind \in PlanKind => f \in New(children)
  <2> SUFFICES ASSUME NEW f \in Queued', f.kind \in PlanKind, f \in Queued
               PROVE  FALSE
    BY <1>1
  <2>1. CASE e.kind = "domain"
    BY <1>1, <2>1, SeedHandled DEF Seed, PlanKind
  <2>2. CASE e.kind \in PlanKind
    <3>1. f = e
      BY <1>1, <2>2 DEF IInv, OneWay
    <3> QED
      BY <1>1, <2>2, <3>1 DEF Seed, PlanKind
  <2> QED
    BY <2>1, <2>2
<1>5. OneWay'
  <2>1. \A f \in Queued' : f.kind \notin NodeKind
    BY <1>1, <1>3
  <2>2. ASSUME NEW f \in Queued', NEW g \in Queued', f.kind \in PlanKind, g.kind \in PlanKind
        PROVE  f = g
    <3>1. f \in New(children) /\ g \in New(children)
      BY <1>4, <2>2
    <3>2. PICK k \in 1 .. Len(children) : f = Stamp(children)[k] /\ f.kind = children[k].kind
      BY <1>1, <3>1
    <3>3. PICK l \in 1 .. Len(children) : g = Stamp(children)[l] /\ g.kind = children[l].kind
      BY <1>1, <3>1
    <3> QED
      BY <2>2, <3>2, <3>3
  <2>3. ~(waiting' < NumNodes)
    BY <1>2, RecursionAssumption
  <2> QED
    BY <1>3, <2>1, <2>2, <2>3 DEF OneWay
<1>6. Counted'
  <2>1. Cardinality(NewNodes(children)) = 0
    BY <1>1, NoNewNodes
  <2>2. e.kind \notin NodeKind
    BY DEF NodeKind, PlanKind
  <2>3. Cardinality(Live) = 0
    BY <1>1, <1>3 DEF IInv, Counted
  <2>4. Cardinality(Live') = 0
    <3>1. LiveCount(children, e) = 0 + 0 - 0
      BY <2>1, <2>2, <2>3 DEF LiveCount
    <3> QED
      BY <1>1, <3>1
  <2> QED
    BY <1>1, <1>2, <1>3, <2>4, RecursionAssumption DEF Counted
<1> QED
  BY <1>2, <1>4, <1>5, <1>6

\* An event of a node: the run is orchestrated, and not completed.
LEMMA NodeEvent ==
    ASSUME IInv,
           NEW i \in 1 .. Len(queue), NEW children \in Seq(ChildEvent), NEW used \in Inline,
           Handles(i, children, used),
           \/ lost' = lost
           \/ lost' = lost \cup {queue[i]},
           queue[i].kind \in NodeKind,
           \A k \in 1 .. Len(children) : children[k].kind \notin PlanKind,
           waiting' \in 0 .. waiting
    PROVE  /\ waiting < NumNodes /\ run # "completed"
           /\ waiting \in 0 .. NumNodes /\ open \in 1 .. NumNodes
           /\ OneWay'
           /\ \A f \in Queued' : f.kind \notin PlanKind
           /\ IsFiniteSet(Live')
           /\ Cardinality(Live) \in Nat /\ Cardinality(NewNodes(children)) \in Nat
           /\ Cardinality(Live') = Cardinality(Live) + Cardinality(NewNodes(children)) - 1
           /\ nextId \in 2 .. MaxEvents + 1 /\ nextId + Len(children) <= MaxEvents + 1
<1> DEFINE e == queue[i]
<1>1. /\ e \in Queued
      /\ Queued' \subseteq Queued \cup New(children)
      /\ \A f \in New(children) : \E k \in 1 .. Len(children) :
            f = Stamp(children)[k] /\ f.kind = children[k].kind
      /\ nextId \in 2 .. MaxEvents + 1 /\ nextId + Len(children) <= MaxEvents + 1
      /\ IsFiniteSet(Live')
      /\ Cardinality(Live') = LiveCount(children, e)
      /\ Cardinality(Live) > 0
      /\ Cardinality(Live) \in Nat /\ Cardinality(NewNodes(children)) \in Nat
  BY Handled
<1>2. waiting # NumNodes
  BY <1>1 DEF IInv, OneWay
<1>3. waiting \in 0 .. NumNodes /\ waiting < NumNodes /\ waiting' < NumNodes /\ waiting' # NumNodes
  BY <1>2, RecursionAssumption DEF IInv, TypeOK
<1>4. open \in 1 .. NumNodes
  BY <1>1, RecursionAssumption DEF IInv, TypeOK, Counted
<1>5. \A f \in Queued' : f.kind \notin PlanKind
  BY <1>1, <1>3 DEF IInv, OneWay
<1>6. OneWay'
  BY <1>3, <1>5 DEF OneWay
<1>7. run # "completed"
  BY <1>4, RecursionAssumption DEF IInv, Decided
<1>8. Cardinality(Live') = Cardinality(Live) + Cardinality(NewNodes(children)) - 1
  BY <1>1 DEF LiveCount
<1> QED
  BY <1>1, <1>3, <1>4, <1>5, <1>6, <1>7, <1>8

-----------------------------------------------------------------------------
(***************************************************************************)
(* Each handler keeps the invariant.                                       *)
(***************************************************************************)
GraphType ==
    /\ source \in 0 .. MaxDepth
    /\ waiting \in 0 .. NumNodes
    /\ open \in 0 .. NumNodes
    /\ paused \in BOOLEAN
    /\ run \in Ended \cup {"running"}
    /\ \A e \in lost : e.kind \in {"node_action", "task", "completed"}

LEMMA TypeParts == TypeOK <=> LoopType /\ GraphType
BY DEF TypeOK, LoopType, GraphType

LEMMA ZeroInline == ASSUME TypeOK PROVE 0 \in Inline
BY RecursionAssumption DEF Inline, TypeOK

LEMMA NoChildren ==
    /\ <<>> \in Seq(ChildEvent) /\ Len(<<>>) = 0
    /\ 1 .. Len(<<>>) = {}
OBVIOUS

LEMMA DomainStep ==
    ASSUME IInv, NEW i \in 1 .. Len(queue), HandleDomain(i)
    PROVE  IInv'
<1> DEFINE e == queue[i]
<1>1. /\ e.kind \in {"domain", "replan"} /\ source' = e.depth
      /\ paused' = paused /\ lost' = lost
  BY DEF HandleDomain
<1>2. 0 \in Inline /\ NumNodes \in Nat /\ waiting \in 0 .. NumNodes
  BY ZeroInline, RecursionAssumption DEF IInv, TypeOK
<1>3. CASE /\ e.kind = "domain"
           /\ \E k \in 1 .. waiting :
                 /\ Handles(i, Tasks(k, e), 0)
                 /\ waiting' = waiting - k /\ open' = k
           /\ UNCHANGED run
  <2>1. PICK k \in 1 .. waiting :
           /\ Handles(i, Tasks(k, e), 0)
           /\ waiting' = waiting - k /\ open' = k
    BY <1>3
  <2>2. e.id \notin seen /\ ~ExceedsMaxDepth(e)
    BY <2>1 DEF Handles
  <2>3. e = Seed /\ Queued = {Seed} /\ waiting = NumNodes /\ run = "running"
    BY <1>3, <2>2, SeedHandled
  <2>4. k \in Nat /\ k \in 1 .. NumNodes
    BY <1>2, <2>3
  <2> DEFINE c == Tasks(k, e)
  <2>5. e.depth \in 0 .. MaxDepth
    BY <2>3, RecursionAssumption DEF Seed
  <2>6. c \in Seq(ChildEvent) /\ Len(c) = k /\ \A j \in 1 .. k : c[j].kind = "task"
    BY <2>4, <2>5, TaskChildren
  <2> HIDE DEF c
  <2>7. Handles(i, c, 0)
    BY <2>1 DEF c
  <2>8. /\ LoopType' /\ EventsFit' /\ LostFits' /\ ModeFits' /\ SeedFirst' /\ SeedAlone'
        /\ \A f \in lost' : f.kind \in {"node_action", "task", "completed"}
    BY <1>1, <1>2, <2>6, <2>7, HandlesCommon
  <2>9. /\ Queued' \subseteq Queued \cup New(c) /\ New(c) \subseteq Queued'
        /\ \A f \in New(c) : \E j \in 1 .. Len(c) : f = Stamp(c)[j] /\ f.kind = c[j].kind
        /\ nextId \in 2 .. MaxEvents + 1 /\ nextId + Len(c) <= MaxEvents + 1
        /\ IsFiniteSet(Live') /\ Cardinality(Live') = LiveCount(c, e)
        /\ Cardinality(Live) \in Nat
    BY <1>1, <1>2, <2>6, <2>7, Handled
  <2>10. \A f \in Queued' : f.kind \in {"task", "domain"}
    BY <2>3, <2>6, <2>9 DEF Seed
  <2>11. open = 0 /\ paused = FALSE /\ lost = {}
    BY <2>3 DEF IInv, OneWay, TypeOK
  <2>12. Cardinality(Live') = k
    <3>1. Cardinality(NewNodes(c)) = k
      BY <2>6, <2>9, NewTasks
    <3>2. Cardinality(Live) = 0 /\ e.kind \notin NodeKind
      BY <1>3, <2>9, <2>11 DEF IInv, Counted, NodeKind
    <3>3. LiveCount(c, e) = 0 + k - 0
      BY <3>1, <3>2 DEF LiveCount
    <3> QED
      BY <2>4, <2>9, <3>3
  <2>13. waiting' \in 0 .. NumNodes /\ waiting' < NumNodes /\ open' + waiting' = NumNodes
    BY <1>2, <2>1, <2>3, <2>4
  <2>14. OneWay'
    BY <1>2, <2>10, <2>13 DEF OneWay, PlanKind
  <2>15. Counted'
    BY <1>1, <1>2, <2>1, <2>4, <2>9, <2>11, <2>12, <2>13 DEF Counted
  <2>16. Decided'
    BY <1>2, <1>3, <2>1, <2>3, <2>4, <2>13 DEF Decided
  <2>17. GraphType'
    <3>0. open' \in 0 .. NumNodes
      BY <1>2, <2>1, <2>4
    <3>1. source' \in 0 .. MaxDepth /\ open' \in 0 .. NumNodes /\ paused' \in BOOLEAN
      BY <1>1, <2>5, <2>11, <3>0
    <3> QED
      BY <1>3, <2>3, <2>8, <2>13, <3>1 DEF GraphType
  <2> QED
    BY <2>8, <2>14, <2>15, <2>16, <2>17, TypeParts DEF IInv, TypeOK, LoopType, GraphType
<1>4. ASSUME NEW c \in Seq(ChildEvent), Handles(i, c, 0),
             \/ Len(c) = 1 /\ c[1].kind = "action" /\ run' = "running"
             \/ Len(c) = 0 /\ run' = "failed",
             UNCHANGED <<waiting, open>>
      PROVE  IInv'
  <2>1. /\ LoopType' /\ EventsFit' /\ LostFits' /\ ModeFits' /\ SeedFirst' /\ SeedAlone'
        /\ \A f \in lost' : f.kind \in {"node_action", "task", "completed"}
    BY <1>1, <1>2, <1>4, HandlesCommon
  <2>2. e.kind \in PlanKind \cup {"domain"}
    BY <1>1 DEF PlanKind
  <2>3. \A k \in 1 .. Len(c) : k = 1 /\ c[k].kind = "action"
    <3>1. CASE Len(c) = 1 /\ c[1].kind = "action"
      <4>1. \A k \in 1 .. 1 : k = 1
        OBVIOUS
      <4> QED
        BY <3>1, <4>1
    <3>2. CASE Len(c) = 0
      <4>1. 1 .. 0 = {}
        OBVIOUS
      <4> QED
        BY <3>2, <4>1
    <3> QED
      BY <1>4, <3>1, <3>2
  <2>4. waiting = NumNodes /\ OneWay' /\ Counted'
    BY <1>1, <1>2, <1>4, <2>2, <2>3, WholePlan DEF NodeKind
  <2>5. /\ e.depth \in 0 .. MaxDepth /\ New(c) \subseteq Queued'
        /\ \A k \in 1 .. Len(c) : \E f \in New(c) : f.kind = c[k].kind
    BY <1>1, <1>2, <1>4, Handled
  <2>6. Decided'
    <3>1. CASE run' = "failed"
      BY <3>1 DEF Decided
    <3>2. CASE Len(c) = 1 /\ c[1].kind = "action" /\ run' = "running"
      <4>1. \E f \in Queued' : f.kind = "action"
        BY <2>5, <3>2
      <4>2. waiting' = NumNodes /\ ~(waiting' < NumNodes)
        BY <1>2, <1>4, <2>4
      <4> QED
        BY <3>2, <4>1, <4>2 DEF Decided
    <3> QED
      BY <1>4, <3>1, <3>2
  <2>7. GraphType'
    BY <1>1, <1>4, <2>1, <2>5 DEF GraphType, IInv, TypeOK, Ended
  <2> QED
    BY <2>1, <2>4, <2>6, <2>7, TypeParts DEF IInv, TypeOK, LoopType, GraphType
<1>5. CASE /\ Handles(i, <<To("action", Child(e))>>, 0)
           /\ run' = "running"
           /\ UNCHANGED <<waiting, open>>
  <2>1. IInv /\ ~ExceedsMaxDepth(e)
    BY <1>5 DEF Handles
  <2>2. Child(e) \in 0 .. MaxDepth + InlineBudget + 1
    <3>1. e.depth \in 0 .. MaxDepth
      BY <2>1, DepthOfHandled DEF IInv, QueueInv
    <3> QED
      BY <3>1, RecursionAssumption DEF Child
  <2>3. "action" \in Kind \ {"domain"}
    BY DEF Kind
  <2> QED
    BY <1>4, <1>5, <2>2, <2>3, OneChild
<1>6. CASE /\ Handles(i, <<>>, 0)
           /\ run' = "failed"
           /\ UNCHANGED <<waiting, open>>
  BY <1>4, <1>6, NoChildren
<1> QED
  BY <1>3, <1>5, <1>6 DEF HandleDomain

LEMMA SuggestionStep ==
    ASSUME IInv, NEW i \in 1 .. Len(queue), HandleSuggestion(i)
    PROVE  IInv'
<1> DEFINE e == queue[i]
<1>1. /\ e.kind = "suggestion" /\ Handles(i, <<>>, 0)
      /\ source' = source /\ waiting' = waiting /\ open' = open /\ paused' = paused
      /\ run' = run /\ lost' = lost
  BY DEF HandleSuggestion, graph
<1>2. 0 \in Inline
  BY ZeroInline DEF IInv
<1>3. /\ LoopType' /\ EventsFit' /\ LostFits' /\ ModeFits' /\ SeedFirst' /\ SeedAlone'
  BY <1>1, <1>2, NoChildren, HandlesCommon
<1>4. /\ e \in Queued /\ Queued' \subseteq Queued \cup New(<<>>) /\ Queued \ {e} \subseteq Queued'
      /\ \A f \in New(<<>>) : \E k \in 1 .. Len(<<>>) :
            f = Stamp(<<>>)[k] /\ f.kind = <<>>[k].kind
      /\ nextId \in 2 .. MaxEvents + 1 /\ nextId + Len(<<>>) <= MaxEvents + 1
      /\ IsFiniteSet(Live') /\ Cardinality(Live') = LiveCount(<<>>, e)
      /\ Cardinality(Live) \in Nat
  BY <1>1, <1>2, NoChildren, Handled DEF Leaves
<1>5. Queued' \subseteq Queued
  BY <1>4, NoChildren
<1>6. Cardinality(Live') = Cardinality(Live)
  <2>1. Cardinality(NewNodes(<<>>)) = 0
    BY <1>4, NoChildren, NoNewNodes
  <2>2. e.kind \notin NodeKind
    BY <1>1 DEF NodeKind
  <2>3. LiveCount(<<>>, e) = Cardinality(Live) + 0 - 0
    BY <2>1, <2>2 DEF LiveCount
  <2> QED
    BY <1>4, <2>3
<1>7. OneWay'
  BY <1>1, <1>5 DEF IInv, OneWay
<1>8. Counted'
  BY <1>1, <1>4, <1>6 DEF IInv, Counted
<1>9. ~Unhandled
  <2> SUFFICES ASSUME Unhandled PROVE FALSE
    OBVIOUS
  <2>1. queue = <<Seed>> \/ queue = <<>>
    BY DEF IInv, SeedFirst
  <2>2. queue = <<Seed>>
    BY <2>1
  <2>3. e = Seed
    <3>1. Len(<<Seed>>) = 1 /\ <<Seed>>[1] = Seed
      OBVIOUS
    <3>2. i = 1
      BY <2>2, <3>1
    <3> QED
      BY <2>2, <3>1, <3>2
  <2> QED
    BY <1>1, <2>3 DEF Seed
<1>10. Decided'
  <2>1. ASSUME NEW f \in Queued, f.kind = "action" PROVE f \in Queued'
    BY <1>1, <1>4, <2>1
  <2> QED
    BY <1>1, <1>5, <1>9, <2>1 DEF IInv, Decided
<1>11. GraphType'
  BY <1>1 DEF GraphType, IInv, TypeOK
<1> QED
  BY <1>3, <1>7, <1>8, <1>10, <1>11, TypeParts DEF IInv, TypeOK, LoopType, GraphType

\* One more hop, and the actions continued inline, stay within one invocation
\* of the limit.
LEMMA ChildDepth ==
    ASSUME TypeOK, NEW e \in QueuedEvent, e.depth \in 0 .. MaxDepth, NEW used \in Inline
    PROVE  Child(Last(e, used)) \in 0 .. MaxDepth + InlineBudget + 1
<1>1. used \in 0 .. InlineBudget
  BY RecursionAssumption DEF Inline, TypeOK
<1>2. Last(e, used).depth = e.depth + used
  BY DEF Last, QueuedEvent
<1> QED
  BY <1>1, <1>2, RecursionAssumption DEF Child

LEMMA ActionStep ==
    ASSUME IInv, NEW i \in 1 .. Len(queue), HandleAction(i)
    PROVE  IInv'
<1> DEFINE e == queue[i]
<1>1. /\ e.kind = "action"
      /\ source' = source /\ waiting' = waiting /\ open' = open /\ paused' = paused
      /\ lost' = lost
  BY DEF HandleAction, graph
<1>2. PICK used \in Inline : \E hint \in {<<>>, Suggestion} :
         LET last == Last(e, used)
         IN  \/ /\ Handles(i, hint \o <<To("action", Child(last))>>, used)
                /\ UNCHANGED run
             \/ /\ Handles(i, <<To("replan", Child(last))>>, used)
                /\ run' = "waiting"
             \/ /\ Handles(i, hint, used)
                /\ run' \in Ended
  BY DEF HandleAction
<1>3. PICK hint \in {<<>>, Suggestion} :
         \/ /\ Handles(i, hint \o <<To("action", Child(Last(e, used)))>>, used)
            /\ UNCHANGED run
         \/ /\ Handles(i, <<To("replan", Child(Last(e, used)))>>, used)
            /\ run' = "waiting"
         \/ /\ Handles(i, hint, used)
            /\ run' \in Ended
  BY <1>2
<1>4. ~ExceedsMaxDepth(e)
  BY <1>3 DEF Handles
<1>5. e \in Queued /\ e \in QueuedEvent /\ e.depth \in 0 .. MaxDepth
  BY <1>4, DepthOfHandled DEF IInv, QueueInv
<1>6. Child(Last(e, used)) \in 0 .. MaxDepth + InlineBudget + 1
  BY <1>5, ChildDepth DEF IInv
<1>7. source \in 0 .. MaxDepth /\ run # "completed"
  BY <1>1, <1>5 DEF IInv, TypeOK, Decided, PlanKind
<1>8. ASSUME NEW c \in Seq(ChildEvent), Handles(i, c, used),
             \A k \in 1 .. Len(c) - 1 : c[k].kind = "suggestion",
             \/ Len(c) > 0 /\ c[Len(c)].kind = "action" /\ run' = run
             \/ Len(c) > 0 /\ c[Len(c)].kind = "replan" /\ run' = "waiting"
             \/ (Len(c) > 0 => c[Len(c)].kind = "suggestion") /\ run' \in Ended
      PROVE  IInv'
  <2>1. /\ LoopType' /\ EventsFit' /\ LostFits' /\ ModeFits' /\ SeedFirst' /\ SeedAlone'
    BY <1>1, <1>8, HandlesCommon
  <2>2. Len(c) \in Nat /\ \A k \in 1 .. Len(c) : k = Len(c) \/ k \in 1 .. Len(c) - 1
    BY LenProperties
  <2>3. \A k \in 1 .. Len(c) : Len(c) > 0
    BY <2>2
  <2>4. \A k \in 1 .. Len(c) : c[k].kind \in {"suggestion", "action", "replan"}
    BY <1>8, <2>2, <2>3
  <2>5. \A k \in 1 .. Len(c) : c[k].kind \notin NodeKind
    BY <2>4 DEF NodeKind
  <2>6. \A k \in 1 .. Len(c) : c[k].kind \in PlanKind => k = Len(c)
    BY <1>8, <2>2 DEF PlanKind
  <2>7. /\ waiting = NumNodes /\ OneWay' /\ Counted'
        /\ \A f \in Queued' : f.kind \in PlanKind => f \in New(c)
    BY <1>1, <1>8, <2>5, <2>6, WholePlan DEF PlanKind
  <2>8. /\ New(c) \subseteq Queued'
        /\ \A f \in New(c) : \E k \in 1 .. Len(c) : f = Stamp(c)[k] /\ f.kind = c[k].kind
        /\ \A k \in 1 .. Len(c) : \E f \in New(c) : f.kind = c[k].kind
    BY <1>1, <1>8, Handled
  <2>9. waiting' = NumNodes /\ ~(waiting' < NumNodes) /\ open' = 0
    BY <1>1, <2>7, RecursionAssumption DEF IInv, OneWay
  <2>10. Decided'
    <3>1. CASE Len(c) > 0 /\ c[Len(c)].kind = "action" /\ run' = run
      <4>1. Len(c) \in 1 .. Len(c)
        BY <2>2, <3>1
      <4>2. \E f \in Queued' : f.kind = "action"
        BY <2>8, <3>1, <4>1
      <4> QED
        BY <1>7, <2>9, <3>1, <4>2 DEF Decided
    <3>2. CASE run' = "waiting"
      BY <3>2 DEF Decided
    <3>3. CASE (Len(c) > 0 => c[Len(c)].kind = "suggestion") /\ run' \in Ended
      <4>1. \A k \in 1 .. Len(c) : c[k].kind = "suggestion"
        BY <1>8, <2>2, <2>3, <3>3
      <4>2. \A f \in Queued' : f.kind \notin PlanKind
        BY <2>7, <2>8, <4>1 DEF PlanKind
      <4> QED
        BY <2>9, <3>3, <4>2 DEF Decided, Ended
    <3> QED
      BY <1>8, <3>1, <3>2, <3>3
  <2>11. GraphType'
    BY <1>1, <1>8 DEF GraphType, IInv, TypeOK, Ended
  <2> QED
    BY <2>1, <2>7, <2>10, <2>11, TypeParts DEF IInv, TypeOK, LoopType, GraphType
<1>9. CASE Handles(i, hint \o <<To("action", Child(Last(e, used)))>>, used) /\ UNCHANGED run
  <2> DEFINE d == Child(Last(e, used))
             c == Hinted(hint, "action", d)
  <2>1. "action" \in Kind \ {"domain"} /\ d \in 0 .. MaxDepth + InlineBudget + 1
    BY <1>6 DEF Kind
  <2> HIDE DEF d
  <2>0. c = Hinted(hint, "action", d)
    OBVIOUS
  <2> HIDE DEF c
  <2>2. /\ c \in Seq(ChildEvent) /\ Len(c) \in {1, 2} /\ c[Len(c)].kind = "action"
        /\ \A k \in 1 .. Len(c) - 1 : c[k].kind = "suggestion"
    BY <1>7, <2>0, <2>1, HintedChild
  <2>3. Len(c) > 0
    <3>1. \A n \in {1, 2} : n > 0
      OBVIOUS
    <3> QED
      BY <2>2, <3>1, Zenon
  <2>4. Handles(i, c, used) /\ run' = run
    BY <1>9 DEF c, d, Hinted
  <2> QED
    BY <1>8, <2>2, <2>3, <2>4
<1>10. CASE Handles(i, <<To("replan", Child(Last(e, used)))>>, used) /\ run' = "waiting"
  <2> DEFINE c == <<To("replan", Child(Last(e, used)))>>
  <2>1. "replan" \in Kind \ {"domain"}
    BY DEF Kind
  <2>2. c \in Seq(ChildEvent) /\ Len(c) = 1 /\ c[1].kind = "replan"
    BY <1>6, <2>1, OneChild
  <2> HIDE DEF c
  <2>3. Len(c) > 0 /\ 1 .. Len(c) - 1 = {}
    BY <2>2
  <2>4. Handles(i, c, used)
    BY <1>10 DEF c
  <2> QED
    BY <1>8, <1>10, <2>2, <2>3, <2>4
<1>11. CASE Handles(i, hint, used) /\ run' \in Ended
  <2>1. /\ hint \in Seq(ChildEvent) /\ Len(hint) \in {0, 1}
        /\ \A k \in 1 .. Len(hint) : hint[k].kind = "suggestion"
    BY <1>7, Hint
  <2>2. 1 .. Len(hint) - 1 = {} /\ (Len(hint) > 0 => Len(hint) \in 1 .. Len(hint))
    <3> SUFFICES ASSUME NEW n \in {0, 1} PROVE 1 .. n - 1 = {} /\ (n > 0 => n \in 1 .. n)
      BY <2>1
    <3> QED
      OBVIOUS
  <2> QED
    BY <1>8, <1>11, <2>1, <2>2
<1> QED
  BY <1>3, <1>9, <1>10, <1>11

\* An event that is followed by one of the same node.
LEMMA NodeGoesOn ==
    ASSUME IInv,
           NEW i \in 1 .. Len(queue), NEW c \in Seq(ChildEvent), NEW used \in Inline,
           Handles(i, c, used), queue[i].kind \in NodeKind,
           Len(c) \in {1, 2}, c[Len(c)].kind \in NodeKind,
           \A k \in 1 .. Len(c) - 1 : c[k].kind = "suggestion",
           UNCHANGED <<graph, run, lost>>
    PROVE  IInv'
<1>1. /\ source' = source /\ waiting' = waiting /\ open' = open /\ paused' = paused
      /\ run' = run /\ lost' = lost
  BY DEF graph
<1>2. /\ LoopType' /\ EventsFit' /\ LostFits' /\ ModeFits' /\ SeedFirst' /\ SeedAlone'
  BY <1>1, HandlesCommon
<1>3. \A k \in 1 .. Len(c) : c[k].kind \notin PlanKind
  <2>1. \A k \in 1 .. Len(c) : k = Len(c) \/ k \in 1 .. Len(c) - 1
    OBVIOUS
  <2> QED
    BY <2>1 DEF NodeKind, PlanKind
<1>4. waiting' \in 0 .. waiting
  BY <1>1, RecursionAssumption DEF IInv, TypeOK
<1>5. /\ waiting < NumNodes /\ run # "completed" /\ waiting \in 0 .. NumNodes
      /\ open \in 1 .. NumNodes
      /\ OneWay' /\ IsFiniteSet(Live') /\ Cardinality(Live) \in Nat
      /\ Cardinality(Live') = Cardinality(Live) + Cardinality(NewNodes(c)) - 1
      /\ nextId \in 2 .. MaxEvents + 1 /\ nextId + Len(c) <= MaxEvents + 1
  BY <1>1, <1>3, <1>4, NodeEvent
<1>6. Cardinality(NewNodes(c)) = 1
  BY <1>5, OneNewNode
<1>7. Cardinality(Live') = Cardinality(Live)
  BY <1>5, <1>6
<1>8. Counted'
  BY <1>1, <1>5, <1>7 DEF IInv, Counted
<1>9. Decided'
  BY <1>1, <1>5, RecursionAssumption DEF IInv, Decided
<1>10. GraphType'
  BY <1>1 DEF GraphType, IInv, TypeOK
<1> QED
  BY <1>2, <1>5, <1>8, <1>9, <1>10, TypeParts DEF IInv, TypeOK, LoopType, GraphType

LEMMA NodeActionStep ==
    ASSUME IInv, NEW i \in 1 .. Len(queue), HandleNodeAction(i)
    PROVE  IInv'
<1> DEFINE e == queue[i]
<1>1. e.kind = "node_action" /\ UNCHANGED <<graph, run, lost>>
  BY DEF HandleNodeAction
<1>2. PICK used \in Inline, hint \in {<<>>, Suggestion}, kind \in {"node_action", "completed"} :
         Handles(i, hint \o <<To(kind, Child(Last(e, used)))>>, used)
  BY DEF HandleNodeAction
<1>3. ~ExceedsMaxDepth(e)
  BY <1>2 DEF Handles
<1>4. e \in Queued /\ e \in QueuedEvent /\ e.depth \in 0 .. MaxDepth
  BY <1>3, DepthOfHandled DEF IInv, QueueInv
<1> DEFINE d == Child(Last(e, used))
           c == Hinted(hint, kind, d)
<1>5. d \in 0 .. MaxDepth + InlineBudget + 1
  BY <1>4, ChildDepth DEF IInv
<1> HIDE DEF d
<1>6. c = Hinted(hint, kind, d)
  OBVIOUS
<1> HIDE DEF c
<1>7. kind \in Kind \ {"domain"} /\ kind \in NodeKind /\ source \in 0 .. MaxDepth
  BY DEF Kind, NodeKind, IInv, TypeOK
<1>8. /\ c \in Seq(ChildEvent) /\ Len(c) \in {1, 2} /\ c[Len(c)].kind = kind
      /\ \A k \in 1 .. Len(c) - 1 : c[k].kind = "suggestion"
  BY <1>5, <1>6, <1>7, HintedChild
<1>9. Handles(i, c, used)
  BY <1>2 DEF c, d, Hinted
<1> QED
  BY <1>1, <1>7, <1>8, <1>9, NodeGoesOn DEF NodeKind

LEMMA TaskStep ==
    ASSUME IInv, NEW i \in 1 .. Len(queue), HandleTask(i)
    PROVE  IInv'
<1> DEFINE e == queue[i]
<1>1. e.kind = "task" /\ UNCHANGED <<graph, run>> /\ e.kind \in NodeKind
  BY DEF HandleTask, NodeKind
<1>2. 0 \in Inline
  BY ZeroInline DEF IInv
<1>3. CASE /\ \E kind \in {"node_action", "completed"} : Handles(i, <<To(kind, Child(e))>>, 0)
           /\ UNCHANGED lost
  <2>1. PICK kind \in {"node_action", "completed"} : Handles(i, <<To(kind, Child(e))>>, 0)
    BY <1>3
  <2>2. ~ExceedsMaxDepth(e)
    BY <2>1 DEF Handles
  <2>3. e.depth \in 0 .. MaxDepth
    BY <2>2, DepthOfHandled DEF IInv, QueueInv
  <2> DEFINE d == Child(e)
             c == <<To(kind, d)>>
  <2>4. d \in 0 .. MaxDepth + InlineBudget + 1
    BY <2>3, RecursionAssumption DEF Child
  <2> HIDE DEF d
  <2>5. kind \in Kind \ {"domain"} /\ kind \in NodeKind
    BY DEF Kind, NodeKind
  <2>6. c \in Seq(ChildEvent) /\ Len(c) = 1 /\ c[1].kind = kind
    BY <2>4, <2>5, OneChild
  <2> HIDE DEF c
  <2>7. Handles(i, c, 0)
    BY <2>1 DEF c, d
  <2>8. 1 .. Len(c) - 1 = {} /\ Len(c) \in {1, 2}
    BY <2>6
  <2> QED
    BY <1>1, <1>2, <1>3, <2>5, <2>6, <2>7, <2>8, NodeGoesOn
<1>4. CASE /\ mode = "process"
           /\ Handles(i, <<>>, 0)
           /\ lost' = lost \cup {e}
  <2>1. /\ source' = source /\ waiting' = waiting /\ open' = open /\ paused' = paused
        /\ run' = run
    BY <1>1 DEF graph
  <2>2. /\ LoopType' /\ EventsFit' /\ LostFits' /\ ModeFits' /\ SeedFirst' /\ SeedAlone'
        /\ \A f \in lost' : f.kind \in {"node_action", "task", "completed"}
    BY <1>1, <1>2, <1>4, NoChildren, HandlesCommon
  <2>3. waiting' \in 0 .. waiting
    BY <2>1, RecursionAssumption DEF IInv, TypeOK
  <2>4. /\ waiting < NumNodes /\ run # "completed" /\ waiting \in 0 .. NumNodes
        /\ OneWay' /\ IsFiniteSet(Live') /\ Cardinality(Live) \in Nat
        /\ Cardinality(Live') = Cardinality(Live) + Cardinality(NewNodes(<<>>)) - 1
        /\ nextId \in 2 .. MaxEvents + 1 /\ nextId + Len(<<>>) <= MaxEvents + 1
        /\ open \in 1 .. NumNodes
    BY <1>1, <1>2, <1>4, <2>3, NoChildren, NodeEvent
  <2>5. Cardinality(NewNodes(<<>>)) = 0
    BY <2>4, NoChildren, NoNewNodes
  <2>6. Cardinality(Live') = Cardinality(Live) - 1
    BY <2>4, <2>5
  <2>7. lost' # {}
    BY <1>4
  <2>8. Cardinality(Live') < open /\ Cardinality(Live') <= open
    BY <2>4, <2>6, RecursionAssumption DEF IInv, Counted
  <2>9. Counted'
    BY <2>1, <2>4, <2>7, <2>8 DEF IInv, Counted
  <2>10. Decided'
    BY <2>1, <2>4, <2>7, RecursionAssumption DEF Decided
  <2>11. GraphType'
    BY <2>1, <2>2 DEF GraphType, IInv, TypeOK
  <2> QED
    BY <2>2, <2>4, <2>9, <2>10, <2>11, TypeParts DEF IInv, TypeOK, LoopType, GraphType
<1> QED
  BY <1>3, <1>4 DEF HandleTask

\* A node that settles is not open any more, the nodes it starts are.
LEMMA CompletedStep ==
    ASSUME IInv, NEW i \in 1 .. Len(queue), HandleCompleted(i)
    PROVE  IInv'
<1> DEFINE e == queue[i]
<1>1. e.kind = "completed" /\ e.kind \in NodeKind /\ source' = source /\ lost' = lost
  BY DEF HandleCompleted, NodeKind
<1>2. 0 \in Inline /\ NumNodes \in Nat /\ waiting \in 0 .. NumNodes
  BY ZeroInline, RecursionAssumption DEF IInv, TypeOK
<1>3. ASSUME NEW k \in 0 .. waiting, NEW c \in Seq(ChildEvent), Len(c) = k,
             \A j \in 1 .. Len(c) : c[j].kind = "task",
             Handles(i, c, 0), waiting' = waiting - k
      PROVE  /\ LoopType' /\ EventsFit' /\ LostFits' /\ ModeFits' /\ SeedFirst' /\ SeedAlone'
             /\ \A f \in lost' : f.kind \in {"node_action", "task", "completed"}
             /\ OneWay' /\ run # "completed"
             /\ waiting < NumNodes /\ waiting' \in 0 .. NumNodes /\ waiting' < NumNodes
             /\ open \in 1 .. NumNodes
             /\ \A f \in Queued' : f.kind \notin PlanKind
             /\ IsFiniteSet(Live') /\ Cardinality(Live) \in Nat
             /\ Cardinality(Live') = Cardinality(Live) + k - 1
  <2>1. \A j \in 1 .. Len(c) : c[j].kind \notin PlanKind
    BY <1>3 DEF PlanKind
  <2>2. waiting' \in 0 .. waiting
    BY <1>2, <1>3
  <2>3. /\ waiting < NumNodes /\ run # "completed"
        /\ OneWay' /\ IsFiniteSet(Live') /\ Cardinality(Live) \in Nat
        /\ open \in 1 .. NumNodes
        /\ \A f \in Queued' : f.kind \notin PlanKind
        /\ Cardinality(Live') = Cardinality(Live) + Cardinality(NewNodes(c)) - 1
        /\ nextId \in 2 .. MaxEvents + 1 /\ nextId + Len(c) <= MaxEvents + 1
    BY <1>1, <1>2, <1>3, <2>1, <2>2, NodeEvent
  <2>4. Cardinality(NewNodes(c)) = k
    BY <1>3, <2>3, NewTasks
  <2>5. Cardinality(Live') = Cardinality(Live) + k - 1
    BY <2>3, <2>4
  <2>6. /\ LoopType' /\ EventsFit' /\ LostFits' /\ ModeFits' /\ SeedFirst' /\ SeedAlone'
        /\ \A f \in lost' : f.kind \in {"node_action", "task", "completed"}
    BY <1>1, <1>2, <1>3, HandlesCommon
  <2>7. waiting' \in 0 .. NumNodes /\ waiting' < NumNodes
    BY <1>2, <2>2, <2>3
  <2> QED
    BY <2>3, <2>5, <2>6, <2>7
<1>4. CASE Handles(i, <<>>, 0) /\ paused' = TRUE /\ UNCHANGED <<waiting, open, run>>
  <2>1. 0 \in 0 .. waiting /\ waiting' = waiting - 0
    BY <1>2, <1>4
  <2>2. /\ LoopType' /\ EventsFit' /\ LostFits' /\ ModeFits' /\ SeedFirst' /\ SeedAlone'
        /\ \A f \in lost' : f.kind \in {"node_action", "task", "completed"}
        /\ OneWay' /\ run # "completed"
        /\ waiting' < NumNodes /\ waiting' \in 0 .. NumNodes
        /\ open \in 1 .. NumNodes
        /\ IsFiniteSet(Live') /\ Cardinality(Live) \in Nat
        /\ Cardinality(Live') = Cardinality(Live) + 0 - 1
    BY <1>3, <1>4, <2>1, NoChildren
  <2>3. Cardinality(Live') < open /\ Cardinality(Live') <= open
    BY <1>2, <2>2 DEF IInv, Counted
  <2>4. Counted'
    BY <1>4, <2>2, <2>3 DEF IInv, Counted
  <2>5. Decided'
    BY <1>2, <1>4, <2>2 DEF Decided
  <2>6. GraphType'
    BY <1>1, <1>4, <2>2 DEF GraphType, IInv, TypeOK
  <2> QED
    BY <2>2, <2>4, <2>5, <2>6, TypeParts DEF IInv, TypeOK, LoopType, GraphType
<1>5. CASE Handles(i, <<>>, 0) /\ open' = open - 1 /\ run' = "failed" /\ UNCHANGED <<waiting, paused>>
  <2>1. 0 \in 0 .. waiting /\ waiting' = waiting - 0
    BY <1>2, <1>5
  <2>2. /\ LoopType' /\ EventsFit' /\ LostFits' /\ ModeFits' /\ SeedFirst' /\ SeedAlone'
        /\ \A f \in lost' : f.kind \in {"node_action", "task", "completed"}
        /\ OneWay'
        /\ waiting' \in 0 .. NumNodes
        /\ open \in 1 .. NumNodes
        /\ IsFiniteSet(Live') /\ Cardinality(Live) \in Nat
        /\ Cardinality(Live') = Cardinality(Live) + 0 - 1
    BY <1>3, <1>5, <2>1, NoChildren
  <2>3. /\ Cardinality(Live') <= open' /\ open' + waiting' <= NumNodes /\ open' \in 0 .. NumNodes
        /\ Cardinality(Live) < open => Cardinality(Live') < open'
    BY <1>2, <1>5, <2>1, <2>2 DEF IInv, Counted
  <2>4. Counted'
    BY <1>1, <1>5, <2>2, <2>3 DEF IInv, Counted
  <2>5. Decided'
    BY <1>5 DEF Decided
  <2>6. GraphType'
    BY <1>1, <1>5, <2>2, <2>3 DEF GraphType, IInv, TypeOK, Ended
  <2> QED
    BY <2>2, <2>4, <2>5, <2>6, TypeParts DEF IInv, TypeOK, LoopType, GraphType
<1>6. CASE /\ \E k \in 0 .. waiting :
                 /\ Handles(i, Tasks(k, e), 0)
                 /\ waiting' = waiting - k
                 /\ open' = open - 1 + k
           /\ run' = IF open' > 0 THEN run
                     ELSE IF waiting' = 0 /\ run = "running" THEN "completed" ELSE "failed"
           /\ UNCHANGED paused
  <2>1. PICK k \in 0 .. waiting :
           Handles(i, Tasks(k, e), 0) /\ waiting' = waiting - k /\ open' = open - 1 + k
    BY <1>6
  <2>2. ~ExceedsMaxDepth(e)
    BY <2>1 DEF Handles
  <2>3. e.depth \in 0 .. MaxDepth
    BY <2>2, DepthOfHandled DEF IInv, QueueInv
  <2> DEFINE c == Tasks(k, e)
  <2>4. k \in Nat
    BY <1>2
  <2>5. c \in Seq(ChildEvent) /\ Len(c) = k /\ \A j \in 1 .. Len(c) : c[j].kind = "task"
    BY <2>3, <2>4, TaskChildren
  <2> HIDE DEF c
  <2>6. Handles(i, c, 0)
    BY <2>1 DEF c
  <2>7. /\ LoopType' /\ EventsFit' /\ LostFits' /\ ModeFits' /\ SeedFirst' /\ SeedAlone'
        /\ \A f \in lost' : f.kind \in {"node_action", "task", "completed"}
        /\ OneWay' /\ run # "completed"
        /\ waiting' < NumNodes /\ waiting' \in 0 .. NumNodes
        /\ open \in 1 .. NumNodes
        /\ \A f \in Queued' : f.kind \notin PlanKind
        /\ IsFiniteSet(Live') /\ Cardinality(Live) \in Nat
        /\ Cardinality(Live') = Cardinality(Live) + k - 1
    BY <1>3, <2>1, <2>5, <2>6
  <2>8. /\ Cardinality(Live') <= open' /\ open' + waiting' <= NumNodes /\ open' \in 0 .. NumNodes
        /\ Cardinality(Live) < open => Cardinality(Live') < open'
        /\ Cardinality(Live) = open => Cardinality(Live') = open'
    BY <1>2, <2>1, <2>4, <2>7 DEF IInv, Counted
  <2>9. run' = "running" => run = "running" /\ open' > 0
    BY <1>6
  <2>10. run' = "completed" => open' = 0
    BY <1>2, <1>6, <2>7, <2>8
  <2>11. Counted'
    BY <1>1, <1>6, <2>7, <2>8, <2>9 DEF IInv, Counted
  <2>12. Decided'
    BY <1>2, <2>7, <2>9, <2>10 DEF Decided
  <2>13. GraphType'
    BY <1>1, <1>6, <2>7, <2>8 DEF GraphType, IInv, TypeOK, Ended
  <2> QED
    BY <2>7, <2>11, <2>12, <2>13, TypeParts DEF IInv, TypeOK, LoopType, GraphType
<1> QED
  BY <1>4, <1>5, <1>6 DEF HandleCompleted

-----------------------------------------------------------------------------
(***************************************************************************)
(* The guard, duplicates, and the loop.                                    *)
(***************************************************************************)
\* A queue that loses an event keeps what is said about the others.
LEMMA EventsLeave ==
    ASSUME EventsFit, seen' = seen, nextId' = nextId,
           queue' \in Seq(QueuedEvent), Distinct(queue'), Queued' \subseteq Queued
    PROVE  EventsFit'
<1>1. \A e \in Queued' : /\ e.id < nextId'
                         /\ e.kind = "domain" \/ e.id = 1 => e = Seed
                         /\ e # Seed => e.id \notin seen'
  BY DEF EventsFit
<1>2. \A x \in seen' : x < nextId'
  BY DEF EventsFit
<1> QED
  BY <1>1, <1>2 DEF EventsFit

\* The seed is not cut as long as nothing was lost.
LEMMA SeedIsNotCut ==
    ASSUME IInv, NEW i \in 1 .. Len(queue), ExceedsMaxDepth(queue[i])
    PROVE  /\ ~Unhandled
           /\ queue[i] = Seed => lost # {}
<1>1. queue[i] \in Queued
  BY DEF Queued, Elements
<1>2. ASSUME processed = 0, queue[i] = Seed PROVE FALSE
  <2>1. Seed.depth = 0
    BY DEF Seed
  <2> QED
    BY <1>2, <2>1, RecursionAssumption DEF ExceedsMaxDepth
<1>3. ASSUME queue[i] = Seed, lost = {} PROVE processed = 0
  <2>1. CASE mode = "process"
    BY <1>1, <1>3, <2>1 DEF IInv, SeedAlone
  <2>2. CASE mode = "function"
    BY <2>2 DEF IInv, ModeFits
  <2> QED
    BY <2>1, <2>2 DEF IInv, TypeOK
<1>4. ASSUME Unhandled PROVE FALSE
  <2>1. queue = <<Seed>> \/ queue = <<>>
    BY <1>4 DEF IInv, SeedFirst
  <2>2. queue = <<Seed>>
    BY <2>1
  <2>3. queue[i] = Seed
    <3>1. Len(<<Seed>>) = 1 /\ <<Seed>>[1] = Seed
      OBVIOUS
    <3>2. i = 1
      BY <2>2, <3>1
    <3> QED
      BY <2>2, <3>1, <3>2
  <2>4. lost = {}
    BY <1>4 DEF IInv, SeedFirst, OneWay
  <2> QED
    BY <1>2, <1>3, <2>3, <2>4
<1> QED
  BY <1>2, <1>3, <1>4

LEMMA CutStep ==
    ASSUME IInv, NEW i \in 1 .. Len(queue), Cut(i)
    PROVE  IInv'
<1> DEFINE e == queue[i]
           refused == EventRunId(e) = "other" /\ apiRejects
<1>1. /\ ExceedsMaxDepth(e) /\ (mode = "process" => looping)
      /\ run' = IF EventRunId(e) = "run" THEN "failed" ELSE run
      /\ lost' = IF EventRunId(e) = "run" \/ e.kind = "suggestion" THEN lost ELSE lost \cup {e}
      /\ looping' = (looping /\ ~refused)
      /\ queue' = IF refused /\ mode = "function" THEN queue ELSE Without(i)
      /\ mode' = mode /\ correlation' = correlation /\ apiRejects' = apiRejects
      /\ nextId' = nextId /\ runs' = runs /\ processed' = processed /\ seen' = seen
      /\ inline' = inline /\ source' = source /\ waiting' = waiting /\ open' = open
      /\ paused' = paused
  BY DEF Cut, Deliverable, input, graph
<1>2. /\ e \in Queued /\ e \in QueuedEvent
      /\ queue \in Seq(QueuedEvent) /\ Distinct(queue)
  BY ElementOfSeq DEF IInv, EventsFit, Queued, Elements
<1>3. /\ Without(i) \in Seq(QueuedEvent) /\ Distinct(Without(i))
      /\ Elements(Without(i)) \subseteq Queued
      /\ Queued \ {e} \subseteq Elements(Without(i))
      /\ e # Seed => e \notin Elements(Without(i))
  BY <1>2, Taken
<1>4. Queued' = Elements(queue')
  BY DEF Queued, Elements
<1>5. /\ queue' \in Seq(QueuedEvent) /\ Distinct(queue')
      /\ Queued' \subseteq Queued /\ Queued \ {e} \subseteq Queued'
  BY <1>1, <1>2, <1>3, <1>4 DEF Queued
<1>6. e.kind \in Kind
  BY <1>2 DEF QueuedEvent
<1>7. lost' # lost => e.kind \in NodeKind /\ EventRunId(e) # "run"
  <2> SUFFICES ASSUME EventRunId(e) # "run", e.kind # "suggestion" PROVE e.kind \in NodeKind
    BY <1>1
  <2>1. e.kind \notin {"action", "domain", "replan"}
    BY DEF EventRunId
  <2> QED
    BY <1>6, <2>1 DEF Kind, NodeKind
<1>8. EventRunId(e) = "other" => e.kind \in NodeKind
  BY <1>6 DEF EventRunId, Kind, NodeKind
<1>9. refused => e \in lost'
  BY <1>1, <1>8 DEF NodeKind
<1>10. e.kind \in NodeKind => e # Seed
  BY DEF Seed, NodeKind
<1>11. e.kind \in NodeKind => e \notin Queued' \/ e \in lost'
  BY <1>1, <1>3, <1>4, <1>9, <1>10
<1>12. lost \subseteq lost' /\ lost' \subseteq lost \cup {e}
  BY <1>1
<1>13. EventsFit'
  BY <1>1, <1>5, EventsLeave DEF IInv
<1>14. LostFits'
  <2>1. \A f \in lost' : f \in QueuedEvent /\ f.kind \in NodeKind /\ f.id < nextId'
    BY <1>1, <1>2, <1>7 DEF IInv, LostFits, EventsFit
  <2>2. ASSUME NEW f \in Queued' \cap lost'
        PROVE  mode' = "function" /\ f.depth > MaxDepth
    <3>1. CASE f \in lost
      BY <1>1, <1>5, <2>2, <3>1 DEF IInv, LostFits
    <3>2. CASE f \notin lost
      <4>1. f = e /\ e.kind \in NodeKind
        BY <1>7, <1>12, <2>2, <3>2
      <4>2. mode = "function"
        BY <1>1, <1>3, <1>4, <1>10, <2>2, <4>1
      <4>3. ~(processed >= MaxDepth)
        BY <4>2, RecursionAssumption DEF IInv, ModeFits
      <4> QED
        BY <1>1, <4>1, <4>2, <4>3 DEF ExceedsMaxDepth
    <3> QED
      BY <3>1, <3>2
  <2> QED
    BY <2>1, <2>2 DEF LostFits
<1>15. ModeFits'
  BY <1>1 DEF IInv, ModeFits
<1>16. ~Unhandled /\ ~Unhandled'
  <2>1. ~Unhandled
    BY <1>1, SeedIsNotCut
  <2> QED
    BY <1>1, <1>5, <2>1 DEF Unhandled
<1>17. SeedFirst'
  BY <1>16 DEF SeedFirst
<1>18. SeedAlone'
  <2> SUFFICES ASSUME mode' = "process", lost' = {}
               PROVE  looping' /\ Seed \notin Queued'
    BY DEF SeedAlone
  <2>1. lost = {} /\ ~refused /\ looping'
    BY <1>1, <1>9, <1>12
  <2>2. ASSUME Seed \in Queued' PROVE FALSE
    <3>1. queue = <<Seed>>
      BY <1>1, <1>5, <2>1, <2>2 DEF IInv, SeedAlone
    <3>2. e = Seed
      <4>1. Len(<<Seed>>) = 1 /\ <<Seed>>[1] = Seed
        OBVIOUS
      <4>2. i = 1
        BY <3>1, <4>1
      <4> QED
        BY <3>1, <4>1, <4>2
    <3> QED
      BY <1>1, <2>1, <3>2, SeedIsNotCut
  <2> QED
    BY <2>1, <2>2
<1>19. OneWay'
  <2>1. waiting = NumNodes => lost' = lost
    BY <1>2, <1>7 DEF IInv, OneWay
  <2> QED
    BY <1>1, <1>5, <2>1 DEF IInv, OneWay
<1>20. Live' = Live \ {e}
  <2>1. Live' = {f \in Queued' : f.kind \in NodeKind /\ f \notin lost'}
    BY DEF Live
  <2>2. ASSUME NEW f \in Live' PROVE f \in Live \ {e}
    BY <1>5, <1>11, <1>12, <2>1, <2>2 DEF Live
  <2>3. ASSUME NEW f \in Live \ {e} PROVE f \in Live'
    BY <1>5, <1>12, <2>1, <2>3 DEF Live
  <2> QED
    BY <2>2, <2>3
<1>21. /\ IsFiniteSet(Live') /\ Cardinality(Live) \in Nat
       /\ Cardinality(Live') = IF e \in Live THEN Cardinality(Live) - 1 ELSE Cardinality(Live)
  BY <1>20, FS_RemoveElement, FS_CardinalityType DEF IInv, Counted
<1>22. open \in Nat /\ open' = open
  BY <1>1, RecursionAssumption DEF IInv, TypeOK
<1>23. Counted'
  <2>1. Cardinality(Live') <= open' /\ open' + waiting' <= NumNodes
    BY <1>1, <1>21, <1>22 DEF IInv, Counted
  <2>2. ASSUME e \in Live PROVE Cardinality(Live') < open'
    BY <1>21, <1>22, <2>2 DEF IInv, Counted
  <2>3. ASSUME e \notin Live PROVE lost' = lost
    <3>1. CASE lost' # lost
      BY <1>1, <1>2, <1>7, <2>3, <3>1 DEF Live
    <3> QED
      BY <3>1
  <2>4. ASSUME e \in Live, run' = "running" PROVE lost' # {}
    <3>1. EventRunId(e) # "run" /\ e.kind # "suggestion"
      BY <1>1, <2>4 DEF Live, NodeKind
    <3> QED
      BY <1>1, <3>1
  <2>5. CASE e \in Live
    BY <1>21, <2>1, <2>2, <2>4, <2>5 DEF Counted
  <2>6. CASE e \notin Live
    BY <1>1, <1>21, <1>22, <2>1, <2>3, <2>6 DEF IInv, Counted
  <2> QED
    BY <2>5, <2>6
<1>24. Decided'
  <2>1. run' = "completed" => run = "completed"
    BY <1>1
  <2>2. run' = "running" => run = "running" /\ EventRunId(e) # "run"
    BY <1>1
  <2>3. ASSUME NEW f \in Queued, f.kind = "action", EventRunId(e) # "run" PROVE f \in Queued'
    BY <1>5, <2>3 DEF EventRunId
  <2>4. lost' = {} => lost = {}
    BY <1>12
  <2> QED
    BY <1>1, <1>5, <1>16, <2>1, <2>2, <2>3, <2>4 DEF IInv, Decided
<1>25. LoopType'
  <2>1. \A j \in 1 .. Len(queue') : queue'[j] \in QueuedEvent
    BY <1>5, ElementOfSeq
  <2>2. looping' \in BOOLEAN
    BY <1>1
  <2> QED
    BY <1>1, <2>1, <2>2 DEF LoopType, IInv, TypeOK, QueuedEvent
<1>26. GraphType'
  <2>1. \A f \in lost' : f.kind \in {"node_action", "task", "completed"}
    BY <1>14 DEF LostFits, NodeKind
  <2> QED
    BY <1>1, <2>1 DEF GraphType, IInv, TypeOK, Ended
<1> QED
  BY <1>13, <1>14, <1>15, <1>17, <1>18, <1>19, <1>23, <1>24, <1>25, <1>26, TypeParts
     DEF IInv, TypeOK, LoopType, GraphType

\* Only the seed is ever a duplicate.
LEMMA DuplicateStep ==
    ASSUME IInv, NEW i \in 1 .. Len(queue), Duplicate(i)
    PROVE  IInv'
<1> DEFINE e == queue[i]
<1>1. /\ e.id \in seen /\ queue' = Without(i)
      /\ mode' = mode /\ correlation' = correlation /\ apiRejects' = apiRejects
      /\ nextId' = nextId /\ looping' = looping /\ runs' = runs /\ processed' = processed
      /\ seen' = seen /\ inline' = inline /\ source' = source /\ waiting' = waiting
      /\ open' = open /\ paused' = paused /\ run' = run /\ lost' = lost
  BY DEF Duplicate, input, loop, graph
<1>2. /\ e \in Queued /\ queue \in Seq(QueuedEvent) /\ Distinct(queue)
  BY DEF IInv, EventsFit, Queued, Elements
<1>3. e = Seed
  BY <1>1, <1>2 DEF IInv, EventsFit
<1>4. /\ Without(i) \in Seq(QueuedEvent) /\ Distinct(Without(i))
      /\ Elements(Without(i)) \subseteq Queued
      /\ Queued \ {e} \subseteq Elements(Without(i))
      /\ Len(queue) = 1 => Without(i) = <<>>
  BY <1>2, Taken
<1>5. Queued' = Elements(queue')
  BY DEF Queued, Elements
<1>6. /\ queue' \in Seq(QueuedEvent) /\ Distinct(queue')
      /\ Queued' \subseteq Queued /\ Queued \ {Seed} \subseteq Queued'
  BY <1>1, <1>3, <1>4, <1>5
<1>7. EventsFit'
  BY <1>1, <1>6, EventsLeave DEF IInv
<1>8. mode = "process" /\ ~Unhandled /\ ~Unhandled'
  BY <1>1, <1>3 DEF IInv, TypeOK, ModeFits, Unhandled, Seed
<1>9. SeedFirst'
  BY <1>8 DEF SeedFirst
<1>10. SeedAlone'
  <2> SUFFICES ASSUME lost = {} PROVE queue' = <<>> /\ Seed \notin Queued'
    BY <1>1 DEF SeedAlone
  <2>1. queue = <<Seed>>
    BY <1>2, <1>3, <1>8 DEF IInv, SeedAlone
  <2>2. Len(queue) = 1
    BY <2>1
  <2>3. queue' = <<>>
    BY <1>1, <1>4, <2>2
  <2> QED
    BY <1>5, <2>3 DEF Elements
<1>11. Live' = Live
  <2>1. Live' = {f \in Queued' : f.kind \in NodeKind /\ f \notin lost'}
    BY DEF Live
  <2>2. Seed.kind \notin NodeKind
    BY DEF Seed, NodeKind
  <2> QED
    BY <1>1, <1>6, <2>1, <2>2 DEF Live
<1>12. LostFits' /\ ModeFits' /\ OneWay'
  BY <1>1, <1>6 DEF IInv, LostFits, ModeFits, OneWay
<1>13. Counted'
  BY <1>1, <1>11 DEF IInv, Counted
<1>14. Decided'
  <2>1. \A f \in Queued : f.kind = "action" => f \in Queued'
    BY <1>6 DEF Seed
  <2> QED
    BY <1>1, <1>6, <1>8, <2>1 DEF IInv, Decided
<1>15. LoopType'
  <2>1. \A j \in 1 .. Len(queue') : queue'[j] \in QueuedEvent
    BY <1>6, ElementOfSeq
  <2> QED
    BY <1>1, <2>1 DEF LoopType, IInv, TypeOK, QueuedEvent
<1>16. GraphType'
  BY <1>1 DEF GraphType, IInv, TypeOK
<1> QED
  BY <1>7, <1>9, <1>10, <1>12, <1>13, <1>14, <1>15, <1>16, TypeParts
     DEF IInv, TypeOK, LoopType, GraphType

LEMMA SeedType == Seed \in QueuedEvent /\ Seed.id = 1 /\ Seed.kind = "domain"
BY RecursionAssumption DEF Seed, QueuedEvent, Kind

LEMMA RunStep ==
    ASSUME IInv, Run
    PROVE  IInv'
<1>1. /\ mode = "process" /\ ~looping /\ runs < MaxRuns
      /\ looping' = TRUE /\ runs' = runs + 1 /\ processed' = 0
      /\ queue' = Append(queue, Seed)
      /\ mode' = mode /\ correlation' = correlation /\ apiRejects' = apiRejects
      /\ nextId' = nextId /\ seen' = seen /\ inline' = inline
      /\ source' = source /\ waiting' = waiting /\ open' = open /\ paused' = paused
      /\ run' = run /\ lost' = lost
  BY DEF Run, input, graph
<1>2. queue \in Seq(QueuedEvent) /\ Distinct(queue) /\ nextId \in Int /\ nextId >= 2
  BY RecursionAssumption DEF IInv, EventsFit, TypeOK
<1>3. /\ queue' \in Seq(QueuedEvent) /\ Len(queue') = Len(queue) + 1 /\ Len(queue) \in Nat
      /\ \A j \in 1 .. Len(queue) : queue'[j] = queue[j]
      /\ queue'[Len(queue) + 1] = Seed
  BY <1>1, <1>2, SeedType, AppendProperties, LenProperties
<1>4. \A j \in 1 .. Len(queue') : j \in 1 .. Len(queue) \/ j = Len(queue) + 1
  BY <1>3
<1>5. Queued' = Queued \cup {Seed}
  <2>1. Queued' = Elements(queue')
    BY DEF Queued, Elements
  <2>2. Elements(queue') \subseteq Queued \cup {Seed}
    BY <1>3, <1>4 DEF Elements, Queued
  <2>3. \A j \in 1 .. Len(queue) : j \in 1 .. Len(queue')
    BY <1>3
  <2>4. Len(queue) + 1 \in 1 .. Len(queue')
    BY <1>3
  <2>5. Queued \cup {Seed} \subseteq Elements(queue')
    BY <1>3, <2>3, <2>4 DEF Elements, Queued
  <2> QED
    BY <2>1, <2>2, <2>5
<1>6. Distinct(queue')
  <2> SUFFICES ASSUME NEW j \in 1 .. Len(queue'), NEW k \in 1 .. Len(queue'),
                      queue'[j].id = queue'[k].id, j # k
               PROVE  queue'[j] = Seed /\ queue'[k] = Seed
    BY DEF Distinct
  <2>1. ASSUME NEW l \in 1 .. Len(queue), queue[l].id = 1 PROVE queue[l] = Seed
    BY <2>1 DEF IInv, EventsFit, Queued, Elements
  <2>2. CASE j \in 1 .. Len(queue) /\ k \in 1 .. Len(queue)
    BY <1>2, <1>3, <2>2 DEF Distinct
  <2>3. CASE j = Len(queue) + 1 /\ k \in 1 .. Len(queue)
    BY <1>3, <2>1, <2>3, SeedType
  <2>4. CASE j \in 1 .. Len(queue) /\ k = Len(queue) + 1
    BY <1>3, <2>1, <2>4, SeedType
  <2> QED
    BY <1>4, <2>2, <2>3, <2>4
<1>7. EventsFit'
  <2>1. \A f \in Queued' : /\ f.id < nextId'
                           /\ f.kind = "domain" \/ f.id = 1 => f = Seed
                           /\ f # Seed => f.id \notin seen'
    BY <1>1, <1>2, <1>5, SeedType DEF IInv, EventsFit
  <2> QED
    BY <1>1, <1>3, <1>6, <2>1 DEF IInv, EventsFit
<1>8. LostFits'
  <2>1. Seed \notin lost
    BY SeedType DEF IInv, LostFits, NodeKind
  <2> QED
    BY <1>1, <1>5, <2>1 DEF IInv, LostFits
<1>9. ASSUME lost = {} PROVE queue' = <<Seed>>
  <2>1. queue = <<>>
    BY <1>1, <1>9 DEF IInv, SeedAlone
  <2> QED
    BY <1>1, <2>1
<1>10. SeedAlone'
  BY <1>1, <1>9 DEF SeedAlone
<1>11. SeedFirst'
  <2> SUFFICES ASSUME Unhandled'
               PROVE  run' = "running" /\ waiting' = NumNodes /\ queue' = <<Seed>>
    BY DEF SeedFirst
  <2>1. Unhandled
    BY <1>1 DEF Unhandled
  <2>2. run = "running" /\ waiting = NumNodes
    BY <2>1 DEF IInv, SeedFirst
  <2>3. lost = {}
    BY <2>2 DEF IInv, OneWay
  <2> QED
    BY <1>1, <1>9, <2>2, <2>3
<1>12. Live' = Live
  <2>1. Live' = {f \in Queued' : f.kind \in NodeKind /\ f \notin lost'}
    BY DEF Live
  <2> QED
    BY <1>1, <1>5, <2>1, SeedType DEF Live, NodeKind
<1>13. OneWay'
  BY <1>1, <1>5, SeedType DEF IInv, OneWay, NodeKind, PlanKind
<1>14. Counted'
  BY <1>1, <1>12 DEF IInv, Counted
<1>15. Decided'
  <2>1. Unhandled => Unhandled'
    BY <1>1 DEF Unhandled
  <2> QED
    BY <1>1, <1>5, <2>1, SeedType DEF IInv, Decided, PlanKind
<1>16. LoopType'
  <2>1. \A j \in 1 .. Len(queue') : queue'[j] \in QueuedEvent
    BY <1>3, ElementOfSeq
  <2>2. processed' \in 0 .. MaxDepth /\ runs' \in 0 .. MaxRuns
    BY <1>1, RecursionAssumption DEF IInv, TypeOK
  <2> QED
    BY <1>1, <2>1, <2>2 DEF LoopType, IInv, TypeOK, QueuedEvent
<1>17. GraphType' /\ ModeFits'
  BY <1>1 DEF GraphType, IInv, TypeOK, ModeFits
<1> QED
  BY <1>7, <1>8, <1>10, <1>11, <1>13, <1>14, <1>15, <1>16, <1>17, TypeParts
     DEF IInv, TypeOK, LoopType, GraphType

LEMMA LoopEndsStep ==
    ASSUME IInv, LoopEnds
    PROVE  IInv'
<1>1. /\ queue = <<>> /\ queue' = queue /\ looping' = FALSE
      /\ mode' = mode /\ correlation' = correlation /\ apiRejects' = apiRejects
      /\ nextId' = nextId /\ runs' = runs /\ processed' = processed
      /\ seen' = seen /\ inline' = inline /\ source' = source /\ waiting' = waiting
      /\ open' = open /\ paused' = paused /\ run' = run /\ lost' = lost
  BY DEF LoopEnds, input, graph
<1>2. Queued' = Queued /\ Live' = Live
  BY <1>1 DEF Queued, Live, Elements
<1>3. Unhandled' <=> Unhandled
  BY <1>1, <1>2 DEF Unhandled
<1>4. TypeOK'
  BY <1>1 DEF IInv, TypeOK
<1>5. EventsFit' /\ LostFits' /\ ModeFits'
  BY <1>1, <1>2 DEF IInv, EventsFit, LostFits, ModeFits, Distinct
<1>6. SeedFirst' /\ SeedAlone'
  BY <1>1, <1>2, <1>3 DEF IInv, SeedFirst, SeedAlone
<1>7. OneWay' /\ Counted' /\ Decided'
  BY <1>1, <1>2, <1>3 DEF IInv, OneWay, Counted, Decided
<1> QED
  BY <1>4, <1>5, <1>6, <1>7 DEF IInv

LEMMA StutterStep ==
    ASSUME IInv, UNCHANGED vars
    PROVE  IInv'
BY DEF IInv, vars, input, loop, graph, TypeOK, EventsFit, LostFits, ModeFits, SeedFirst,
       SeedAlone, OneWay, Counted, Decided, Unhandled, Live, Queued, Elements, Distinct

LEMMA InitIInv == Init => IInv
<1> SUFFICES ASSUME Init PROVE IInv
  OBVIOUS
<1>1. /\ mode \in {"process", "function"} /\ correlation \in {"run", "other", "none"}
      /\ apiRejects \in BOOLEAN
      /\ queue = (IF mode = "function" THEN <<Seed>> ELSE <<>>)
      /\ nextId = 2 /\ looping = FALSE /\ runs = 0 /\ processed = 0 /\ seen = {} /\ inline = 0
      /\ source = 0 /\ waiting = NumNodes /\ open = 0 /\ paused = FALSE /\ run = "running"
      /\ lost = {}
  BY DEF Init
<1>2. <<Seed>> \in Seq(QueuedEvent) /\ Len(<<Seed>>) = 1 /\ <<Seed>>[1] = Seed
  BY SeedType
<1>3. <<>> \in Seq(QueuedEvent) /\ Len(<<>>) = 0
  OBVIOUS
<1>4. queue \in Seq(QueuedEvent) /\ Len(queue) \in {0, 1} /\ \A i \in 1 .. Len(queue) : queue[i] = Seed
  <2>1. CASE mode = "function"
    BY <1>1, <1>2, <2>1
  <2>2. CASE mode # "function"
    BY <1>1, <1>3, <2>2
  <2> QED
    BY <2>1, <2>2
<1>5. Queued = IF mode = "function" THEN {Seed} ELSE {}
  BY <1>1, <1>2, <1>3 DEF Queued, Elements
<1>6. TypeOK
  <2>1. \A i \in 1 .. Len(queue) : queue[i] \in QueuedEvent
    BY <1>4, SeedType
  <2>2. /\ nextId \in 2 .. MaxEvents + 1 /\ runs \in 0 .. MaxRuns /\ processed \in 0 .. MaxDepth
        /\ inline \in 0 .. InlineBudget /\ source \in 0 .. MaxDepth
        /\ waiting \in 0 .. NumNodes /\ open \in 0 .. NumNodes
    BY <1>1, RecursionAssumption
  <2>3. LoopType
    BY <1>1, <2>1, <2>2 DEF LoopType, QueuedEvent
  <2>4. GraphType
    BY <1>1, <2>2 DEF GraphType
  <2> QED
    BY <2>3, <2>4, TypeParts
<1>7. EventsFit /\ LostFits /\ ModeFits
  BY <1>1, <1>4, <1>5, SeedType DEF EventsFit, LostFits, ModeFits, Distinct
<1>8. Unhandled
  BY <1>1, <1>5 DEF Unhandled
<1>9. SeedFirst /\ SeedAlone
  BY <1>1, <1>5 DEF SeedFirst, SeedAlone
<1>10. OneWay
  BY <1>1, <1>5, SeedType, RecursionAssumption DEF OneWay, NodeKind, PlanKind
<1>11. Live = {}
  BY <1>5, SeedType DEF Live, NodeKind
<1>12. Counted
  BY <1>1, <1>11, FS_EmptySet, RecursionAssumption DEF Counted
<1>13. Decided
  BY <1>1, <1>8, RecursionAssumption DEF Decided
<1> QED
  BY <1>6, <1>7, <1>9, <1>10, <1>12, <1>13 DEF IInv

LEMMA NextIInv == IInv /\ [Next]_vars => IInv'
<1> SUFFICES ASSUME IInv, [Next]_vars PROVE IInv'
  OBVIOUS
<1>1. CASE UNCHANGED vars
  BY <1>1, StutterStep
<1>2. CASE Run
  BY <1>2, RunStep
<1>3. CASE LoopEnds
  BY <1>3, LoopEndsStep
<1>4. ASSUME NEW i \in 1 .. Len(queue), Handle(i) PROVE IInv'
  BY <1>4, CutStep, DuplicateStep, DomainStep, SuggestionStep, ActionStep, NodeActionStep,
     TaskStep, CompletedStep DEF Handle
<1> QED
  BY <1>1, <1>2, <1>3, <1>4 DEF Next, Step

-----------------------------------------------------------------------------
(***************************************************************************)
(* The theorems.                                                           *)
(***************************************************************************)
\* The inductive invariant holds in every reachable state: the events on the
\* queue account for every node in progress and for a plan in progress.
THEOREM EventsAccountedFor == Spec => []IInv
BY InitIInv, NextIInv, PTL DEF Spec

\* Every variable stays in its type; in particular no event is deeper than the
\* limit and what one invocation adds to it, whatever the limit, the budget and
\* the number of nodes are (exceeds_max_depth, EventCausality.child).
THEOREM DepthIsBounded == Spec => []TypeOK
<1>1. IInv => TypeOK
  BY DEF IInv
<1> QED
  BY <1>1, EventsAccountedFor, PTL

\* An empty queue leaves a run with a verdict, with a node that waits for a
\* user, or with an event that was dropped and does not name the run
\* (RecursionRunner.run, record_max_depth_failure, _process).
THEOREM NoSilentEnd == Spec => []NeverEndsSilently
<1>1. ASSUME IInv PROVE NeverEndsSilently
  <2> SUFFICES ASSUME Quiet, run \notin Ended, ~paused, lost = {} PROVE FALSE
    BY DEF NeverEndsSilently
  <2>1. run = "running"
    BY <1>1 DEF IInv, TypeOK
  <2>2. queue = <<>> /\ (mode = "process" => runs > 0)
    BY DEF Quiet
  <2>3. Queued = {} /\ Live = {}
    BY <2>2 DEF Queued, Elements, Live
  <2>4. CASE waiting = NumNodes
    <3>1. Unhandled
      BY <1>1, <2>1, <2>3, <2>4 DEF IInv, Decided
    <3>2. mode = "process" /\ runs = 0
      BY <1>1, <2>2, <3>1 DEF IInv, SeedFirst
    <3> QED
      BY <2>2, <3>2
  <2>5. CASE waiting < NumNodes
    <3>1. open > 0 /\ Cardinality(Live) = open
      BY <1>1, <2>1, <2>5 DEF IInv, Decided, Counted
    <3> QED
      BY <2>3, <3>1, FS_EmptySet
  <2> QED
    BY <1>1, <2>4, <2>5, RecursionAssumption DEF IInv, TypeOK
<1> QED
  BY <1>1, EventsAccountedFor, PTL

\* A completed run stays completed, in any number of calls of run() with the
\* same seed and whatever the guard stops (RecursionRunner.run,
\* record_max_depth_failure).
THEOREM CompletionStands == Spec => CompletedStands
<1>1. ASSUME IInv, [Next]_vars
      PROVE  [(run = "completed") => (run' = "completed")]_vars
  <2> SUFFICES ASSUME Next, run = "completed" PROVE run' = "completed"
    BY <1>1
  <2>1. /\ lost = {} /\ \A e \in Queued : e.kind \notin PlanKind \cup NodeKind
    <3>1. open = 0 /\ \A e \in Queued : e.kind \notin PlanKind
      BY <1>1 DEF IInv, Decided
    <3>2. IsFiniteSet(Live) /\ Cardinality(Live) <= 0 /\ (lost # {} => Cardinality(Live) < 0)
      BY <1>1, <3>1 DEF IInv, Counted
    <3>3. Cardinality(Live) \in Nat
      BY <3>2, FS_CardinalityType
    <3>4. lost = {} /\ Cardinality(Live) = 0
      BY <3>2, <3>3
    <3>5. Live = {}
      BY <3>2, <3>4, FS_EmptySet
    <3> QED
      BY <3>1, <3>4, <3>5 DEF Live
  <2>2. ~Unhandled
    BY <1>1 DEF IInv, SeedFirst
  <2>3. ASSUME NEW i \in 1 .. Len(queue)
        PROVE  queue[i] \in Queued /\ queue[i].kind \in {"domain", "suggestion"}
    <3>1. queue[i] \in Queued /\ queue[i].kind \in Kind
      BY <1>1 DEF Queued, Elements, IInv, TypeOK
    <3> QED
      BY <2>1, <3>1 DEF Kind, PlanKind, NodeKind
  <2>4. ASSUME NEW i \in 1 .. Len(queue), queue[i].kind = "domain"
        PROVE  queue[i] = Seed /\ queue[i].id \in seen
    <3>1. queue[i] = Seed
      BY <1>1, <2>3, <2>4 DEF IInv, EventsFit
    <3> QED
      BY <1>1, <2>2, <2>4, <3>1, SeedHandled
  <2>5. CASE Run
    BY <2>5 DEF Run
  <2>6. CASE LoopEnds
    BY <2>6 DEF LoopEnds
  <2>7. ASSUME NEW i \in 1 .. Len(queue), Handle(i) PROVE run' = "completed"
    <3>1. CASE Cut(i)
      <4>1. ExceedsMaxDepth(queue[i]) /\ run' = IF EventRunId(queue[i]) = "run" THEN "failed" ELSE run
        BY <3>1 DEF Cut
      <4>2. queue[i].kind # "domain"
        BY <1>1, <2>1, <2>4, <4>1, SeedIsNotCut
      <4>3. EventRunId(queue[i]) = "none"
        BY <2>3, <4>2 DEF EventRunId
      <4> QED
        BY <4>1, <4>3
    <3>2. CASE Duplicate(i)
      BY <3>2 DEF Duplicate
    <3>3. CASE HandleDomain(i)
      <4>1. queue[i].kind = "domain" /\ queue[i].id \notin seen
        BY <2>3, <3>3 DEF HandleDomain, Handles
      <4> QED
        BY <2>4, <4>1
    <3>4. CASE HandleSuggestion(i)
      BY <3>4 DEF HandleSuggestion
    <3>5. CASE HandleAction(i) \/ HandleNodeAction(i) \/ HandleTask(i) \/ HandleCompleted(i)
      BY <2>3, <3>5 DEF HandleAction, HandleNodeAction, HandleTask, HandleCompleted
    <3> QED
      BY <2>7, <3>1, <3>2, <3>3, <3>4, <3>5 DEF Handle
  <2> QED
    BY <2>5, <2>6, <2>7 DEF Next, Step
<1> QED
  BY <1>1, EventsAccountedFor, PTL DEF Spec, CompletedStands

=============================================================================
