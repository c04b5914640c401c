----------------------------- MODULE FilesProofs ----------------------------
(***************************************************************************)
(* Proofs about CommitQueue, for every limit of the queue and every bound, *)
(* about MemoryStore, for any number of clients, any paths and texts, and  *)
(* any number of writes, failures and deaths, and about ChatSession, for   *)
(* any todos and any number of updates, syncs, failures and resumptions.   *)
(***************************************************************************)
EXTENDS MCFiles, SequenceTheorems, FiniteSetTheorems, TLAPS

-----------------------------------------------------------------------------
(* The two things that happen to the queue.                                *)

(* A snapshot of the present state, queued last, keeps the order.          *)
LEMMA AppendInOrder ==
  ASSUME NEW q \in Seq(Link), NEW low \in Nat, NEW old \in Nat,
         NEW link \in Link, old <= link.content, low <= old,
         \A i \in 1 .. Len(q) : low <= q[i].content /\ q[i].content <= old,
         \A i, j \in 1 .. Len(q) : i <= j => q[i].content <= q[j].content
  PROVE  /\ Append(q, link) \in Seq(Link) /\ Len(Append(q, link)) = Len(q) + 1
         /\ \A i \in 1 .. Len(Append(q, link)) :
              low <= Append(q, link)[i].content /\ Append(q, link)[i].content <= link.content
         /\ \A i, j \in 1 .. Len(Append(q, link)) :
              i <= j => Append(q, link)[i].content <= Append(q, link)[j].content
<1> DEFINE r == Append(q, link)
<1>1. r \in Seq(Link) /\ Len(r) = Len(q) + 1 /\ Len(q) \in Nat
  OBVIOUS
<1>2. r[Len(q) + 1] = link /\ \A i \in 1 .. Len(q) : r[i] = q[i]
  OBVIOUS
<1>3. link.content \in Nat /\ \A i \in 1 .. Len(q) : q[i].content \in Nat
  <2>1. \A i \in 1 .. Len(q) : q[i] \in Link
    OBVIOUS
  <2> QED BY <2>1 DEF Link
<1> HIDE DEF r
<1>4. \A i \in 1 .. Len(r) : i \in 1 .. Len(q) \/ i = Len(q) + 1
  BY <1>1
<1>5. \A i \in 1 .. Len(r) : low <= r[i].content /\ r[i].content <= link.content
  BY <1>2, <1>3, <1>4
<1>6. ASSUME NEW i \in 1 .. Len(r), NEW j \in 1 .. Len(r), i <= j
      PROVE  r[i].content <= r[j].content
  <2>1. CASE j = Len(q) + 1
    BY <1>2, <1>5, <2>1
  <2>2. CASE j \in 1 .. Len(q)
    <3>1. i \in 1 .. Len(q)
      BY <1>1, <1>6, <2>2
    <3> QED BY <1>2, <1>6, <2>2, <3>1
  <2> QED BY <1>4, <2>1, <2>2
<1>7. /\ r \in Seq(Link) /\ Len(r) = Len(q) + 1
      /\ \A i \in 1 .. Len(r) : low <= r[i].content /\ r[i].content <= link.content
      /\ \A i, j \in 1 .. Len(r) : i <= j => r[i].content <= r[j].content
  BY <1>1, <1>5, <1>6
<1> QED BY <1>7 DEF r

(* Taking the first link off keeps the order, and what is left is not      *)
(* older than that link.                                                   *)
LEMMA TailInOrder ==
  ASSUME NEW q \in Seq(Link), q # <<>>, NEW low \in Nat, NEW top \in Nat,
         \A i \in 1 .. Len(q) : low <= q[i].content /\ q[i].content <= top,
         \A i, j \in 1 .. Len(q) : i <= j => q[i].content <= q[j].content
  PROVE  /\ Tail(q) \in Seq(Link) /\ Len(Tail(q)) = Len(q) - 1
         /\ Head(q) \in Link /\ low <= Head(q).content /\ Head(q).content <= top
         /\ \A i \in 1 .. Len(Tail(q)) :
              Head(q).content <= Tail(q)[i].content /\ Tail(q)[i].content <= top
         /\ \A i, j \in 1 .. Len(Tail(q)) : i <= j => Tail(q)[i].content <= Tail(q)[j].content
<1>1. /\ Tail(q) \in Seq(Link) /\ Len(Tail(q)) = Len(q) - 1 /\ Len(q) \in Nat \ {0}
      /\ Head(q) = q[1] /\ 1 \in 1 .. Len(q)
  OBVIOUS
<1>2. \A i \in 1 .. Len(Tail(q)) : Tail(q)[i] = q[i + 1] /\ i + 1 \in 1 .. Len(q)
  BY <1>1
<1> QED BY <1>1, <1>2

-----------------------------------------------------------------------------
(* IInv is inductive.                                                      *)

LEMMA InitIInv == Init => IInv
BY CommitQueueAssumption
   DEF Init, IInv, TypeOK, SavingIsQueued, QueueInOrder, CounterDrifts, NumWaiting,
       AckedIsDurable, Link

(* commitState on a state that shows the changes up to content.            *)
LEMMA CommitKeeps ==
  ASSUME IInv, NEW awaited \in BOOLEAN, NEW content \in Nat,
         state' = content, state <= content, content <= dag,
         CommitState(content, awaited),
         finals' \in Nat, UNCHANGED <<dag, stage, disk, failures, crashes, acked>>
  PROVE  IInv'
<1>1. /\ TypeOK /\ SavingIsQueued /\ QueueInOrder /\ CounterDrifts /\ AckedIsDurable
      /\ disk \in Nat /\ state \in Nat /\ dag \in Nat /\ queue \in Seq(Link)
      /\ disk <= state
  BY DEF IInv, TypeOK, QueueInOrder
<1>2. AckedIsDurable'
  BY <1>1 DEF AckedIsDurable
<1>3. CASE UNCHANGED <<queue, size>>
  <2>1. \A i \in 1 .. Len(queue) : queue[i] \in Link
    BY <1>1
  <2>2. \A i \in 1 .. Len(queue) : queue[i].content <= content
    BY <1>1, <2>1 DEF QueueInOrder, Link
  <2>3. QueueInOrder'
    BY <1>1, <1>3, <2>2 DEF QueueInOrder
  <2>4. TypeOK' /\ SavingIsQueued' /\ CounterDrifts'
    BY <1>1, <1>3 DEF TypeOK, SavingIsQueued, CounterDrifts, NumWaiting
  <2> QED BY <1>2, <2>3, <2>4 DEF IInv
<1>4. CASE /\ queue' = Append(queue, [content |-> content, awaited |-> awaited])
           /\ size' = size + 1
  <2>1. /\ \A i \in 1 .. Len(queue) : disk <= queue[i].content /\ queue[i].content <= state
        /\ \A i, j \in 1 .. Len(queue) : i <= j => queue[i].content <= queue[j].content
    BY <1>1 DEF QueueInOrder
  <2>2. /\ queue' \in Seq(Link) /\ Len(queue') = Len(queue) + 1
        /\ \A i \in 1 .. Len(queue') : disk <= queue'[i].content /\ queue'[i].content <= content
        /\ \A i, j \in 1 .. Len(queue') : i <= j => queue'[i].content <= queue'[j].content
    <3> DEFINE link == [content |-> content, awaited |-> awaited]
    <3> DEFINE q == Append(queue, link)
    <3>0. link \in Link /\ link.content = content
      BY DEF Link
    <3> HIDE DEF link
    <3>1. /\ q \in Seq(Link) /\ Len(q) = Len(queue) + 1
          /\ \A i \in 1 .. Len(q) : disk <= q[i].content /\ q[i].content <= content
          /\ \A i, j \in 1 .. Len(q) : i <= j => q[i].content <= q[j].content
      BY <1>1, <2>1, <3>0, AppendInOrder
    <3> QED BY <1>4, <3>1 DEF link
  <2>3. queue' # <<>> /\ Len(queue) \in Nat
    BY <1>1, <2>2
  <2>4. QueueInOrder'
    BY <1>1, <2>2 DEF QueueInOrder
  <2>5. TypeOK' /\ SavingIsQueued' /\ CounterDrifts'
    BY <1>1, <1>4, <2>2, <2>3 DEF TypeOK, SavingIsQueued, CounterDrifts, NumWaiting
  <2> QED BY <1>2, <2>4, <2>5 DEF IInv
<1> QED BY <1>3, <1>4 DEF CommitState

(* The first link settles: its save has put it on disk, or has failed.     *)
LEMMA SettleKeeps ==
  ASSUME IInv, stage # "waiting", NEW worked \in BOOLEAN, Settle(worked),
         \/ worked /\ disk' = Head(queue).content /\ UNCHANGED <<size, failures>>
         \/ ~worked /\ disk' = disk /\ size' = size - 1 /\ failures' = failures + 1,
         UNCHANGED <<dag, state, finals, crashes>>
  PROVE  IInv'
<1> USE DEF IInv
<1>1. /\ queue' \in Seq(Link) /\ Len(queue') = Len(queue) - 1
      /\ Head(queue) \in Link /\ disk <= Head(queue).content /\ Head(queue).content <= state
      /\ \A i \in 1 .. Len(queue') :
           Head(queue).content <= queue'[i].content /\ queue'[i].content <= state
      /\ \A i, j \in 1 .. Len(queue') : i <= j => queue'[i].content <= queue'[j].content
  <2>1. queue # <<>> /\ queue \in Seq(Link) /\ disk \in Nat /\ state \in Nat
    BY DEF SavingIsQueued, TypeOK
  <2>2. /\ \A i \in 1 .. Len(queue) : disk <= queue[i].content /\ queue[i].content <= state
        /\ \A i, j \in 1 .. Len(queue) : i <= j => queue[i].content <= queue[j].content
    BY DEF QueueInOrder
  <2>3. queue' = Tail(queue)
    BY DEF Settle
  <2> QED BY <2>1, <2>2, <2>3, TailInOrder
<1>2. Head(queue).content \in Nat /\ Head(queue).awaited \in BOOLEAN
  BY <1>1 DEF Link
<1>3. disk' \in {disk, Head(queue).content} /\ disk <= disk' /\ disk' <= Head(queue).content
  BY <1>1, <1>2 DEF TypeOK
<1>4. QueueInOrder'
  <2>1. \A i \in 1 .. Len(queue') : queue'[i].content \in Nat
    <3>1. \A i \in 1 .. Len(queue') : queue'[i] \in Link
      BY <1>1
    <3> QED BY <3>1 DEF Link
  <2>2. \A i \in 1 .. Len(queue') : disk' <= queue'[i].content
    BY <1>1, <1>2, <1>3, <2>1 DEF TypeOK
  <2> QED BY <1>1, <1>2, <1>3, <2>2 DEF QueueInOrder, TypeOK
<1>5. CounterDrifts'
  BY <1>1 DEF CounterDrifts, NumWaiting, Settle, TypeOK
<1>6. acked' \subseteq acked \cup {[content |-> Head(queue).content, saved |-> worked]}
  BY DEF Settle
<1>7. AckedIsDurable'
  <2> SUFFICES ASSUME NEW r \in acked', r.saved PROVE r.content <= disk'
    BY DEF AckedIsDurable
  <2>1. CASE r \in acked
    BY <1>2, <1>3, <2>1 DEF AckedIsDurable, TypeOK
  <2>2. CASE r = [content |-> Head(queue).content, saved |-> worked]
    BY <1>2, <2>2
  <2> QED BY <1>6, <2>1, <2>2
<1>8. TypeOK'
  BY <1>1, <1>2, <1>3, <1>6 DEF TypeOK, Settle
<1> QED BY <1>4, <1>5, <1>7, <1>8 DEF SavingIsQueued, Settle

LEMMA NextIInv == IInv /\ [Next]_vars => IInv'
<1> SUFFICES ASSUME IInv, [Next]_vars PROVE IInv'
  OBVIOUS
<1>0. dag \in Nat /\ state \in Nat /\ state <= dag /\ finals \in Nat
  BY DEF IInv, TypeOK, QueueInOrder
<1>1. CASE Change
  BY <1>1 DEF Change, IInv, TypeOK, SavingIsQueued, QueueInOrder, CounterDrifts, NumWaiting,
              AckedIsDurable
<1>2. CASE CommitProgress
  <2>1. /\ state' = dag /\ CommitState(dag, FALSE) /\ finals' \in Nat
        /\ UNCHANGED <<dag, stage, disk, failures, crashes, acked>>
    BY <1>0, <1>2 DEF CommitProgress
  <2>2. dag \in Nat /\ state <= dag /\ dag <= dag /\ FALSE \in BOOLEAN
    BY <1>0
  <2> QED BY ONLY IInv, <2>1, <2>2, CommitKeeps
<1>3. CASE CommitOnTimer
  <2>1. /\ state' = state /\ CommitState(state, FALSE) /\ finals' \in Nat
        /\ UNCHANGED <<dag, stage, disk, failures, crashes, acked>>
    BY <1>0, <1>3 DEF CommitOnTimer
  <2>2. state \in Nat /\ state <= state /\ state <= dag /\ FALSE \in BOOLEAN
    BY <1>0
  <2> QED BY ONLY IInv, <2>1, <2>2, CommitKeeps
<1>4. CASE CommitFinal
  <2>1. PICK awaited \in BOOLEAN : CommitState(dag, awaited)
    BY <1>4 DEF CommitFinal
  <2>2. state' = dag /\ finals' \in Nat /\ UNCHANGED <<dag, stage, disk, failures, crashes, acked>>
    BY <1>0, <1>4 DEF CommitFinal
  <2>3. dag \in Nat /\ state <= dag /\ dag <= dag
    BY <1>0
  <2> QED BY ONLY IInv, <2>1, <2>2, <2>3, CommitKeeps
<1>5. CASE BeginSave
  BY <1>5 DEF BeginSave, IInv, TypeOK, SavingIsQueued, QueueInOrder, CounterDrifts, NumWaiting,
              AckedIsDurable
<1>6. CASE WriteTemp
  BY <1>6 DEF WriteTemp, IInv, TypeOK, SavingIsQueued, QueueInOrder, CounterDrifts, NumWaiting,
              AckedIsDurable
<1>7. CASE RenameTemp
  BY <1>7, SettleKeeps DEF RenameTemp
<1>8. CASE SaveFails
  BY <1>8, SettleKeeps DEF SaveFails
<1>9. CASE CrashAndResume
  BY <1>9 DEF CrashAndResume, IInv, TypeOK, SavingIsQueued, QueueInOrder, CounterDrifts, NumWaiting,
              AckedIsDurable
<1>10. CASE UNCHANGED vars
  BY <1>10 DEF vars, IInv, TypeOK, SavingIsQueued, QueueInOrder, CounterDrifts, NumWaiting,
               AckedIsDurable
<1> QED BY <1>1, <1>2, <1>3, <1>4, <1>5, <1>6, <1>7, <1>8, <1>9, <1>10 DEF Next, SaveStep

(* The queue is a FIFO between file and state, the counter is off by the   *)
(* number of failed saves, and acknowledged snapshots are on disk.         *)
THEOREM Invariance == Spec => []IInv
BY InitIInv, NextIInv, PTL DEF Spec

(* A mustPersist commit whose save worked stays on disk.                   *)
THEOREM AcknowledgedStays == Spec => []AckedIsDurable
<1>1. IInv => AckedIsDurable
  BY DEF IInv
<1> QED BY <1>1, Invariance, PTL

-----------------------------------------------------------------------------
(* The file implements SnapshotStore.                                      *)

LEMMA StoreStep == IInv /\ IInv' /\ [Next]_vars => [Store!Next]_(Store!storeVars)
<1> SUFFICES ASSUME IInv, IInv', [Next]_vars PROVE [Store!Next]_(Store!storeVars)
  OBVIOUS
<1> USE DEF Store!storeVars
<1>1. CASE Change
  BY <1>1 DEF Change, Store!Next, Store!Proceed
<1>2. CASE RenameTemp
  <2>1. queue # <<>> /\ queue \in Seq(Link)
    BY <1>2 DEF RenameTemp, IInv, SavingIsQueued, TypeOK
  <2>2. 1 \in 1 .. Len(queue) /\ Head(queue) = queue[1]
    BY <2>1
  <2>3. disk <= disk' /\ disk' <= dag /\ disk' \in Nat /\ dag' = dag
    BY <1>2, <2>2 DEF RenameTemp, IInv, QueueInOrder, TypeOK
  <2> QED BY <2>3 DEF Store!Next, Store!Store, IInv, TypeOK
<1>3. CASE CrashAndResume
  BY <1>3 DEF CrashAndResume, Store!Next, Store!Resume
<1>4. CASE CommitProgress \/ CommitOnTimer \/ CommitFinal
  BY <1>4 DEF CommitProgress, CommitOnTimer, CommitFinal
<1>5. CASE BeginSave \/ WriteTemp \/ SaveFails
  BY <1>5 DEF BeginSave, WriteTemp, SaveFails
<1>6. CASE UNCHANGED vars
  BY <1>6 DEF vars
<1> QED BY <1>1, <1>2, <1>3, <1>4, <1>5, <1>6 DEF Next, SaveStep

(* The file holds a state of the run, never runs ahead of it and never     *)
(* goes back, whatever the order in which saves fail and processes die.    *)
THEOREM Refinement == Spec => ImplementsStore
<1>1. Init => Store!Init
  BY DEF Init, Store!Init
<1> QED BY <1>1, StoreStep, Invariance, PTL DEF Spec, ImplementsStore, Store!Spec

-----------------------------------------------------------------------------
(* The project memory.                                                     *)

Char == Piece \cup {"generated page", "project", "..."}

(* What the store can be asked to write, and what it generates itself, is  *)
(* a text.                                                                 *)
LEMMA TextsTyped ==
  /\ <<>> \in Text /\ Overview \in Text /\ ProjectText \in Text
  /\ \A t \in MemoryText : t \in Text
  /\ \A t \in [{1} -> Piece] : t \in Text
<1>1. <<>> \in Text
  BY DEF Text
<1>2. Overview \in Text
  BY DEF Text, Overview
<1>3. ProjectText \in Text
  BY DEF Text, ProjectText
<1>4. ASSUME NEW n \in Nat, NEW t \in [1 .. n -> Piece] PROVE t \in Text
  <2>1. t \in Seq(Piece)
    OBVIOUS
  <2>2. Piece \subseteq Char
    BY DEF Char
  <2> QED
    BY <2>1, <2>2, SeqMonotonic DEF Text, Char
<1>5. ASSUME NEW t \in MemoryText PROVE t \in Text
  <2>1. PICK n \in 1 .. Kept + 1 : t \in [1 .. n -> Piece]
    BY DEF MemoryText
  <2>2. n \in Nat
    BY MemoryAssumption
  <2> QED
    BY <1>4, <2>1, <2>2
<1>6. ASSUME NEW t \in [{1} -> Piece] PROVE t \in Text
  <2>1. {1} = 1 .. 1
    OBVIOUS
  <2> QED
    BY <1>4, <2>1
<1> QED
  BY <1>1, <1>2, <1>3, <1>5, <1>6

(* A truncated text is a text.                                             *)
LEMMA TruncatedTyped == \A t \in Text : Truncated(t) \in Text
<1> SUFFICES ASSUME NEW t \in Text PROVE Truncated(t) \in Text
  OBVIOUS
<1>1. CASE Len(t) <= Kept
  BY <1>1 DEF Truncated
<1>2. CASE ~(Len(t) <= Kept)
  <2>1. Kept - 1 \in Int /\ Len(t) \in Nat /\ \A i \in 1 .. Kept - 1 : t[i] \in Char
    <3>1. t \in Seq(Char)
      BY DEF Text, Char
    <3>2. Len(t) \in Nat
      BY <3>1, LenProperties
    <3>3. Kept \in Nat /\ Kept < Len(t)
      BY <1>2, <3>2, MemoryAssumption
    <3>4. \A i \in 1 .. Kept - 1 : i \in 1 .. Len(t)
      BY <3>2, <3>3
    <3> QED
      BY <3>1, <3>2, <3>3, <3>4, ElementOfSeq
  <2>2. SubSeq(t, 1, Kept - 1) \in Seq(Char)
    BY <2>1, SubSeqProperties
  <2>3. Append(SubSeq(t, 1, Kept - 1), "...") \in Seq(Char)
    BY <2>2, AppendProperties DEF Char
  <2> QED
    BY <1>2, <2>3 DEF Truncated, Text, Char
<1> QED
  BY <1>1, <1>2

(* What is generated from a text names its path, a place in it and a piece *)
(* of it.                                                                  *)
LEMMA ConceptsTyped ==
  ASSUME NEW p \in Path, NEW t \in Text
  PROVE  Concepts(p, t) \subseteq Path \X Nat \X Char
<1> SUFFICES ASSUME NEW i \in DOMAIN t PROVE <<p, i, t[i]>> \in Path \X Nat \X Char
  BY DEF Concepts
<1>1. DOMAIN t = 1 .. Len(t) /\ Len(t) \in Nat
  BY LenProperties DEF Text
<1>2. t[i] \in Char
  BY <1>1, ElementOfSeq DEF Text, Char
<1> QED
  BY <1>1, <1>2

(* The graph of an empty store is coherent.                                *)
LEMMA FreshGraphCoherent == FreshGraph \in Graph /\ CoherentGraph(FreshGraph)
<1>1. FreshGraph \in Graph
  BY TextsTyped DEF FreshGraph, Graph
<1>2. CoherentGraph(FreshGraph)
  BY DEF FreshGraph, CoherentGraph
<1> QED
  BY <1>1, <1>2

(* A write keeps a graph coherent, whichever graph it was.                 *)
LEMMA WrittenCoherent ==
  ASSUME NEW g \in Graph, CoherentGraph(g), NEW p \in Path, NEW t \in Text, NEW now \in Nat \ {0}
  PROVE  Written(g, p, t, now) \in Graph /\ CoherentGraph(Written(g, p, t, now))
<1> DEFINE h == Written(g, p, t, now)
           new == [path |-> p, text |-> t, stamp |-> now]
<1>1. g.memory \in [Path -> [text : Text, stamp : Nat]] /\ g.versions \subseteq Version
      /\ g.concepts \subseteq Path \X Nat \X Char
  BY DEF Graph, Char
<1>2. /\ h.memory = [g.memory EXCEPT ![p] = [text |-> Truncated(t), stamp |-> now]]
      /\ h.versions = g.versions \cup {new}
      /\ h.concepts = {x \in g.concepts : x[1] # p} \cup Concepts(p, t)
      /\ h = [memory |-> h.memory, versions |-> h.versions, concepts |-> h.concepts]
  BY DEF Written
<1> HIDE DEF h
<1>3. h \in Graph
  <2>1. h.memory \in [Path -> [text : Text, stamp : Nat]]
    BY <1>1, <1>2, TruncatedTyped
  <2>2. h.versions \subseteq Version
    BY <1>1, <1>2 DEF Version
  <2>3. h.concepts \subseteq Path \X Nat \X Char
    BY <1>1, <1>2, ConceptsTyped
  <2> QED
    BY <1>2, <2>1, <2>2, <2>3 DEF Graph, Char
<1>4. ASSUME NEW q \in Path
      PROVE  LET generated == {x \in h.concepts : x[1] = q}
             IN IF h.memory[q].stamp = 0
                THEN generated = {} /\ \A v \in h.versions : v.path # q
                ELSE \E v \in h.versions :
                       /\ v.path = q /\ v.stamp = h.memory[q].stamp
                       /\ h.memory[q].text = Truncated(v.text)
                       /\ generated = Concepts(q, v.text)
  <2>0. \A x \in Concepts(p, t) : x[1] = p
    BY DEF Concepts
  <2>1. CASE q = p
    <3>1. h.memory[q] = [text |-> Truncated(t), stamp |-> now]
      BY <1>1, <1>2, <2>1
    <3>2. {x \in h.concepts : x[1] = q} = Concepts(q, t)
      BY <1>2, <2>0, <2>1
    <3>3. new \in h.versions /\ new.path = q /\ new.stamp = now /\ new.text = t
      BY <1>2, <2>1
    <3> QED
      BY <3>1, <3>2, <3>3
  <2>2. CASE q # p
    <3>1. h.memory[q] = g.memory[q]
      BY <1>1, <1>2, <2>2
    <3>2. {x \in h.concepts : x[1] = q} = {x \in g.concepts : x[1] = q}
      BY <1>2, <2>0, <2>2
    <3>3. new.path # q
      BY <2>2
    <3>4. IF g.memory[q].stamp = 0
          THEN {x \in g.concepts : x[1] = q} = {} /\ \A v \in g.versions : v.path # q
          ELSE \E v \in g.versions :
                 /\ v.path = q /\ v.stamp = g.memory[q].stamp
                 /\ g.memory[q].text = Truncated(v.text)
                 /\ {x \in g.concepts : x[1] = q} = Concepts(q, v.text)
      BY DEF CoherentGraph
    <3> HIDE DEF new
    <3> QED
      BY <1>2, <3>1, <3>2, <3>3, <3>4
  <2> QED
    BY <2>1, <2>2
<1>5. CoherentGraph(h)
  BY <1>4 DEF CoherentGraph
<1> QED
  BY <1>3, <1>5 DEF h

-----------------------------------------------------------------------------
(* The inductive invariant, step by step.                                  *)

(* The stores start with the empty graph and with typed pages.             *)
LEMMA MemoryInitInv == MemoryInit => GraphsCoherent
<1> SUFFICES ASSUME MemoryInit PROVE GraphsCoherent
  OBVIOUS
<1>1. page \in [Path -> Text]
  <2>1. {<<>>} \cup [{1} -> Piece] \subseteq Text
    BY TextsTyped
  <2> QED
    BY <2>1 DEF MemoryInit
<1>2. MemoryTypeOK
  <2>1. 0 \in 0 .. MaxWrites /\ 0 \in 0 .. MaxFaults
    BY MemoryAssumption
  <2>2. plan \in [Client -> Seq(PlanStep)]
    BY DEF MemoryInit
  <2> QED
    BY <1>1, <2>1, <2>2, FreshGraphCoherent DEF MemoryInit, MemoryTypeOK
<1> QED
  BY <1>2, FreshGraphCoherent DEF MemoryInit, GraphsCoherent, AtWork

(* A step planned for a path and a text is a step.                         *)
LEMMA PlannedTyped ==
  ASSUME NEW do \in {"ensure", "graph", "page", "read"}, NEW p \in Path, NEW t \in Text
  PROVE  Planned(do, p, t) \in PlanStep
BY DEF Planned, PlanStep

(* A client's next step is one of the plan.                                *)
LEMMA HeadTyped ==
  ASSUME MemoryTypeOK, NEW c \in Client, plan[c] # <<>>
  PROVE  /\ Head(plan[c]) \in PlanStep
         /\ Head(plan[c]).path \in Path /\ Head(plan[c]).text \in Text
         /\ Tail(plan[c]) \in Seq(PlanStep)
<1>1. plan[c] \in Seq(PlanStep)
  BY DEF MemoryTypeOK
<1>2. Head(plan[c]) \in PlanStep /\ Tail(plan[c]) \in Seq(PlanStep)
  BY <1>1, HeadTailProperties
<1> QED
  BY <1>2 DEF PlanStep

(* What a client leaves of the pages when it is interrupted.               *)
LEMMA PagesLeftTyped ==
  ASSUME MemoryTypeOK, NEW c \in Client, NEW left \in PagesLeft(c)
  PROVE  left \in [Path -> Text]
<1>1. page \in [Path -> Text]
  BY DEF MemoryTypeOK
<1>2. CASE left = page
  BY <1>1, <1>2
<1>3. ASSUME NEW shown \in SUBSET MirrorPath,
             left = [p \in Path |-> IF p \in shown THEN Overview ELSE page[p]]
      PROVE  left \in [Path -> Text]
  BY <1>1, <1>3, TextsTyped
<1>4. CASE Doing(c, {"page"}) /\ left = [page EXCEPT ![Head(plan[c]).path] = <<>>]
  BY <1>1, <1>4, TextsTyped
<1> QED
  BY <1>2, <1>3, <1>4 DEF PagesLeft

(* Steps that change neither the graph nor a loaded copy.                  *)
LEMMA GraphsKept ==
  ASSUME GraphsCoherent, MemoryTypeOK', AtWork', UNCHANGED graph,
         \A c \in Client : loaded'[c] \in {loaded[c], FreshGraph}
  PROVE  GraphsCoherent'
<1>1. CoherentGraph(graph')
  BY DEF GraphsCoherent
<1>2. ASSUME NEW c \in Client PROVE CoherentGraph(loaded'[c])
  <2>1. CASE loaded'[c] = loaded[c]
    BY <2>1 DEF GraphsCoherent
  <2>2. CASE loaded'[c] = FreshGraph
    BY <2>2, FreshGraphCoherent
  <2> QED
    BY <2>1, <2>2
<1>3. CoherentGraph(graph)' /\ \A c \in Client : CoherentGraph(loaded[c])'
  BY <1>1, <1>2 DEF CoherentGraph
<1> QED
  BY <1>3 DEF GraphsCoherent

(* A request makes a plan of typed steps.                                  *)
LEMMA RequestsInv ==
  ASSUME GraphsCoherent, NEW c \in Client, NEW p \in Path,
         Read(c, p) \/ \E t \in MemoryText : Write(c, p, t)
  PROVE  GraphsCoherent'
<1>0. MemoryTypeOK
  BY DEF GraphsCoherent
<1>1. PICK steps \in Seq(PlanStep) :
        plan' = [plan EXCEPT ![c] = steps] /\ UNCHANGED <<graph, readable, page, at, loaded, ensured,
          writes, faults, saved, mixed, first>>
  <2>1. CASE Read(c, p)
    <3>1. <<Planned("read", p, <<>>)>> \in Seq(PlanStep)
      BY PlannedTyped, TextsTyped
    <3> QED
      BY <2>1, <3>1 DEF Read
  <2>2. ASSUME NEW t \in MemoryText, Write(c, p, t)
        PROVE  \E steps \in Seq(PlanStep) :
                 plan' = [plan EXCEPT ![c] = steps] /\ UNCHANGED <<graph, readable, page, at, loaded,
                   ensured, writes, faults, saved, mixed, first>>
    <3>1. <<Planned("graph", p, t), Planned("page", p, t)>> \in Seq(PlanStep)
      BY PlannedTyped, TextsTyped
    <3>2. /\ <<Planned("ensure", ProjectPath, ProjectText)>> \in Seq(PlanStep)
          /\ <<>> \in Seq(PlanStep)
      BY PlannedTyped, TextsTyped, MemoryAssumption
    <3>3. WriteSteps(c, p, t) \in Seq(PlanStep)
      BY <3>1, <3>2, ConcatProperties DEF WriteSteps
    <3> QED
      BY <2>2, <3>3 DEF Write
  <2> QED
    BY <2>1, <2>2
<1>2. MemoryTypeOK'
  <2>1. plan' \in [Client -> Seq(PlanStep)]
    BY <1>0, <1>1 DEF MemoryTypeOK
  <2> QED
    BY <1>0, <1>1, <2>1 DEF MemoryTypeOK
<1>3. AtWork'
  <2>1. at[c] = "next"
    BY DEF Read, Write, Idle
  <2> QED
    BY <1>0, <1>1, <2>1 DEF MemoryTypeOK, GraphsCoherent, AtWork
<1> QED
  BY <1>1, <1>2, <1>3, GraphsKept

(* A read that finds no memory plans a write of the page it found: both    *)
(* graphs stay.                                                            *)
LEMMA LookupInv ==
  ASSUME GraphsCoherent, NEW c \in Client, Lookup(c)
  PROVE  GraphsCoherent'
<1>0. MemoryTypeOK /\ plan[c] # <<>>
  BY DEF GraphsCoherent, Lookup, Doing
<1>1. PICK steps \in Seq(PlanStep) : plan' = [plan EXCEPT ![c] = steps]
  <2> DEFINE p == Head(plan[c]).path
  <2>1. p \in Path /\ page[p] \in Text
    BY <1>0, HeadTyped DEF MemoryTypeOK
  <2>2. <<Planned("graph", p, page[p])>> \in Seq(PlanStep) /\ <<>> \in Seq(PlanStep)
    BY <2>1, PlannedTyped
  <2> QED
    BY <2>2 DEF Lookup
<1>2. UNCHANGED <<graph, readable, page, at, loaded, ensured, writes, faults, saved, mixed, first>>
  BY DEF Lookup
<1>3. MemoryTypeOK'
  <2>1. plan' \in [Client -> Seq(PlanStep)]
    BY <1>0, <1>1 DEF MemoryTypeOK
  <2> QED
    BY <1>0, <1>2, <2>1 DEF MemoryTypeOK
<1>4. AtWork'
  <2>1. at[c] = "next"
    BY DEF Lookup
  <2> QED
    BY <1>0, <1>1, <1>2, <2>1 DEF MemoryTypeOK, GraphsCoherent, AtWork
<1> QED
  BY <1>2, <1>3, <1>4, GraphsKept

(* A store whose preparation failed drops the request and nothing else.    *)
LEMMA RejectedInv ==
  ASSUME GraphsCoherent, NEW c \in Client, EnsureRejected(c)
  PROVE  GraphsCoherent'
<1>1. /\ plan' = [plan EXCEPT ![c] = <<>>]
      /\ UNCHANGED <<graph, readable, page, at, loaded, ensured, writes, faults, saved, mixed, first>>
  BY DEF EnsureRejected
<1>2. MemoryTypeOK'
  <2>1. plan' \in [Client -> Seq(PlanStep)]
    BY <1>1 DEF GraphsCoherent, MemoryTypeOK
  <2> QED
    BY <1>1, <2>1 DEF GraphsCoherent, MemoryTypeOK
<1>3. AtWork'
  <2>1. at[c] = "next"
    BY DEF EnsureRejected
  <2> QED
    BY <1>1, <2>1 DEF MemoryTypeOK, GraphsCoherent, AtWork
<1> QED
  BY <1>1, <1>2, <1>3, GraphsKept

(* The copy that a load makes is coherent, whether it found the file or    *)
(* not.                                                                    *)
LEMMA LoadInv ==
  ASSUME GraphsCoherent, NEW c \in Client, Load(c)
  PROVE  GraphsCoherent'
<1> DEFINE copy == Written(Loaded, Head(plan[c]).path, Head(plan[c]).text, writes + 1)
<1>0. MemoryTypeOK /\ CoherentGraph(graph) /\ plan[c] # <<>>
  BY DEF GraphsCoherent, Load, Doing
<1>1. Loaded \in Graph /\ CoherentGraph(Loaded)
  BY <1>0, FreshGraphCoherent DEF Loaded, MemoryTypeOK
<1>2. writes + 1 \in Nat \ {0} /\ writes + 1 \in 0 .. MaxWrites
  BY <1>0, MemoryAssumption DEF Load, MemoryTypeOK
<1>3. copy \in Graph /\ CoherentGraph(copy)
  BY <1>0, <1>1, <1>2, HeadTyped, WrittenCoherent
<1>4. /\ loaded' = [loaded EXCEPT ![c] = copy] /\ writes' = writes + 1
      /\ at' = [at EXCEPT ![c] = "loaded"] /\ mixed' = (mixed \/ Overlaps(c))
      /\ UNCHANGED <<graph, readable, page, plan, ensured, faults, saved, first>>
  BY DEF Load
<1> HIDE DEF copy
<1>5. MemoryTypeOK'
  <2>1. loaded' \in [Client -> Graph] /\ at' \in [Client -> {"next", "loaded", "writing", "crossed", "written", "dead"}]
    BY <1>0, <1>3, <1>4 DEF MemoryTypeOK
  <2>2. mixed' \in BOOLEAN
    BY <1>4
  <2> QED
    BY <1>0, <1>2, <1>4, <2>1, <2>2 DEF MemoryTypeOK
<1>6. \A d \in Client : CoherentGraph(loaded'[d])
  <2> SUFFICES ASSUME NEW d \in Client PROVE CoherentGraph(loaded'[d])
    OBVIOUS
  <2>1. loaded'[d] = copy \/ loaded'[d] = loaded[d]
    BY <1>0, <1>4 DEF MemoryTypeOK
  <2>2. CoherentGraph(loaded[d])
    BY DEF GraphsCoherent
  <2> QED
    BY <1>3, <2>1, <2>2
<1>7. CoherentGraph(graph)' /\ \A d \in Client : CoherentGraph(loaded[d])'
  BY <1>0, <1>4, <1>6 DEF CoherentGraph
<1>8. AtWork'
  BY <1>0, <1>4 DEF MemoryTypeOK, GraphsCoherent, AtWork
<1> QED
  BY <1>5, <1>7, <1>8 DEF GraphsCoherent

(* Opening the file for writing makes it unreadable for a while; what will *)
(* be saved is still the loaded copy.                                      *)
LEMMA OpenInv ==
  ASSUME GraphsCoherent, NEW c \in Client, OpenGraph(c)
  PROVE  GraphsCoherent'
<1> DEFINE stages == {"next", "loaded", "writing", "crossed", "written", "dead"}
<1>0. MemoryTypeOK
  BY DEF GraphsCoherent
<1>1. /\ readable' = FALSE
      /\ UNCHANGED <<graph, page, plan, loaded, ensured, writes, faults, saved, mixed, first>>
  BY DEF OpenGraph
<1>2. at' \in [Client -> stages]
  <2>1. at \in [Client -> stages]
    BY <1>0 DEF MemoryTypeOK
  <2>2. \A D \in SUBSET Client :
          /\ [at EXCEPT ![c] = "writing"] \in [Client -> stages]
          /\ [d \in Client |-> IF d \in D THEN "crossed" ELSE at[d]] \in [Client -> stages]
    BY <2>1
  <2>3. {d \in Client : at[d] \in {"writing", "crossed"}} \cup {c} \in SUBSET Client
    OBVIOUS
  <2> QED
    BY <2>2, <2>3 DEF OpenGraph
<1>3. MemoryTypeOK'
  BY <1>0, <1>1, <1>2 DEF MemoryTypeOK
<1>4. AtWork'
  <2> SUFFICES ASSUME NEW d \in Client, at'[d] \notin {"next", "dead"} PROVE plan'[d] # <<>>
    BY DEF AtWork
  <2>1. at[d] \notin {"next", "dead"}
    BY <1>0 DEF OpenGraph, MemoryTypeOK
  <2> QED
    BY <1>1, <2>1 DEF GraphsCoherent, AtWork
<1> QED
  BY <1>1, <1>3, <1>4, GraphsKept

(* What is saved is a loaded copy.                                         *)
LEMMA SaveInv ==
  ASSUME GraphsCoherent, NEW c \in Client, SaveGraph(c)
  PROVE  GraphsCoherent'
<1>0. MemoryTypeOK /\ \A d \in Client : CoherentGraph(loaded[d])
  BY DEF GraphsCoherent
<1>1. /\ graph' = loaded[c] /\ readable' \in BOOLEAN
      /\ saved' = saved \cup {v \in loaded[c].versions : v.stamp = loaded[c].memory[v.path].stamp}
      /\ at' = [at EXCEPT ![c] = "written"]
      /\ loaded' = [loaded EXCEPT ![c] = FreshGraph]
      /\ UNCHANGED <<page, plan, ensured, writes, faults, mixed, first>>
  BY DEF SaveGraph
<1>2. MemoryTypeOK'
  <2>1. loaded[c] \in Graph
    BY <1>0 DEF MemoryTypeOK
  <2>2. saved' \subseteq Version
    BY <1>0, <1>1, <2>1 DEF MemoryTypeOK, Graph
  <2>3. loaded' \in [Client -> Graph]
    BY <1>0, <1>1, FreshGraphCoherent DEF MemoryTypeOK
  <2>4. at' \in [Client -> {"next", "loaded", "writing", "crossed", "written", "dead"}]
    BY <1>0, <1>1 DEF MemoryTypeOK
  <2> QED
    BY <1>0, <1>1, <2>1, <2>2, <2>3, <2>4 DEF MemoryTypeOK
<1>3. \A d \in Client : CoherentGraph(loaded'[d])
  <2> SUFFICES ASSUME NEW d \in Client PROVE CoherentGraph(loaded'[d])
    OBVIOUS
  <2>1. loaded'[d] = FreshGraph \/ loaded'[d] = loaded[d]
    BY <1>0, <1>1 DEF MemoryTypeOK
  <2> QED
    BY <1>0, <2>1, FreshGraphCoherent
<1>4. CoherentGraph(graph)' /\ \A d \in Client : CoherentGraph(loaded[d])'
  <2>1. CoherentGraph(loaded[c])
    BY <1>0
  <2> QED
    BY <1>1, <1>3, <2>1 DEF CoherentGraph
<1>5. AtWork'
  <2>1. at[c] \notin {"next", "dead"}
    BY DEF SaveGraph
  <2> QED
    BY <1>0, <1>1, <2>1 DEF MemoryTypeOK, GraphsCoherent, AtWork
<1> QED
  BY <1>2, <1>4, <1>5 DEF GraphsCoherent

(* The pages are written after the graph and do not touch it.              *)
LEMMA PagesInv ==
  ASSUME GraphsCoherent, NEW c \in Client, MirrorGraph(c) \/ WritePage(c)
  PROVE  GraphsCoherent'
<1>0. MemoryTypeOK
  BY DEF GraphsCoherent
<1>1. UNCHANGED <<graph, readable, loaded, writes, faults, saved, mixed, first>>
  BY DEF MirrorGraph, WritePage
<1>8. plan[c] # <<>>
  BY DEF MirrorGraph, WritePage, Doing, GraphsCoherent, AtWork
<1>2. plan' \in [Client -> Seq(PlanStep)]
  BY <1>0, <1>8, HeadTyped DEF MemoryTypeOK, MirrorGraph, WritePage
<1>3. at' \in [Client -> {"next", "loaded", "writing", "crossed", "written", "dead"}]
  BY <1>0 DEF MemoryTypeOK, MirrorGraph, WritePage
<1>4. ensured' \in [Client -> {"no", "yes", "rejected"}]
  BY <1>0 DEF MemoryTypeOK, MirrorGraph, WritePage
<1>5. page' \in [Path -> Text]
  <2>1. CASE MirrorGraph(c)
    BY <1>0, <2>1, TextsTyped DEF MemoryTypeOK, MirrorGraph
  <2>2. CASE WritePage(c)
    BY <1>0, <1>8, <2>2, HeadTyped DEF MemoryTypeOK, WritePage
  <2> QED
    BY <2>1, <2>2
<1>6. MemoryTypeOK'
  BY <1>0, <1>1, <1>2, <1>3, <1>4, <1>5 DEF MemoryTypeOK
<1>7. AtWork'
  <2>1. /\ plan' = [plan EXCEPT ![c] = Tail(plan[c])] /\ at'[c] = "next"
        /\ at' \in {at, [at EXCEPT ![c] = "next"]}
    BY <1>0 DEF MemoryTypeOK, MirrorGraph, WritePage
  <2> QED
    BY <1>0, <2>1 DEF MemoryTypeOK, GraphsCoherent, AtWork
<1> QED
  BY <1>1, <1>6, <1>7, GraphsKept

(* A failed write or a death forgets the copy it held and at most leaves   *)
(* half-written pages.                                                     *)
LEMMA FaultsInv ==
  ASSUME GraphsCoherent, NEW c \in Client, WriteFails(c) \/ ClientDies(c)
  PROVE  GraphsCoherent'
<1>0. MemoryTypeOK
  BY DEF GraphsCoherent
<1>1. /\ faults < MaxFaults /\ faults' = faults + 1
      /\ plan' = [plan EXCEPT ![c] = <<>>]
      /\ at' \in {[at EXCEPT ![c] = "next"], [at EXCEPT ![c] = "dead"]}
      /\ loaded' = [loaded EXCEPT ![c] = FreshGraph]
      /\ page' \in PagesLeft(c)
      /\ ensured' \in {ensured, [ensured EXCEPT ![c] = "rejected"]}
      /\ UNCHANGED <<graph, readable, writes, saved, mixed, first>>
  BY DEF WriteFails, ClientDies
<1>2. MemoryTypeOK'
  <2>1. faults' \in 0 .. MaxFaults
    BY <1>0, <1>1, MemoryAssumption DEF MemoryTypeOK
  <2>2. plan' \in [Client -> Seq(PlanStep)]
    BY <1>0, <1>1 DEF MemoryTypeOK
  <2>3. at' \in [Client -> {"next", "loaded", "writing", "crossed", "written", "dead"}]
    BY <1>0, <1>1 DEF MemoryTypeOK
  <2>4. loaded' \in [Client -> Graph]
    BY <1>0, <1>1, FreshGraphCoherent DEF MemoryTypeOK
  <2>5. ensured' \in [Client -> {"no", "yes", "rejected"}]
    BY <1>0, <1>1 DEF MemoryTypeOK
  <2>6. page' \in [Path -> Text]
    BY <1>0, <1>1, PagesLeftTyped
  <2> QED
    BY <1>0, <1>1, <2>1, <2>2, <2>3, <2>4, <2>5, <2>6 DEF MemoryTypeOK
<1>3. \A d \in Client : loaded'[d] \in {loaded[d], FreshGraph}
  BY <1>0, <1>1 DEF MemoryTypeOK
<1>4. AtWork'
  BY <1>0, <1>1 DEF MemoryTypeOK, GraphsCoherent, AtWork
<1> QED
  BY <1>1, <1>2, <1>3, <1>4, GraphsKept

(* Every step of every client preserves the invariant.                     *)
LEMMA MemoryNextInv == GraphsCoherent /\ [MemoryNext]_memoryVars => GraphsCoherent'
<1> SUFFICES ASSUME GraphsCoherent, [MemoryNext]_memoryVars PROVE GraphsCoherent'
  OBVIOUS
<1>1. CASE UNCHANGED memoryVars
  <2>1. MemoryTypeOK' /\ AtWork'
    BY <1>1 DEF memoryVars, GraphsCoherent, MemoryTypeOK, AtWork
  <2> QED
    BY <1>1, <2>1, GraphsKept DEF memoryVars
<1>2. ASSUME NEW c \in Client,
             \/ \E p \in Path \ {ProjectPath}, t \in MemoryText : Write(c, p, t)
             \/ \E p \in Path \ {ProjectPath} : Read(c, p)
      PROVE  GraphsCoherent'
  BY <1>2, RequestsInv
<1>3. ASSUME NEW c \in Client, Lookup(c) \/ EnsureRejected(c)
      PROVE  GraphsCoherent'
  BY <1>3, LookupInv, RejectedInv
<1>4. ASSUME NEW c \in Client, Load(c) \/ OpenGraph(c) \/ SaveGraph(c)
      PROVE  GraphsCoherent'
  BY <1>4, LoadInv, OpenInv, SaveInv
<1>5. ASSUME NEW c \in Client, MirrorGraph(c) \/ WritePage(c)
      PROVE  GraphsCoherent'
  BY <1>5, PagesInv
<1>6. ASSUME NEW c \in Client, WriteFails(c) \/ ClientDies(c)
      PROVE  GraphsCoherent'
  BY <1>6, FaultsInv
<1> QED
  BY <1>1, <1>2, <1>3, <1>4, <1>5, <1>6 DEF MemoryNext

-----------------------------------------------------------------------------
(* The order of a write: its graph is saved before its page is written.    *)

(* The steps of one client do not disturb the order that the others keep.  *)
LEMMA OthersFollow ==
  ASSUME NEW c \in Client, PageFollows(c)', saved \subseteq saved',
         \A d \in Client : PageFollows(d),
         \A d \in Client \ {c} :
           /\ plan'[d] = plan[d] /\ loaded'[d] = loaded[d]
           /\ at'[d] = at[d] \/ (Accessing(d) /\ at'[d] \in {"loaded", "writing", "crossed"})
  PROVE  \A d \in Client : PageFollows(d)'
<1> SUFFICES ASSUME NEW d \in Client, d # c PROVE PageFollows(d)'
  OBVIOUS
<1>1. PageFollows(d) /\ plan'[d] = plan[d] /\ loaded'[d] = loaded[d]
  OBVIOUS
<1>2. at'[d] = at[d] \/ (Accessing(d) /\ Accessing(d)')
  BY DEF Accessing
<1>3. \A step : HasVersion(saved, step) => HasVersion(saved', step)
  BY DEF HasVersion
<1> QED
  BY <1>1, <1>2, <1>3 DEF PageFollows, Doing, Accessing, HasVersion

(* A client that is at rest with at most one step, none for a page.        *)
LEMMA ShortPlan ==
  ASSUME NEW c \in Client, at'[c] \in {"next", "dead"},
         plan'[c] = <<>> \/ \E step \in PlanStep : step.do # "page" /\ plan'[c] = <<step>>
  PROVE  PageFollows(c)'
<1>1. CASE plan'[c] = <<>>
  BY <1>1 DEF PageFollows, Accessing, Doing
<1>2. ASSUME NEW step \in PlanStep, step.do # "page", plan'[c] = <<step>>
      PROVE  PageFollows(c)'
  <2>1. Len(plan'[c]) = 1 /\ Head(plan'[c]) = step
    BY <1>2
  <2> QED
    BY <1>2, <2>1 DEF PageFollows, Accessing, Doing
<1> QED
  BY <1>1, <1>2

(* Nothing happens to the graph while no access of it begins or goes on.   *)
LEMMA StayUndisturbed ==
  ASSUME Undisturbed, faults' = 0 => faults = 0, UNCHANGED mixed, UNCHANGED saved,
         \A d \in Client : at'[d] \in {"next", "dead"} \/ (at'[d] = at[d] /\ loaded'[d] = loaded[d])
  PROVE  Undisturbed'
BY DEF Undisturbed, Accessing

(* The order of what is planned for a write.                               *)
LEMMA WriteFollows ==
  ASSUME MemoryTypeOK, NEW c \in Client, NEW p \in Path, NEW t \in MemoryText, Write(c, p, t)
  PROVE  PageFollows(c)'
<1> DEFINE ensure == Planned("ensure", ProjectPath, ProjectText)
           graphStep == Planned("graph", p, t)
           pageStep == Planned("page", p, t)
<1>1. at'[c] = "next" /\ plan'[c] = WriteSteps(c, p, t)
  BY DEF Write, Idle, MemoryTypeOK
<1>2. /\ ensure.do = "ensure" /\ graphStep.do = "graph" /\ pageStep.do = "page"
      /\ graphStep = [pageStep EXCEPT !.do = "graph"]
  BY DEF Planned
<1>3. ensure \in PlanStep /\ graphStep \in PlanStep /\ pageStep \in PlanStep
  <2>1. t \in Text /\ ProjectText \in Text /\ ProjectPath \in Path
    BY TextsTyped, MemoryAssumption
  <2> QED
    BY <2>1, PlannedTyped
<1> HIDE DEF ensure, graphStep, pageStep
<1> DEFINE last == <<graphStep, pageStep>>
<1>4. last \in Seq(PlanStep) /\ Len(last) = 2 /\ last[1] = graphStep /\ last[2] = pageStep
  BY <1>3
<1>5. PICK before \in {<<>>, <<ensure>>} : plan'[c] = before \o last
  BY <1>1 DEF WriteSteps, ensure, graphStep, pageStep
<1>6. before \in Seq(PlanStep) /\ Len(before) \in {0, 1} /\ \A i \in 1 .. Len(before) : before[i] = ensure
  <2>1. <<>> \in Seq(PlanStep) /\ Len(<<>>) = 0
    OBVIOUS
  <2>2. <<ensure>> \in Seq(PlanStep) /\ Len(<<ensure>>) = 1 /\ <<ensure>>[1] = ensure
    BY <1>3
  <2>3. CASE before = <<>>
    BY <2>1, <2>3
  <2>4. CASE before = <<ensure>>
    BY <2>2, <2>4
  <2> QED
    BY <2>3, <2>4
<1> HIDE DEF last
<1>7. /\ plan'[c] \in Seq(PlanStep) /\ Len(plan'[c]) = Len(before) + 2
      /\ \A i \in 1 .. Len(before) : plan'[c][i] = ensure
      /\ plan'[c][Len(before) + 1] = graphStep /\ plan'[c][Len(before) + 2] = pageStep
  BY <1>4, <1>5, <1>6, ConcatProperties
<1>8. ASSUME NEW i \in 2 .. Len(plan'[c]), plan'[c][i].do = "page"
      PROVE  plan'[c][i - 1] = [plan'[c][i] EXCEPT !.do = "graph"]
  <2>1. i = Len(before) + 2
    <3>1. i = Len(before) + 1 => plan'[c][i].do = "graph"
      BY <1>2, <1>7
    <3> QED
      BY <1>6, <1>7, <1>8, <3>1
  <2>2. i - 1 = Len(before) + 1
    BY <1>6, <2>1
  <2> QED
    BY <1>2, <1>7, <2>1, <2>2
<1>9. plan'[c] # <<>> /\ Head(plan'[c]).do # "page"
  <2>1. plan'[c] # <<>> /\ Head(plan'[c]) = plan'[c][1]
    BY <1>6, <1>7
  <2>2. plan'[c][1] = ensure \/ plan'[c][1] = graphStep
    <3>1. CASE Len(before) = 0
      BY <1>7, <3>1
    <3>2. CASE Len(before) = 1
      BY <1>7, <3>2
    <3> QED
      BY <1>6, <3>1, <3>2
  <2> QED
    BY <1>2, <2>1, <2>2
<1> QED
  BY <1>1, <1>8, <1>9 DEF PageFollows, Accessing, Doing

(* When a step is done, the page that follows it is of what was saved.     *)
LEMMA TailFollows ==
  ASSUME MemoryTypeOK, NEW c \in Client, PageFollows(c), saved' = saved,
         plan[c] # <<>>, plan'[c] = Tail(plan[c]), at'[c] = "next",
         at[c] = "written" \/ Doing(c, {"page"})
  PROVE  PageFollows(c)'
<1>1. plan[c] \in Seq(PlanStep) /\ Len(plan[c]) \in Nat \ {0}
  BY DEF MemoryTypeOK
<1>2. /\ Len(plan'[c]) = Len(plan[c]) - 1
      /\ \A i \in 1 .. Len(plan'[c]) : plan'[c][i] = plan[c][i + 1]
      /\ Head(plan[c]) = plan[c][1]
  BY <1>1
<1>3. ASSUME NEW i \in 2 .. Len(plan'[c]), plan'[c][i].do = "page"
      PROVE  plan'[c][i - 1] = [plan'[c][i] EXCEPT !.do = "graph"]
  <2>1. i + 1 \in 2 .. Len(plan[c]) /\ i - 1 \in 1 .. Len(plan'[c])
    BY <1>1, <1>2
  <2>2. plan'[c][i] = plan[c][i + 1] /\ plan'[c][i - 1] = plan[c][i]
    BY <1>1, <1>2, <2>1
  <2>3. plan[c][(i + 1) - 1] = [plan[c][i + 1] EXCEPT !.do = "graph"]
    BY <1>3, <2>1, <2>2 DEF PageFollows
  <2> QED
    BY <1>1, <1>2, <2>2, <2>3
<1>4. ASSUME Doing(c, {"page"})' PROVE HasVersion(saved', Head(plan'[c]))
  <2>1. plan'[c] # <<>> /\ Head(plan'[c]).do = "page"
    BY <1>4 DEF Doing
  <2>2. 2 \in 2 .. Len(plan[c]) /\ Head(plan'[c]) = plan[c][2]
    BY <1>1, <1>2, <2>1
  <2>3. plan[c][2 - 1] = [plan[c][2] EXCEPT !.do = "graph"]
    BY <2>1, <2>2 DEF PageFollows
  <2>4. plan[c][2] \in PlanStep
    BY <1>1, <2>2
  <2>5. /\ Head(plan[c]).path = Head(plan'[c]).path /\ Head(plan[c]).text = Head(plan'[c]).text
        /\ Head(plan[c]).do = "graph"
    BY <1>2, <2>2, <2>3, <2>4 DEF PlanStep
  <2>6. HasVersion(saved, Head(plan[c]))
    BY DEF PageFollows
  <2> QED
    BY <2>5, <2>6 DEF HasVersion
<1> QED
  BY <1>3, <1>4 DEF PageFollows, Accessing

(* What a client loads has the latest version of the step it takes.        *)
LEMMA WrittenHas ==
  ASSUME NEW g \in Graph, NEW p \in Path, NEW t \in Text, NEW now \in Nat
  PROVE  /\ \E v \in {w \in Written(g, p, t, now).versions :
                        w.stamp = Written(g, p, t, now).memory[w.path].stamp} :
              v.path = p /\ v.text = t
         /\ g.versions \subseteq Written(g, p, t, now).versions
<1> DEFINE v == [path |-> p, text |-> t, stamp |-> now]
<1>1. g.memory \in [Path -> [text : Text, stamp : Nat]]
  BY DEF Graph
<1>2. Written(g, p, t, now).memory[p].stamp = now
  BY <1>1 DEF Written
<1>3. v \in Written(g, p, t, now).versions /\ v.path = p /\ v.text = t /\ v.stamp = now
  BY DEF Written
<1>4. g.versions \subseteq Written(g, p, t, now).versions
  BY DEF Written
<1> HIDE DEF v
<1> QED
  BY <1>2, <1>3, <1>4

(* What the steps of the graph keep.                                       *)
LEMMA GraphStepsFollow ==
  ASSUME MemoryInv, NEW c \in Client, Load(c) \/ OpenGraph(c) \/ SaveGraph(c)
  PROVE  PageFollows(c)'
<1>0. MemoryTypeOK /\ PageFollows(c) /\ plan[c] # <<>> /\ Doing(c, {"ensure", "graph"})
  <2>1. MemoryTypeOK /\ PageFollows(c)
    BY DEF MemoryInv, GraphsCoherent
  <2>2. Doing(c, {"ensure", "graph"})
    BY <2>1 DEF Load, OpenGraph, SaveGraph, PageFollows
  <2> QED
    BY <2>1, <2>2 DEF Doing
<1>1. plan'[c] = plan[c]
  BY DEF Load, OpenGraph, SaveGraph
<1>2. /\ \A i \in 2 .. Len(plan'[c]) :
           plan'[c][i].do = "page" => plan'[c][i - 1] = [plan'[c][i] EXCEPT !.do = "graph"]
      /\ Doing(c, {"ensure", "graph"})' /\ ~(Doing(c, {"page"})')
  BY <1>0, <1>1 DEF PageFollows, Doing
<1>3. CASE Load(c)
  <2>1. Loaded \in Graph /\ Head(plan[c]).path \in Path /\ Head(plan[c]).text \in Text
    BY <1>0, HeadTyped, FreshGraphCoherent DEF Loaded, MemoryTypeOK
  <2>2. writes + 1 \in Nat /\ at'[c] = "loaded"
    BY <1>0, <1>3, MemoryAssumption DEF MemoryTypeOK, Load
  <2>3. loaded'[c] = Written(Loaded, Head(plan[c]).path, Head(plan[c]).text, writes + 1)
    BY <1>0, <1>3 DEF MemoryTypeOK, Load
  <2>4. HasVersion({v \in loaded'[c].versions : v.stamp = loaded'[c].memory[v.path].stamp},
                   Head(plan'[c]))
    BY <1>1, <2>1, <2>2, <2>3, WrittenHas DEF HasVersion
  <2> QED
    BY <1>2, <2>2, <2>4 DEF PageFollows
<1>4. CASE OpenGraph(c)
  <2>1. Accessing(c) /\ at'[c] \in {"writing", "crossed"} /\ loaded'[c] = loaded[c]
    BY <1>0, <1>4 DEF OpenGraph, MemoryTypeOK, Accessing
  <2> QED
    BY <1>0, <1>1, <1>2, <2>1 DEF PageFollows
<1>5. CASE SaveGraph(c)
  <2>1. Accessing(c) /\ at'[c] = "written"
    BY <1>0, <1>5 DEF SaveGraph, MemoryTypeOK, Accessing
  <2>2. saved' = saved \cup {v \in loaded[c].versions : v.stamp = loaded[c].memory[v.path].stamp}
    BY <1>5 DEF SaveGraph
  <2>3. HasVersion(saved', Head(plan'[c]))
    BY <1>0, <1>1, <2>1, <2>2 DEF PageFollows, HasVersion
  <2> QED
    BY <1>2, <2>1, <2>3 DEF PageFollows, Accessing
<1> QED
  BY <1>3, <1>4, <1>5

(* Every step keeps the order of every client.                             *)
LEMMA PagesFollowNext ==
  ASSUME MemoryInv, [MemoryNext]_memoryVars
  PROVE  \A c \in Client : PageFollows(c)'
<1>0. MemoryTypeOK /\ \A d \in Client : PageFollows(d)
  BY DEF MemoryInv, GraphsCoherent
<1>1. CASE UNCHANGED memoryVars
  BY <1>0, <1>1 DEF memoryVars, PageFollows, Doing, Accessing
<1>2. ASSUME NEW c \in Client,
             \/ \E p \in Path \ {ProjectPath}, t \in MemoryText : Write(c, p, t)
             \/ \E p \in Path \ {ProjectPath} : Read(c, p)
             \/ Lookup(c) \/ EnsureRejected(c)
             \/ WriteFails(c) \/ ClientDies(c)
      PROVE  \A d \in Client : PageFollows(d)'
  <2>1. CASE \E p \in Path \ {ProjectPath}, t \in MemoryText : Write(c, p, t)
    <3>1. PageFollows(c)'
      BY <1>0, <2>1, WriteFollows
    <3>2. /\ saved \subseteq saved'
          /\ \A d \in Client \ {c} : plan'[d] = plan[d] /\ loaded'[d] = loaded[d] /\ at'[d] = at[d]
      BY <1>0, <2>1 DEF Write, MemoryTypeOK
    <3> QED
      BY <1>0, <3>1, <3>2, OthersFollow
  <2>2. ASSUME ~(\E p \in Path \ {ProjectPath}, t \in MemoryText : Write(c, p, t))
        PROVE  \A d \in Client : PageFollows(d)'
    <3>1. /\ at'[c] \in {"next", "dead"} /\ saved \subseteq saved'
          /\ \A d \in Client \ {c} : plan'[d] = plan[d] /\ loaded'[d] = loaded[d] /\ at'[d] = at[d]
      BY <1>0, <1>2, <2>2
         DEF Read, Idle, Lookup, EnsureRejected, WriteFails, ClientDies, MemoryTypeOK
    <3>2. plan'[c] = <<>> \/ \E step \in PlanStep : step.do # "page" /\ plan'[c] = <<step>>
      <4>1. CASE \E p \in Path \ {ProjectPath} : Read(c, p)
        <5>1. PICK p \in Path : Read(c, p)
          BY <4>1
        <5>2. Planned("read", p, <<>>) \in PlanStep /\ Planned("read", p, <<>>).do # "page"
          BY TextsTyped, PlannedTyped DEF Planned
        <5> QED
          BY <1>0, <5>1, <5>2 DEF Read, MemoryTypeOK
      <4>2. CASE Lookup(c)
        <5> DEFINE p == Head(plan[c]).path
        <5>1. plan'[c] = <<>> \/ plan'[c] = <<Planned("graph", p, page[p])>>
          BY <1>0, <4>2 DEF Lookup, MemoryTypeOK
        <5>2. p \in Path /\ page[p] \in Text
          BY <1>0, <4>2, HeadTyped DEF Lookup, Doing, MemoryTypeOK
        <5>3. Planned("graph", p, page[p]) \in PlanStep /\ Planned("graph", p, page[p]).do # "page"
          BY <5>2, PlannedTyped DEF Planned
        <5> QED
          BY <5>1, <5>3
      <4>3. CASE EnsureRejected(c) \/ WriteFails(c) \/ ClientDies(c)
        BY <1>0, <4>3 DEF EnsureRejected, WriteFails, ClientDies, MemoryTypeOK
      <4> QED
        BY <1>2, <2>2, <4>1, <4>2, <4>3
    <3>3. PageFollows(c)'
      BY <3>1, <3>2, ShortPlan
    <3> QED
      BY <1>0, <3>1, <3>3, OthersFollow
  <2> QED
    BY <2>1, <2>2
<1>3. ASSUME NEW c \in Client, Load(c) \/ OpenGraph(c) \/ SaveGraph(c)
      PROVE  \A d \in Client : PageFollows(d)'
  <2>1. PageFollows(c)'
    BY <1>3, GraphStepsFollow
  <2>2. /\ saved \subseteq saved'
        /\ \A d \in Client \ {c} :
             /\ plan'[d] = plan[d] /\ loaded'[d] = loaded[d]
             /\ at'[d] = at[d] \/ (Accessing(d) /\ at'[d] \in {"loaded", "writing", "crossed"})
    BY <1>0, <1>3 DEF Load, OpenGraph, SaveGraph, MemoryTypeOK, Accessing
  <2> QED
    BY <1>0, <2>1, <2>2, OthersFollow
<1>4. ASSUME NEW c \in Client, MirrorGraph(c) \/ WritePage(c)
      PROVE  \A d \in Client : PageFollows(d)'
  <2>1. /\ saved' = saved /\ plan'[c] = Tail(plan[c]) /\ at'[c] = "next"
        /\ at[c] = "written" \/ Doing(c, {"page"})
        /\ \A d \in Client \ {c} : plan'[d] = plan[d] /\ loaded'[d] = loaded[d] /\ at'[d] = at[d]
    BY <1>0, <1>4 DEF MirrorGraph, WritePage, MemoryTypeOK
  <2>2. plan[c] # <<>>
    BY <1>0, <2>1 DEF PageFollows, Doing
  <2>3. PageFollows(c)'
    BY <1>0, <2>1, <2>2, TailFollows
  <2> QED
    BY <1>0, <2>1, <2>3, OthersFollow
<1> QED
  BY <1>1, <1>2, <1>3, <1>4 DEF MemoryNext

-----------------------------------------------------------------------------
(* What was saved stays, as long as nothing overlaps or fails.             *)

(* A load finds everything that was saved, and nobody else at the graph.   *)
LEMMA LoadUndisturbed ==
  ASSUME MemoryInv, MemoryKept, NEW c \in Client, Load(c)
  PROVE  Undisturbed'
<1>0. MemoryTypeOK /\ Undisturbed /\ plan[c] # <<>>
  BY DEF MemoryInv, GraphsCoherent, Load, Doing
<1>1. SUFFICES ASSUME ~mixed', faults' = 0
               PROVE  /\ \A d, e \in Client : (Accessing(d) /\ Accessing(e) => d = e)'
                      /\ \A d \in Client : at'[d] # "crossed"
                      /\ \A d \in Client : Accessing(d)' => saved' \subseteq loaded'[d].versions
  BY DEF Undisturbed
<1>2. /\ ~mixed /\ faults = 0 /\ ~Overlaps(c) /\ saved' = saved
      /\ at' = [at EXCEPT ![c] = "loaded"]
      /\ loaded' = [loaded EXCEPT ![c] =
           Written(Loaded, Head(plan[c]).path, Head(plan[c]).text, writes + 1)]
  BY <1>1 DEF Load
<1>3. \A d \in Client \ {c} : at'[d] = at[d] /\ ~Accessing(d)
  BY <1>0, <1>2 DEF Overlaps, MemoryTypeOK
<1>4. at'[c] = "loaded" /\ at[c] = "next"
  BY <1>0, <1>2 DEF Load, MemoryTypeOK
<1>5. \A d \in Client \ {c} : ~(Accessing(d)') /\ at'[d] # "crossed"
  BY <1>3 DEF Accessing
<1>6. saved \subseteq Loaded.versions
  <2>1. saved \subseteq graph.versions
        /\ (readable \/ saved = {} \/ \E d \in Client : at[d] = "writing")
    BY <1>2 DEF MemoryKept
  <2>2. \A d \in Client : at[d] # "writing"
    BY <1>3, <1>4 DEF Accessing
  <2>3. CASE readable
    BY <2>1, <2>3 DEF Loaded
  <2>4. CASE saved = {}
    BY <2>4
  <2> QED
    BY <2>1, <2>2, <2>3, <2>4
<1>7. Loaded \in Graph /\ Head(plan[c]).path \in Path /\ Head(plan[c]).text \in Text
      /\ writes + 1 \in Nat
  BY <1>0, HeadTyped, FreshGraphCoherent, MemoryAssumption DEF Loaded, MemoryTypeOK
<1>8. Loaded.versions \subseteq loaded'[c].versions
  BY <1>0, <1>2, <1>7, WrittenHas DEF MemoryTypeOK
<1>9. \A d \in Client : Accessing(d)' => d = c
  BY <1>5
<1> QED
  BY <1>2, <1>4, <1>5, <1>6, <1>8, <1>9

(* Every step leaves the graph undisturbed unless it disturbs it.          *)
LEMMA UndisturbedNext ==
  ASSUME MemoryInv, MemoryKept, [MemoryNext]_memoryVars
  PROVE  Undisturbed'
<1>0. MemoryTypeOK /\ Undisturbed
  BY DEF MemoryInv, GraphsCoherent
<1>1. CASE UNCHANGED memoryVars
  BY <1>0, <1>1, StayUndisturbed DEF memoryVars
<1>2. ASSUME NEW c \in Client,
             \/ \E p \in Path \ {ProjectPath}, t \in MemoryText : Write(c, p, t)
             \/ \E p \in Path \ {ProjectPath} : Read(c, p)
             \/ Lookup(c) \/ EnsureRejected(c) \/ MirrorGraph(c) \/ WritePage(c)
      PROVE  Undisturbed'
  <2>1. /\ UNCHANGED <<faults, mixed, saved, loaded>>
        /\ at' = at \/ at' = [at EXCEPT ![c] = "next"]
    BY <1>2 DEF Write, Read, Lookup, EnsureRejected, MirrorGraph, WritePage
  <2>2. \A d \in Client : at'[d] \in {"next", "dead"} \/ (at'[d] = at[d] /\ loaded'[d] = loaded[d])
    BY <1>0, <2>1 DEF MemoryTypeOK
  <2> QED
    BY <1>0, <2>1, <2>2, StayUndisturbed
<1>3. ASSUME NEW c \in Client, Load(c) PROVE Undisturbed'
  BY <1>3, LoadUndisturbed
<1>4. ASSUME NEW c \in Client, OpenGraph(c) PROVE Undisturbed'
  <2>1. UNCHANGED <<faults, mixed, saved, loaded>> /\ at[c] = "loaded"
    BY <1>4 DEF OpenGraph
  <2>2. SUFFICES ASSUME ~mixed, faults = 0
                 PROVE  /\ \A d, e \in Client : (Accessing(d) /\ Accessing(e) => d = e)'
                        /\ \A d \in Client : at'[d] # "crossed"
                        /\ \A d \in Client : Accessing(d)' => saved' \subseteq loaded'[d].versions
    BY <2>1 DEF Undisturbed
  <2>3. \A d \in Client : Accessing(d) => d = c
    BY <1>0, <2>1, <2>2 DEF Undisturbed, Accessing
  <2>4. \A d \in Client : at[d] \notin {"writing", "crossed"}
    BY <2>1, <2>3 DEF Accessing
  <2>5. {d \in Client : at[d] \in {"writing", "crossed"}} = {}
    BY <2>4
  <2>6. at' = [at EXCEPT ![c] = "writing"]
    BY <1>4, <2>5 DEF OpenGraph
  <2>7. at'[c] = "writing" /\ \A d \in Client \ {c} : at'[d] = at[d]
    BY <1>0, <2>6 DEF MemoryTypeOK
  <2>8. \A d \in Client : Accessing(d)' => d = c
    BY <2>3, <2>7 DEF Accessing
  <2>9. saved \subseteq loaded[c].versions
    BY <1>0, <2>1, <2>2 DEF Undisturbed, Accessing
  <2>10. \A d \in Client : at'[d] # "crossed"
    BY <2>4, <2>7
  <2> QED
    BY <2>1, <2>8, <2>9, <2>10
<1>5. ASSUME NEW c \in Client, SaveGraph(c) PROVE Undisturbed'
  <2>1. UNCHANGED <<faults, mixed>> /\ at[c] \in {"writing", "crossed"}
        /\ at'[c] = "written" /\ \A d \in Client \ {c} : at'[d] = at[d]
    BY <1>0, <1>5 DEF SaveGraph, MemoryTypeOK
  <2>2. ASSUME ~mixed, faults = 0
        PROVE  \A d \in Client : ~(Accessing(d)') /\ at'[d] # "crossed"
    <3>1. \A d \in Client : Accessing(d) => d = c
      BY <1>0, <2>1, <2>2 DEF Undisturbed, Accessing
    <3> QED
      BY <2>1, <3>1 DEF Accessing
  <2> QED
    BY <2>1, <2>2 DEF Undisturbed
<1>6. ASSUME NEW c \in Client, WriteFails(c) \/ ClientDies(c) PROVE Undisturbed'
  <2>1. faults' # 0
    BY <1>0, <1>6, MemoryAssumption DEF WriteFails, ClientDies, MemoryTypeOK
  <2> QED
    BY <2>1 DEF Undisturbed
<1> QED
  BY <1>1, <1>2, <1>3, <1>4, <1>5, <1>6 DEF MemoryNext

(* What was saved stays in the graph.                                      *)
SavedStays ==
  ~mixed /\ faults = 0 =>
    /\ saved \subseteq graph.versions
    /\ readable \/ saved = {} \/ \E c \in Client : at[c] = "writing"

(* A page shows nothing new that was not saved.                            *)
PageHonest(p) ==
  \/ page[p] \in {<<>>, first[p]}
  \/ p \in MirrorPath /\ page[p] = Overview
  \/ \E v \in saved : v.path = p /\ v.text = page[p]

LEMMA SavedStaysNext ==
  ASSUME MemoryInv, SavedStays, [MemoryNext]_memoryVars
  PROVE  SavedStays'
<1>0. MemoryTypeOK /\ Undisturbed
  BY DEF MemoryInv, GraphsCoherent
<1>1. CASE UNCHANGED memoryVars
  BY <1>1 DEF memoryVars, SavedStays
<1>2. ASSUME NEW c \in Client,
             \/ \E p \in Path \ {ProjectPath}, t \in MemoryText : Write(c, p, t)
             \/ \E p \in Path \ {ProjectPath} : Read(c, p)
             \/ Lookup(c) \/ EnsureRejected(c) \/ MirrorGraph(c) \/ WritePage(c) \/ Load(c)
      PROVE  SavedStays'
  <2>1. /\ UNCHANGED <<faults, saved, graph, readable>> /\ (mixed => mixed')
        /\ \/ at' = at \/ (at[c] = "written" /\ at' = [at EXCEPT ![c] = "next"])
           \/ (at[c] = "next" /\ at' = [at EXCEPT ![c] = "loaded"])
    <3>1. CASE \E p \in Path \ {ProjectPath}, t \in MemoryText : Write(c, p, t)
      BY <3>1 DEF Write
    <3>2. CASE \E p \in Path \ {ProjectPath} : Read(c, p)
      BY <3>2 DEF Read
    <3>3. CASE Lookup(c) \/ EnsureRejected(c) \/ WritePage(c)
      BY <3>3 DEF Lookup, EnsureRejected, WritePage
    <3>4. CASE MirrorGraph(c)
      BY <3>4 DEF MirrorGraph
    <3>5. CASE Load(c)
      BY <3>5 DEF Load
    <3> QED
      BY <1>2, <3>1, <3>2, <3>3, <3>4, <3>5
  <2>2. \A d \in Client : at[d] = "writing" => at'[d] = "writing"
    BY <1>0, <2>1 DEF MemoryTypeOK
  <2> QED
    BY <2>1, <2>2 DEF SavedStays
<1>3. ASSUME NEW c \in Client, OpenGraph(c) PROVE SavedStays'
  <2>1. UNCHANGED <<faults, mixed, saved, graph>>
    BY <1>3 DEF OpenGraph
  <2>2. ASSUME ~mixed, faults = 0 PROVE at'[c] = "writing"
    <3>1. \A d \in Client : at[d] \notin {"writing", "crossed"}
      BY <1>0, <1>3, <2>2 DEF Undisturbed, Accessing, OpenGraph
    <3>2. {d \in Client : at[d] \in {"writing", "crossed"}} = {}
      BY <3>1
    <3>3. at' = [at EXCEPT ![c] = "writing"]
      BY <1>3, <3>2 DEF OpenGraph
    <3> QED
      BY <1>0, <3>3 DEF MemoryTypeOK
  <2> QED
    BY <2>1, <2>2 DEF SavedStays
<1>4. ASSUME NEW c \in Client, SaveGraph(c) PROVE SavedStays'
  <2>1. UNCHANGED <<faults, mixed>> /\ graph' = loaded[c] /\ Accessing(c)
        /\ (at[c] # "crossed" => readable')
    BY <1>4 DEF SaveGraph, Accessing
  <2>2. \A v \in saved' : v \in saved \/ v \in loaded[c].versions
    BY <1>4 DEF SaveGraph
  <2> QED
    BY <1>0, <2>1, <2>2 DEF SavedStays, Undisturbed
<1>5. ASSUME NEW c \in Client, WriteFails(c) \/ ClientDies(c) PROVE SavedStays'
  <2>1. faults' # 0
    BY <1>0, <1>5, MemoryAssumption DEF WriteFails, ClientDies, MemoryTypeOK
  <2> QED
    BY <2>1 DEF SavedStays
<1> QED
  BY <1>1, <1>2, <1>3, <1>4, <1>5 DEF MemoryNext

(* A client leaves the pages as they were, shows the graph, or empties one.*)
LEMMA PagesLeftHonest ==
  ASSUME MemoryTypeOK, NEW c \in Client, NEW left \in PagesLeft(c), NEW p \in Path
  PROVE  left[p] \in {page[p], <<>>} \/ (p \in MirrorPath /\ left[p] = Overview)
<1>1. page \in [Path -> Text]
  BY DEF MemoryTypeOK
<1>2. CASE left = page
  BY <1>2
<1>3. ASSUME NEW shown \in SUBSET MirrorPath,
             left = [q \in Path |-> IF q \in shown THEN Overview ELSE page[q]]
      PROVE  left[p] \in {page[p], <<>>} \/ (p \in MirrorPath /\ left[p] = Overview)
  BY <1>3
<1>4. CASE Doing(c, {"page"}) /\ left = [page EXCEPT ![Head(plan[c]).path] = <<>>]
  BY <1>1, <1>4
<1> QED
  BY <1>2, <1>3, <1>4 DEF PagesLeft

LEMMA PageHonestNext ==
  ASSUME MemoryInv, NEW p \in Path, PageHonest(p), [MemoryNext]_memoryVars
  PROVE  PageHonest(p)'
<1>0. MemoryTypeOK /\ \A c \in Client : PageFollows(c)
  BY DEF MemoryInv, GraphsCoherent
<1>1. ASSUME page'[p] = page[p], first' = first, \A v \in saved : v \in saved'
      PROVE  PageHonest(p)'
  BY <1>1 DEF PageHonest
<1>2. CASE UNCHANGED memoryVars
  BY <1>1, <1>2 DEF memoryVars
<1>3. ASSUME NEW c \in Client,
             \/ \E q \in Path \ {ProjectPath}, t \in MemoryText : Write(c, q, t)
             \/ \E q \in Path \ {ProjectPath} : Read(c, q)
             \/ Lookup(c) \/ EnsureRejected(c) \/ Load(c) \/ OpenGraph(c) \/ SaveGraph(c)
      PROVE  PageHonest(p)'
  <2>1. UNCHANGED <<page, first>> /\ \A v \in saved : v \in saved'
    BY <1>3 DEF Write, Read, Lookup, EnsureRejected, Load, OpenGraph, SaveGraph
  <2> QED
    BY <1>1, <2>1
<1>4. ASSUME NEW c \in Client, MirrorGraph(c) PROVE PageHonest(p)'
  <2>1. UNCHANGED <<saved, first>> /\ page'[p] = IF p \in MirrorPath THEN Overview ELSE page[p]
    BY <1>4 DEF MirrorGraph
  <2> QED
    BY <1>1, <2>1 DEF PageHonest
<1>5. ASSUME NEW c \in Client, WritePage(c) PROVE PageHonest(p)'
  <2>1. UNCHANGED <<saved, first>>
        /\ page' = [page EXCEPT ![Head(plan[c]).path] = Head(plan[c]).text]
        /\ Doing(c, {"page"})
    BY <1>5 DEF WritePage
  <2>2. CASE p = Head(plan[c]).path
    <3>1. page'[p] = Head(plan[c]).text
      BY <1>0, <2>1, <2>2 DEF MemoryTypeOK
    <3>2. \E v \in saved : v.path = p /\ v.text = Head(plan[c]).text
      BY <1>0, <2>1, <2>2 DEF PageFollows, HasVersion
    <3> QED
      BY <2>1, <3>1, <3>2 DEF PageHonest
  <2>3. CASE p # Head(plan[c]).path
    BY <1>0, <1>1, <2>1, <2>3 DEF MemoryTypeOK
  <2> QED
    BY <2>2, <2>3
<1>6. ASSUME NEW c \in Client, WriteFails(c) \/ ClientDies(c) PROVE PageHonest(p)'
  <2>1. UNCHANGED <<saved, first>> /\ page' \in PagesLeft(c)
    BY <1>6 DEF WriteFails, ClientDies
  <2>2. page'[p] \in {page[p], <<>>} \/ (p \in MirrorPath /\ page'[p] = Overview)
    BY <1>0, <2>1, PagesLeftHonest
  <2> QED
    BY <1>1, <2>1, <2>2 DEF PageHonest
<1> QED
  BY <1>2, <1>3, <1>4, <1>5, <1>6 DEF MemoryNext

-----------------------------------------------------------------------------
(* The project memory, summed up.                                          *)

LEMMA KeptParts == MemoryKept <=> SavedStays /\ \A p \in Path : PageHonest(p)
BY DEF MemoryKept, SavedStays, PageHonest

LEMMA MemoryBegins == MemoryInit => MemoryInv /\ MemoryKept
<1> SUFFICES ASSUME MemoryInit PROVE MemoryInv /\ MemoryKept
  OBVIOUS
<1>1. GraphsCoherent
  BY MemoryInitInv
<1>2. \A c \in Client : PageFollows(c)
  BY DEF MemoryInit, PageFollows, Doing, Accessing
<1>3. Undisturbed
  BY DEF MemoryInit, Undisturbed, Accessing
<1>4. SavedStays /\ \A p \in Path : PageHonest(p)
  BY DEF MemoryInit, SavedStays, PageHonest
<1> QED
  BY <1>1, <1>2, <1>3, <1>4, KeptParts DEF MemoryInv

LEMMA MemoryGoesOn ==
  MemoryInv /\ MemoryKept /\ [MemoryNext]_memoryVars => MemoryInv' /\ MemoryKept'
<1> SUFFICES ASSUME MemoryInv, MemoryKept, [MemoryNext]_memoryVars
             PROVE  MemoryInv' /\ MemoryKept'
  OBVIOUS
<1>1. GraphsCoherent'
  BY MemoryNextInv DEF MemoryInv
<1>2. (\A c \in Client : PageFollows(c))' /\ Undisturbed'
  BY PagesFollowNext, UndisturbedNext
<1>3. SavedStays' /\ (\A p \in Path : PageHonest(p))'
  BY KeptParts, SavedStaysNext, PageHonestNext
<1>4. MemoryKept'
  BY <1>3 DEF MemoryKept, SavedStays, PageHonest
<1> QED
  BY <1>1, <1>2, <1>4 DEF MemoryInv

(* Whatever overlaps, fails or dies, every graph that is written is in     *)
(* itself consistent: a memory, its latest version and what was generated  *)
(* from it (LocalGraphMemoryStore.write) belong together.                  *)
THEOREM GraphCoherent == MemorySpec => []MemoryInv
BY MemoryBegins, MemoryGoesOn, PTL DEF MemorySpec

(* Without overlaps and failures no text that was saved is lost, and in    *)
(* any case a page that MemoryStore.write has changed shows a text that    *)
(* was saved in the graph before.                                          *)
THEOREM SavedIsKept == MemorySpec => []MemoryKept
BY MemoryBegins, MemoryGoesOn, PTL DEF MemorySpec

-----------------------------------------------------------------------------
(* The queue of a chat's state.json.                                       *)

(* The bounds as numbers.                                                  *)
LEMMA ChatNumbers ==
  /\ MaxPatches \in Nat /\ MaxSyncs + 1 \in Nat \ {0}
  /\ \A r \in 0 .. MaxResumes : r * (MaxSyncs + 1) \in Nat
  /\ \A r \in 0 .. MaxResumes :
       MaxUpdates + r * (MaxSyncs + 1) + MaxSyncs + 1 <= MaxPatches
<1> DEFINE M == MaxSyncs + 1
<1>1. M \in Nat /\ MaxResumes \in Nat /\ MaxUpdates \in Nat /\ MaxSyncs \in Nat /\ M # 0
  BY ChatAssumption
<1>2. MaxPatches = MaxUpdates + (MaxResumes + 1) * M
  BY DEF MaxPatches
<1> HIDE DEF M
<1>3. \A a \in Nat : a * M \in Nat
  BY <1>1
<1>4. \A r \in 0 .. MaxResumes : (MaxResumes + 1) * M = r * M + M + (MaxResumes - r) * M
  BY <1>1
<1>5. \A r \in 0 .. MaxResumes : (MaxResumes - r) * M \in Nat /\ r * M \in Nat
  BY <1>1, <1>3
<1>6. (MaxResumes + 1) * M \in Nat
  BY <1>1, <1>3
<1>7. MaxPatches \in Nat
  BY <1>1, <1>2, <1>6
<1>8. \A r \in 0 .. MaxResumes : MaxUpdates + r * M + M <= MaxPatches
  BY <1>1, <1>2, <1>4, <1>5
<1>9. \A r \in 0 .. MaxResumes :
        MaxUpdates + r * M + M = MaxUpdates + r * M + MaxSyncs + 1
  BY <1>1, <1>5 DEF M
<1> QED
  BY <1>1, <1>5, <1>7, <1>8, <1>9 DEF M

(* A patch in the queue is a patch.                                        *)
LEMMA QueuedTyped ==
  ASSUME ChatTypeOK
  PROVE  /\ Queued \subseteq Patch /\ ops \in Seq(Patch)
         /\ \A i \in DOMAIN ops : ops[i] \in Patch /\ ops[i] \in Queued
         /\ \A d \in drain : d \in [patch : Patch, at : {"read", "open", "write"}, found : ChatFile]
         /\ \A d \in drain : d.patch \in Patch /\ d.patch \in Queued
<1>1. ops \in Seq(Patch) /\ drain \subseteq [patch : Patch, at : {"read", "open", "write"}, found : ChatFile]
  BY DEF ChatTypeOK
<1>2. \A i \in DOMAIN ops : ops[i] \in Patch
  BY <1>1
<1>3. \A d \in drain : d.patch \in Patch
  BY <1>1
<1> QED
  BY <1>1, <1>2, <1>3 DEF Queued

(* A new patch is queued last, or taken at once.                           *)
LEMMA EnqueueQueues ==
  ASSUME ChatTypeOK, OnePatchAtATime, NEW p \in Patch, p \notin Queued, Enqueue(p)
  PROVE  /\ draining' = TRUE /\ drain' # {} /\ ops' \in Seq(Patch)
         /\ Queued' = Queued \cup {p}
         /\ drain' = drain \/ (drain' = {Reading(p)} /\ ops' = <<>>)
         /\ \A i, j \in DOMAIN ops' : i # j => ops'[i] # ops'[j]
         /\ \A d \in drain', i \in DOMAIN ops' : d.patch # ops'[i]
<1>0. ops \in Seq(Patch) /\ \A i \in DOMAIN ops : ops[i] \in Queued
  BY QueuedTyped
<1>1. CASE draining
  <2>1. ops' = Append(ops, p) /\ drain' = drain /\ draining' = TRUE
    BY <1>1, Zenon DEF Enqueue
  <2>2. /\ ops' \in Seq(Patch) /\ DOMAIN ops' = 1 .. Len(ops) + 1 /\ DOMAIN ops = 1 .. Len(ops)
        /\ Len(ops) \in Nat /\ ops'[Len(ops) + 1] = p
        /\ \A i \in 1 .. Len(ops) : ops'[i] = ops[i]
    BY <1>0, <2>1
  <2>3. \A i \in DOMAIN ops' : (i \in DOMAIN ops /\ ops'[i] = ops[i]) \/ (i = Len(ops) + 1 /\ ops'[i] = p)
    BY <2>2
  <2>4. \A x : x \in Queued' <=> x \in Queued \/ x = p
    <3>1. ASSUME NEW x \in Queued' PROVE x \in Queued \/ x = p
      BY <2>1, <2>3 DEF Queued
    <3>2. ASSUME NEW x \in Queued PROVE x \in Queued'
      BY <2>1, <2>2 DEF Queued
    <3>3. p \in Queued'
      <4>1. Len(ops) + 1 \in DOMAIN ops'
        BY <2>2
      <4> QED
        BY <2>2, <4>1 DEF Queued
    <3> QED
      BY <3>1, <3>2, <3>3
  <2>5. drain # {}
    BY <1>1 DEF OnePatchAtATime
  <2>6. \A i, j \in DOMAIN ops' : i # j => ops'[i] # ops'[j]
    BY <1>0, <2>3 DEF OnePatchAtATime
  <2>7. \A d \in drain', i \in DOMAIN ops' : d.patch # ops'[i]
    BY <2>1, <2>3, QueuedTyped DEF OnePatchAtATime
  <2> QED
    BY <2>1, <2>2, <2>4, <2>5, <2>6, <2>7
<1>2. CASE ~draining
  <2>1. drain = {} /\ ops = <<>>
    BY <1>2 DEF OnePatchAtATime
  <2>2. /\ draining' = TRUE /\ drain' = drain \cup {Reading(Head(Append(ops, p)))}
        /\ ops' = Tail(Append(ops, p))
    BY <1>2, Zenon DEF Enqueue
  <2>3. Append(ops, p) = <<p>> /\ Head(<<p>>) = p /\ Tail(<<p>>) = <<>>
    BY <2>1
  <2>4. drain' = {Reading(p)} /\ ops' = <<>>
    BY <2>1, <2>2, <2>3
  <2>5. Reading(p).patch = p /\ DOMAIN ops = {} /\ DOMAIN ops' = {}
    BY <2>1, <2>4 DEF Reading
  <2>6. Queued = {} /\ Queued' = {p}
    BY <2>1, <2>4, <2>5 DEF Queued
  <2>7. drain' # {} /\ ops' \in Seq(Patch) /\ Queued' = Queued \cup {p}
    BY <2>4, <2>6
  <2>8. /\ \A i, j \in DOMAIN ops' : i # j => ops'[i] # ops'[j]
        /\ \A d \in drain', i \in DOMAIN ops' : d.patch # ops'[i]
    BY <2>5
  <2> QED
    BY <2>2, <2>4, <2>7, <2>8, Zenon
<1> QED
  BY <1>1, <1>2

(* The patch that was taken leaves, and the next one, if any, is taken.    *)
LEMMA TakeNextTakes ==
  ASSUME ChatTypeOK, OnePatchAtATime, NEW d \in drain, TakeNext(d)
  PROVE  /\ draining' \in BOOLEAN /\ (draining' <=> drain' # {}) /\ (ops' # <<>> => draining')
         /\ ops' \in Seq(Patch) /\ (ops = <<>> => ops' = <<>> /\ drain' = {})
         /\ Queued' = Queued \ {d.patch}
         /\ drain' = {} \/ \E p \in Patch : drain' = {Reading(p)}
         /\ \A i, j \in DOMAIN ops' : i # j => ops'[i] # ops'[j]
         /\ \A e \in drain', i \in DOMAIN ops' : e.patch # ops'[i]
<1>0. ops \in Seq(Patch) /\ drain = {d} /\ d.patch \in Patch /\ draining = TRUE
  BY QueuedTyped DEF OnePatchAtATime, ChatTypeOK
<1>1. CASE ops = <<>>
  <2>1. drain' = {} /\ draining' = FALSE /\ ops' = <<>>
    BY <1>0, <1>1 DEF TakeNext
  <2>2. DOMAIN ops = {} /\ DOMAIN ops' = {}
    BY <1>1, <2>1
  <2>3. Queued = {d.patch} /\ Queued' = {}
    BY <1>0, <2>1, <2>2 DEF Queued
  <2>4. draining' \in BOOLEAN /\ (draining' <=> drain' # {}) /\ (ops' # <<>> => draining')
    BY <2>1, Zenon
  <2>5. ops' \in Seq(Patch) /\ Queued' = Queued \ {d.patch}
    BY <2>1, <2>3
  <2>6. /\ \A i, j \in DOMAIN ops' : i # j => ops'[i] # ops'[j]
        /\ \A e \in drain', i \in DOMAIN ops' : e.patch # ops'[i]
    BY <2>2
  <2> QED
    BY <2>1, <2>4, <2>5, <2>6, Zenon
<1>2. CASE ops # <<>>
  <2>1. drain' = {Reading(Head(ops))} /\ ops' = Tail(ops) /\ draining' = draining
    BY <1>0, <1>2 DEF TakeNext
  <2>2. /\ Len(ops) \in Nat \ {0} /\ DOMAIN ops = 1 .. Len(ops) /\ Head(ops) = ops[1]
        /\ ops' \in Seq(Patch) /\ DOMAIN ops' = 1 .. Len(ops) - 1
        /\ \A i \in 1 .. Len(ops) - 1 : ops'[i] = ops[i + 1]
    BY <1>0, <1>2, <2>1
  <2>3. \A i \in DOMAIN ops' : i \in Nat /\ i + 1 \in DOMAIN ops /\ i + 1 # 1 /\ ops'[i] = ops[i + 1]
    BY <2>2
  <2>4. \A i \in DOMAIN ops : i = 1 \/ (i - 1 \in DOMAIN ops' /\ ops'[i - 1] = ops[i])
    BY <2>2
  <2>5. 1 \in DOMAIN ops /\ Reading(Head(ops)).patch = ops[1] /\ ops[1] \in Patch
    BY <1>0, <2>2 DEF Reading
  <2>6. \A i, j \in DOMAIN ops : i # j => ops[i] # ops[j]
    BY DEF OnePatchAtATime
  <2>7. \A i \in DOMAIN ops : ops[i] # d.patch
    BY DEF OnePatchAtATime
  <2>8. \A i, j \in DOMAIN ops' : i # j => ops'[i] # ops'[j]
    <3> SUFFICES ASSUME NEW i \in DOMAIN ops', NEW j \in DOMAIN ops', i # j PROVE ops'[i] # ops'[j]
      OBVIOUS
    <3>1. i + 1 \in DOMAIN ops /\ j + 1 \in DOMAIN ops /\ i + 1 # j + 1
      BY <2>3
    <3> QED
      BY <2>3, <2>6, <3>1
  <2>9. \A e \in drain', i \in DOMAIN ops' : e.patch # ops'[i]
    BY <2>1, <2>3, <2>5, <2>6
  <2>10. \A x : x \in Queued' <=> x \in Queued /\ x # d.patch
    <3>1. ASSUME NEW x \in Queued' PROVE x \in Queued /\ x # d.patch
      <4>1. x = ops[1] \/ \E i \in DOMAIN ops' : x = ops'[i]
        BY <2>1, <2>5 DEF Queued
      <4>2. \E i \in DOMAIN ops : x = ops[i]
        BY <2>3, <2>5, <4>1
      <4> QED
        BY <2>7, <4>2 DEF Queued
    <3>2. ASSUME NEW x \in Queued, x # d.patch PROVE x \in Queued'
      <4>1. PICK i \in DOMAIN ops : x = ops[i]
        BY <1>0, <3>2 DEF Queued
      <4>2. x = ops[1] \/ \E j \in DOMAIN ops' : x = ops'[j]
        BY <2>4, <4>1
      <4> QED
        BY <2>1, <2>5, <4>2 DEF Queued
    <3> QED
      BY <3>1, <3>2
  <2>11. Queued' = Queued \ {d.patch}
    BY <2>10
  <2> QED
    BY <1>0, <1>2, <2>1, <2>2, <2>5, <2>8, <2>9, <2>11
<1> QED
  BY <1>1, <1>2

(* In the end only the final patch is left in the queue.                   *)
LEMMA FinalOnly ==
  ASSUME ChatInv, Alive, final \in resolved
  PROVE  drain = {}
<1>1. final # 0 /\ \A d \in drain : d.patch # final
  BY QueuedTyped DEF ChatInv, OnePatchAtATime
<1> QED
  BY <1>1 DEF ChatInv, ChatTypeOK, FinalIsLast, Alive

(* A patch is answered, having been written or having failed.              *)
LEMMA NextPatchKeeps ==
  ASSUME ChatInv, Alive, NEW d \in drain, NEW failed \in BOOLEAN, NextPatch(d, failed),
         UNCHANGED <<chatPhase, exitOk, patches, final, pausing, accumulated, sync, todos, parsed,
                     meta, updates, resumes>>,
         ioFaults' = ioFaults \/ (ioFaults < MaxIOFaults /\ ioFaults' = ioFaults + 1),
         \/ failed /\ UNCHANGED <<chatState, parses>>
         \/ ~failed /\ d.found = chatState /\ chatState' = Patched(d) /\ parses' = TRUE
  PROVE  ChatInv'
<1>0. /\ ChatTypeOK /\ OnePatchAtATime /\ PatchesCounted /\ EndAwaitsAll /\ FinalIsLast
      /\ TodosOnTheirWay /\ resolved \ dropped \subseteq chatState.applied
  BY DEF ChatInv
<1>1. /\ draining' \in BOOLEAN /\ (draining' <=> drain' # {}) /\ (ops' # <<>> => draining')
      /\ ops' \in Seq(Patch) /\ (ops = <<>> => ops' = <<>> /\ drain' = {})
      /\ Queued' = Queued \ {d.patch}
      /\ drain' = {} \/ \E p \in Patch : drain' = {Reading(p)}
      /\ \A i, j \in DOMAIN ops' : i # j => ops'[i] # ops'[j]
      /\ \A e \in drain', i \in DOMAIN ops' : e.patch # ops'[i]
  BY <1>0, TakeNextTakes DEF NextPatch
<1>2. /\ resolved' = resolved \cup {d.patch}
      /\ unfinished' = unfinished \ {<<"patch", d.patch>>}
      /\ dropped' = IF failed THEN dropped \cup {d.patch} ELSE dropped
  BY DEF NextPatch
<1>3. d.patch \in Patch /\ d.patch \in Queued /\ d.patch \notin resolved /\ d.found \in ChatFile
  BY <1>0, QueuedTyped DEF OnePatchAtATime
<1>4. /\ drain' \subseteq [patch : Patch, at : {"read", "open", "write"}, found : ChatFile]
      /\ \A e \in drain' : e.at = "read" /\ \A f \in drain' : e = f
  <2>1. \A p \in Patch : /\ Reading(p) \in [patch : Patch, at : {"read", "open", "write"}, found : ChatFile]
                         /\ Reading(p).at = "read"
    BY DEF Reading, ChatFile
  <2> QED
    BY <1>1, <2>1
<1>5. chatState' \in ChatFile /\ parses' \in BOOLEAN
  <2>1. Outcome \in Ended
    BY DEF Outcome, Ended
  <2>2. Patched(d) \in ChatFile
    BY <1>3, <2>1 DEF Patched, ChatFile
  <2> QED
    BY <1>0, <2>2 DEF ChatTypeOK
<1>6. ioFaults' \in 0 .. MaxIOFaults /\ (ioFaults' = 0 => ioFaults = 0)
  BY <1>0, ChatAssumption DEF ChatTypeOK
<1>7. resolved' \subseteq Patch /\ dropped' \subseteq resolved'
      /\ unfinished' \subseteq ({"patch"} \X Patch) \cup ({"sync"} \X Sync)
  BY <1>0, <1>2, <1>3 DEF ChatTypeOK
<1>8. ChatTypeOK'
  BY <1>0, <1>1, <1>4, <1>5, <1>6, <1>7 DEF ChatTypeOK
<1>9. OnePatchAtATime'
  <2>1. Queued' \cap resolved' = {} /\ Queued' \cup resolved' \subseteq 1 .. patches'
    BY <1>0, <1>1, <1>2, <1>3 DEF OnePatchAtATime
  <2> QED
    BY <1>1, <1>4, <2>1 DEF OnePatchAtATime
<1>10. PatchesCounted'
  BY <1>0 DEF PatchesCounted
<1>11. EndAwaitsAll'
  <2>1. ASSUME NEW p \in Queued' PROVE AwaitedAtEnd(p)'
    BY <1>0, <1>1, <1>2, <2>1 DEF EndAwaitsAll, AwaitedAtEnd
  <2>2. ASSUME NEW s \in Sync, sync'[s].at \notin {"none", "over"} PROVE <<"sync", s>> \in unfinished'
    BY <1>0, <1>2, <2>2 DEF EndAwaitsAll
  <2> QED
    BY <2>1, <2>2 DEF EndAwaitsAll
<1>12. FinalIsLast'
  <2>1. ASSUME chatPhase \in {"finalizing", "marking", "closed"}
        PROVE  unfinished' = {} /\ final # 0 /\ ops' = <<>> /\ drain' = {}
    BY <1>0, <1>1, <1>2, <2>1 DEF FinalIsLast
  <2>2. final \notin resolved
    BY FinalOnly
  <2>3. ASSUME final \in resolved' \ dropped' PROVE parses' /\ chatState'.status = Outcome
    <3>1. final = d.patch /\ ~failed
      BY <1>2, <2>2, <2>3
    <3> QED
      BY <3>1 DEF Patched
  <2>4. Outcome' = Outcome
    BY DEF Outcome
  <2> QED
    BY <1>0, <1>2, <2>1, <2>3, <2>4 DEF FinalIsLast, Alive
<1>13. TodosOnTheirWay'
  BY <1>0, <1>6 DEF TodosOnTheirWay, OnItsWay
<1>14. resolved' \ dropped' \subseteq chatState'.applied
  BY <1>0, <1>2 DEF Patched
<1> QED
  BY <1>8, <1>9, <1>10, <1>11, <1>12, <1>13, <1>14 DEF ChatInv

(* Steps of the patch that is under way.                                   *)
LEMMA UnderWayKeeps ==
  ASSUME ChatInv, Alive, NEW d \in drain, NEW e, e.patch = d.patch, drain' = {e},
         e \in [patch : Patch, at : {"open", "write"}, found : {chatState}],
         parses' \in BOOLEAN, e.at = "open" => parses',
         UNCHANGED <<chatPhase, exitOk, ops, draining, chatState, patches, final, resolved, dropped,
                     unfinished, pausing, accumulated, sync, todos, parsed, meta, updates, ioFaults,
                     resumes>>
  PROVE  ChatInv'
<1>0. /\ ChatTypeOK /\ OnePatchAtATime /\ PatchesCounted /\ EndAwaitsAll /\ FinalIsLast
      /\ TodosOnTheirWay /\ resolved \ dropped \subseteq chatState.applied
  BY DEF ChatInv
<1>1. drain = {d} /\ Queued' = Queued
  <2>1. drain = {d}
    BY <1>0 DEF OnePatchAtATime
  <2> QED
    BY <2>1 DEF Queued
<1>2. ChatTypeOK'
  <2>1. e \in [patch : Patch, at : {"read", "open", "write"}, found : ChatFile]
    BY <1>0 DEF ChatTypeOK
  <2> QED
    BY <1>0, <2>1 DEF ChatTypeOK
<1>3. OnePatchAtATime'
  BY <1>0, <1>1 DEF OnePatchAtATime
<1>4. EndAwaitsAll'
  BY <1>0, <1>1 DEF EndAwaitsAll, AwaitedAtEnd
<1>5. FinalIsLast'
  <2>1. final \notin resolved
    BY FinalOnly
  <2> QED
    BY <1>0, <1>1, <2>1 DEF FinalIsLast
<1> QED
  BY <1>0, <1>2, <1>3, <1>4, <1>5 DEF ChatInv, PatchesCounted, TodosOnTheirWay, OnItsWay

(* The steps of the queue.                                                 *)
LEMMA QueueStepsKeep ==
  ASSUME ChatInv, NEW d \in drain, ReadState(d) \/ OpenState(d) \/ WriteState(d) \/ StateFails(d)
  PROVE  ChatInv'
<1>0. Alive /\ ChatTypeOK /\ OnePatchAtATime /\ drain = {d}
      /\ d \in [patch : Patch, at : {"read", "open", "write"}, found : ChatFile]
  BY QueuedTyped DEF ChatInv, OnePatchAtATime, ReadState, OpenState, WriteState, StateFails
<1>1. CASE ReadState(d)
  <2>1. CASE parses
    <3> DEFINE e == [d EXCEPT !.at = "open", !.found = chatState]
    <3>1. drain' = {e} /\ UNCHANGED <<ops, draining, resolved, dropped, unfinished>>
      BY <1>0, <1>1, <2>1 DEF ReadState
    <3>2. e \in [patch : Patch, at : {"open", "write"}, found : {chatState}] /\ e.patch = d.patch
      BY <1>0
    <3> HIDE DEF e
    <3> QED
      BY <1>0, <1>1, <2>1, <3>1, <3>2, UnderWayKeeps DEF ReadState, todoVars, boundVars, ChatTypeOK
  <2>2. CASE ~parses
    BY <1>0, <1>1, <2>2, NextPatchKeeps DEF ReadState, todoVars, boundVars
  <2> QED
    BY <2>1, <2>2
<1>2. CASE OpenState(d)
  <2> DEFINE e == [d EXCEPT !.at = "write"]
  <2>1. drain' = {e} /\ parses' = FALSE
    BY <1>0, <1>2 DEF OpenState
  <2>2. e \in [patch : Patch, at : {"open", "write"}, found : {chatState}]
        /\ e.patch = d.patch /\ e.at # "open"
    BY <1>0, <1>2 DEF OpenState, OnePatchAtATime
  <2> HIDE DEF e
  <2> QED
    BY <1>0, <1>2, <2>1, <2>2, UnderWayKeeps DEF OpenState, todoVars, boundVars
<1>3. CASE WriteState(d)
  <2>1. d.found = chatState
    BY <1>0, <1>3 DEF WriteState, OnePatchAtATime
  <2> QED
    BY <1>0, <1>3, <2>1, NextPatchKeeps DEF WriteState, todoVars, boundVars
<1>4. CASE StateFails(d)
  BY <1>0, <1>4, NextPatchKeeps DEF StateFails, todoVars
<1> QED
  BY <1>1, <1>2, <1>3, <1>4

-----------------------------------------------------------------------------
(* New patches.                                                            *)

(* What was counted leaves room within the bound.                          *)
LEMMA PatchesFit ==
  ASSUME NEW n \in Nat, NEW u \in 0 .. MaxUpdates, NEW S \in SUBSET Sync, NEW b \in {0, 1},
         NEW r \in 0 .. MaxResumes, n <= u + Cardinality(S) + b + r * (MaxSyncs + 1)
  PROVE  n \in 0 .. MaxPatches
<1>1. Cardinality(S) \in Nat /\ Cardinality(S) <= MaxSyncs /\ MaxSyncs \in Nat /\ MaxUpdates \in Nat
  <2>1. IsFiniteSet(Sync) /\ Cardinality(Sync) = MaxSyncs
    <3>1. 1 \in Int /\ MaxSyncs \in Int /\ MaxSyncs \in Nat
      BY ChatAssumption
    <3>2. /\ IsFiniteSet(1 .. MaxSyncs)
          /\ Cardinality(1 .. MaxSyncs) = IF 1 > MaxSyncs THEN 0 ELSE MaxSyncs - 1 + 1
      BY <3>1, FS_Interval
    <3> QED
      BY <3>1, <3>2 DEF Sync
  <2> QED
    BY <2>1, FS_Subset, FS_CardinalityType, ChatAssumption
<1>2. PICK k \in Nat : k = r * (MaxSyncs + 1)
  BY ChatNumbers
<1>3. MaxUpdates + k + MaxSyncs + 1 <= MaxPatches /\ MaxPatches \in Nat
  BY <1>2, ChatNumbers
<1>4. n <= u + Cardinality(S) + b + k
  BY <1>2
<1>5. n <= MaxUpdates + MaxSyncs + 1 + k
  BY <1>1, <1>2, <1>4
<1> QED
  BY <1>1, <1>2, <1>3, <1>5

(* The queue after a new patch.                                            *)
LEMMA EnqueueKeeps ==
  ASSUME ChatInv, patches + 1 \in 0 .. MaxPatches, Enqueue(patches + 1), patches' = patches + 1,
         UNCHANGED <<chatState, parses, resolved, dropped>>
  PROVE  /\ OnePatchAtATime' /\ draining' \in BOOLEAN /\ ops' \in Seq(Patch)
         /\ drain' \subseteq [patch : Patch, at : {"read", "open", "write"}, found : ChatFile]
         /\ patches' \in 0 .. MaxPatches /\ patches + 1 \in Patch
         /\ patches + 1 \notin resolved /\ patches + 1 # 0
         /\ \A p \in Queued' : p \in Queued \/ p = patches + 1
         /\ drain = {} => drain' = {Reading(patches + 1)} /\ ops' = <<>>
<1>0. ChatTypeOK /\ OnePatchAtATime /\ patches \in Nat
  BY ChatNumbers DEF ChatInv, ChatTypeOK
<1>1. patches + 1 \in Patch /\ patches + 1 \notin Queued /\ patches + 1 \notin resolved
      /\ patches + 1 # 0
  BY <1>0, ChatNumbers DEF OnePatchAtATime, Patch
<1>2. /\ draining' = TRUE /\ drain' # {} /\ ops' \in Seq(Patch)
      /\ Queued' = Queued \cup {patches + 1}
      /\ drain' = drain \/ (drain' = {Reading(patches + 1)} /\ ops' = <<>>)
      /\ \A i, j \in DOMAIN ops' : i # j => ops'[i] # ops'[j]
      /\ \A d \in drain', i \in DOMAIN ops' : d.patch # ops'[i]
  BY <1>0, <1>1, EnqueueQueues
<1>3. /\ Reading(patches + 1) \in [patch : Patch, at : {"read", "open", "write"}, found : ChatFile]
      /\ Reading(patches + 1).at = "read"
  BY <1>1 DEF Reading, ChatFile
<1>4. drain' \subseteq [patch : Patch, at : {"read", "open", "write"}, found : ChatFile]
  BY <1>0, <1>2, <1>3 DEF ChatTypeOK
<1>5. OnePatchAtATime'
  <2>1. Queued' \cap resolved' = {} /\ Queued' \cup resolved' \subseteq 1 .. patches'
    BY <1>0, <1>1, <1>2 DEF OnePatchAtATime
  <2>2. \A d, e \in drain' : d = e
    BY <1>0, <1>2 DEF OnePatchAtATime
  <2>3. /\ \A d \in drain' : d.at # "read" => d.found = chatState'
        /\ \A d \in drain' : d.at = "open" => parses'
    BY <1>0, <1>2, <1>3 DEF OnePatchAtATime
  <2> QED
    BY <1>2, <2>1, <2>2, <2>3 DEF OnePatchAtATime
<1>6. drain = {} => drain' = {Reading(patches + 1)} /\ ops' = <<>>
  BY <1>2
<1> QED
  BY <1>1, <1>2, <1>4, <1>5, <1>6

(* The queue and what counts its patches stay as they are.                 *)
LEMMA QueueUnchanged ==
  ASSUME OnePatchAtATime,
         UNCHANGED <<ops, draining, drain, chatState, parses, resolved, patches>>
  PROVE  OnePatchAtATime' /\ Queued' = Queued
BY DEF OnePatchAtATime, Queued

(* A sync under way shows that the end has not begun.                      *)
LEMMA StillOpen ==
  ASSUME ChatInv, Alive, NEW s \in Sync, sync[s].at \notin {"none", "over"}
  PROVE  chatPhase \in {"chatting", "closing"} /\ final = 0 /\ <<"sync", s>> \in unfinished
<1>1. <<"sync", s>> \in unfinished
  BY DEF ChatInv, EndAwaitsAll
<1> QED
  BY <1>1 DEF ChatInv, ChatTypeOK, FinalIsLast, Alive

(* Until the end begins there is no final patch.                           *)
LEMMA NotFinal ==
  ASSUME ChatInv, chatPhase' \in {"chatting", "closing", "killed"}, final' = 0,
         UNCHANGED resolved
  PROVE  FinalIsLast'
<1>1. 0 \notin resolved
  BY DEF ChatInv, OnePatchAtATime
<1> QED
  BY <1>1 DEF FinalIsLast

(* A heartbeat or an activity.                                             *)
LEMMA UpdateKeeps ==
  ASSUME ChatInv, Update
  PROVE  ChatInv'
<1>0. /\ ChatTypeOK /\ OnePatchAtATime /\ PatchesCounted /\ EndAwaitsAll /\ FinalIsLast
      /\ TodosOnTheirWay /\ resolved \ dropped \subseteq chatState.applied
  BY DEF ChatInv
<1>1. /\ chatPhase = "chatting" /\ updates' = updates + 1 /\ updates' \in 0 .. MaxUpdates
      /\ patches' = patches + 1 /\ Enqueue(patches + 1)
      /\ unfinished' = unfinished \cup {<<"patch", patches + 1>>}
      /\ UNCHANGED <<chatPhase, exitOk, chatState, parses, final, resolved, dropped, pausing,
                     accumulated, sync, todos, parsed, meta, ioFaults, resumes>>
  BY <1>0, ChatAssumption DEF Update, todoVars, ChatTypeOK
<1>2. final = 0 /\ patches \in Nat /\ updates \in Nat /\ resumes \in 0 .. MaxResumes
  BY <1>0, <1>1, ChatNumbers, ChatAssumption DEF FinalIsLast, ChatTypeOK
<1> DEFINE marked == {s \in Sync : sync[s].patch # 0}
<1>3. patches + 1 <= updates' + Cardinality(marked) + 0 + resumes * (MaxSyncs + 1)
  <2>1. patches <= updates + Cardinality(marked) + 0 + resumes * (MaxSyncs + 1)
    BY <1>0, <1>2 DEF PatchesCounted
  <2>2. Cardinality(marked) \in Nat
    <3>1. IsFiniteSet(Sync)
      BY ChatAssumption, FS_Interval DEF Sync
    <3> QED
      BY <3>1, FS_Subset, FS_CardinalityType
  <2>3. resumes * (MaxSyncs + 1) \in Nat
    BY <1>2, ChatNumbers
  <2> HIDE DEF marked
  <2> QED
    BY <1>1, <1>2, <2>1, <2>2, <2>3
<1>4. patches + 1 \in 0 .. MaxPatches
  BY <1>1, <1>2, <1>3, PatchesFit
<1>5. /\ OnePatchAtATime' /\ draining' \in BOOLEAN /\ ops' \in Seq(Patch)
      /\ drain' \subseteq [patch : Patch, at : {"read", "open", "write"}, found : ChatFile]
      /\ patches' \in 0 .. MaxPatches /\ patches + 1 \in Patch
      /\ \A p \in Queued' : p \in Queued \/ p = patches + 1
  BY <1>1, <1>4, EnqueueKeeps
<1>6. ChatTypeOK'
  BY <1>0, <1>1, <1>5 DEF ChatTypeOK
<1>7. PatchesCounted'
  BY <1>0, <1>1, <1>2, <1>3 DEF PatchesCounted
<1>8. EndAwaitsAll'
  <2>1. \A p \in Queued' : AwaitedAtEnd(p)'
    BY <1>0, <1>1, <1>5 DEF EndAwaitsAll, AwaitedAtEnd
  <2> QED
    BY <1>0, <1>1, <2>1 DEF EndAwaitsAll
<1>9. FinalIsLast'
  BY <1>1, <1>2, NotFinal
<1>10. TodosOnTheirWay' /\ resolved' \ dropped' \subseteq chatState'.applied
  BY <1>0, <1>1 DEF TodosOnTheirWay, OnItsWay
<1> QED
  BY <1>5, <1>6, <1>7, <1>8, <1>9, <1>10 DEF ChatInv

-----------------------------------------------------------------------------
(* The todos.                                                              *)

(* Todos in the output wait for the next sync.                             *)
LEMMA ParsedKeeps ==
  ASSUME ChatInv, NEW t \in Todo, TodosParsed(t)
  PROVE  ChatInv'
<1>0. /\ ChatTypeOK /\ OnePatchAtATime /\ PatchesCounted /\ EndAwaitsAll /\ FinalIsLast
      /\ TodosOnTheirWay /\ resolved \ dropped \subseteq chatState.applied
  BY DEF ChatInv
<1>1. /\ chatPhase = "chatting" /\ pausing' = TRUE
      /\ accumulated' = accumulated \cup {t} /\ parsed' = parsed \cup {t}
      /\ UNCHANGED <<chatPhase, exitOk, ops, draining, drain, chatState, parses, resolved, dropped,
                     patches, final, unfinished, sync, todos, meta, updates, ioFaults, resumes>>
  BY DEF TodosParsed, queueVars, boundVars
<1>2. ChatTypeOK'
  BY <1>0, <1>1 DEF ChatTypeOK
<1>3. OnePatchAtATime' /\ Queued' = Queued
  BY <1>0, <1>1, QueueUnchanged
<1>4. EndAwaitsAll' /\ FinalIsLast' /\ PatchesCounted'
  <2>1. EndAwaitsAll'
    BY <1>0, <1>1, <1>3 DEF EndAwaitsAll, AwaitedAtEnd
  <2>2. FinalIsLast'
    BY <1>0, <1>1, NotFinal DEF FinalIsLast
  <2>3. PatchesCounted'
    BY <1>0, <1>1 DEF PatchesCounted
  <2> QED
    BY <2>1, <2>2, <2>3
<1>5. TodosOnTheirWay'
  BY <1>0, <1>1 DEF TodosOnTheirWay, OnItsWay
<1> QED
  BY <1>0, <1>1, <1>2, <1>3, <1>4, <1>5 DEF ChatInv

(* What was accumulated goes into a sync that the end will wait for.       *)
LEMMA FlushKeeps ==
  ASSUME ChatInv, chatPhase = "chatting", Flush, chatPhase' \in {"chatting", "closing"},
         exitOk' \in BOOLEAN,
         UNCHANGED <<ops, draining, drain, chatState, parses, resolved, dropped, patches, final,
                     todos, parsed, meta, updates, ioFaults, resumes>>
  PROVE  ChatInv'
<1>0. /\ ChatTypeOK /\ OnePatchAtATime /\ PatchesCounted /\ EndAwaitsAll /\ FinalIsLast
      /\ TodosOnTheirWay /\ resolved \ dropped \subseteq chatState.applied
  BY DEF ChatInv
<1>1. OnePatchAtATime' /\ Queued' = Queued
  BY <1>0, QueueUnchanged
<1>2. FinalIsLast'
  BY <1>0, NotFinal DEF FinalIsLast
<1>3. pausing' = FALSE /\ accumulated' = {}
  BY DEF Flush
<1>4. CASE accumulated = {}
  <2>1. UNCHANGED <<sync, unfinished>>
    BY <1>4 DEF Flush
  <2>2. ChatTypeOK'
    BY <1>0, <1>3, <2>1 DEF ChatTypeOK
  <2>3. PatchesCounted'
    BY <1>0, <2>1 DEF PatchesCounted
  <2>4. EndAwaitsAll'
    BY <1>0, <1>1, <2>1 DEF EndAwaitsAll, AwaitedAtEnd
  <2>5. TodosOnTheirWay'
    BY <1>0, <1>3, <1>4, <2>1 DEF TodosOnTheirWay, OnItsWay
  <2> QED
    BY <1>0, <1>1, <1>2, <2>2, <2>3, <2>4, <2>5 DEF ChatInv
<1>5. CASE accumulated # {}
  <2>1. PICK s \in Sync :
          /\ sync[s].at = "none"
          /\ sync' = [sync EXCEPT ![s].at = "read", ![s].new = accumulated]
          /\ unfinished' = unfinished \cup {<<"sync", s>>}
    BY <1>5 DEF Flush
  <2>2. /\ sync'[s].at = "read" /\ sync'[s].new = accumulated /\ sync'[s].patch = sync[s].patch
        /\ sync'[s].merged = sync[s].merged
        /\ \A r \in Sync \ {s} : sync'[r] = sync[r]
    BY <1>0, <2>1 DEF ChatTypeOK
  <2>3. ChatTypeOK'
    <3>1. /\ sync' \in [Sync -> [at : {"none", "read", "write", "meta", "patch", "over"},
                                 new : SUBSET Todo, merged : SUBSET Todo, patch : 0 .. MaxPatches]]
          /\ unfinished' \subseteq ({"patch"} \X Patch) \cup ({"sync"} \X Sync)
      <4>1. [sync[s] EXCEPT !.at = "read", !.new = accumulated]
              \in [at : {"none", "read", "write", "meta", "patch", "over"},
                   new : SUBSET Todo, merged : SUBSET Todo, patch : 0 .. MaxPatches]
        BY <1>0 DEF ChatTypeOK
      <4>2. sync' = [sync EXCEPT ![s] = [sync[s] EXCEPT !.at = "read", !.new = accumulated]]
        BY <2>1
      <4> QED
        BY <1>0, <2>1, <4>1, <4>2 DEF ChatTypeOK
    <3> QED
      BY <1>0, <1>3, <3>1 DEF ChatTypeOK
  <2>4. PatchesCounted'
    <3>1. \A r \in Sync : sync'[r].patch = sync[r].patch
      BY <2>2
    <3>2. {r \in Sync : sync'[r].patch # 0} = {r \in Sync : sync[r].patch # 0}
      BY <3>1
    <3>3. \A r \in Sync : sync'[r].at \notin {"patch", "over"} => sync'[r].patch = 0
      BY <1>0, <2>1, <2>2 DEF PatchesCounted
    <3> QED
      BY <1>0, <3>2, <3>3 DEF PatchesCounted
  <2>5. EndAwaitsAll'
    <3>1. ASSUME NEW p \in Queued PROVE AwaitedAtEnd(p)'
      <4>1. AwaitedAtEnd(p)
        BY <1>0 DEF EndAwaitsAll
      <4> QED
        BY <2>1, <2>2, <4>1 DEF AwaitedAtEnd
    <3>2. ASSUME NEW r \in Sync, sync'[r].at \notin {"none", "over"} PROVE <<"sync", r>> \in unfinished'
      BY <1>0, <2>1, <2>2, <3>2 DEF EndAwaitsAll
    <3> QED
      BY <1>1, <3>1, <3>2 DEF EndAwaitsAll
  <2>6. TodosOnTheirWay'
    <3> SUFFICES ASSUME ioFaults = 0, NEW t \in parsed
                 PROVE  \/ \E r \in Sync : OnItsWay(r, t)'
                        \/ t \in todos /\ \A r \in Sync : sync'[r].at \in {"none", "read"}
      BY <1>3 DEF TodosOnTheirWay
    <3>1. \/ t \in accumulated
          \/ \E r \in Sync : OnItsWay(r, t)
          \/ t \in todos /\ \A r \in Sync : sync[r].at \in {"none", "read"}
      BY <1>0 DEF TodosOnTheirWay
    <3>2. CASE t \in accumulated
      BY <2>2, <3>2 DEF OnItsWay
    <3>3. CASE \E r \in Sync : OnItsWay(r, t)
      BY <2>1, <2>2, <3>3 DEF OnItsWay
    <3>4. CASE t \in todos /\ \A r \in Sync : sync[r].at \in {"none", "read"}
      BY <2>2, <3>4
    <3> QED
      BY <3>1, <3>2, <3>3, <3>4
  <2> QED
    BY <1>0, <1>1, <1>2, <2>3, <2>4, <2>5, <2>6 DEF ChatInv
<1> QED
  BY <1>4, <1>5

(* A sync goes on, or is over; its patch stays the same.                   *)
LEMMA SyncGoesOn ==
  ASSUME ChatInv, Alive, NEW s \in Sync, sync[s].at \notin {"none", "over"},
         sync[s].at = "patch" => sync[s].patch \in resolved,
         NEW x \in [at : {"write", "meta", "over"}, new : SUBSET Todo, merged : SUBSET Todo,
                    patch : {sync[s].patch}],
         x.at = "over" \/ sync[s].at # "patch",
         sync' = [sync EXCEPT ![s] = x],
         unfinished' = IF x.at = "over" THEN unfinished \ {<<"sync", s>>} ELSE unfinished,
         todos' \subseteq Todo,
         ioFaults' = ioFaults \/ (ioFaults < MaxIOFaults /\ ioFaults' = ioFaults + 1),
         UNCHANGED <<chatPhase, exitOk, ops, draining, drain, chatState, parses, resolved, dropped,
                     patches, final, pausing, accumulated, parsed, meta, updates, resumes>>,
         ioFaults' = 0 => \A t \in parsed :
           \/ t \in accumulated
           \/ \E r \in Sync : OnItsWay(r, t)'
           \/ t \in todos' /\ \A r \in Sync : sync'[r].at \in {"none", "read"}
  PROVE  ChatInv'
<1>0. /\ ChatTypeOK /\ OnePatchAtATime /\ PatchesCounted /\ EndAwaitsAll /\ FinalIsLast
      /\ TodosOnTheirWay /\ resolved \ dropped \subseteq chatState.applied
  BY DEF ChatInv
<1>1. OnePatchAtATime' /\ Queued' = Queued
  BY <1>0, QueueUnchanged
<1>2. chatPhase \in {"chatting", "closing"} /\ final = 0
  BY StillOpen
<1>3. FinalIsLast'
  BY <1>2, NotFinal
<1>4. sync'[s] = x /\ \A r \in Sync \ {s} : sync'[r] = sync[r]
  BY <1>0 DEF ChatTypeOK
<1>5. ChatTypeOK'
  <2>1. sync' \in [Sync -> [at : {"none", "read", "write", "meta", "patch", "over"},
                            new : SUBSET Todo, merged : SUBSET Todo, patch : 0 .. MaxPatches]]
    <3>1. sync[s].patch \in 0 .. MaxPatches
      BY <1>0 DEF ChatTypeOK
    <3>2. x \in [at : {"none", "read", "write", "meta", "patch", "over"},
                 new : SUBSET Todo, merged : SUBSET Todo, patch : 0 .. MaxPatches]
      BY <3>1
    <3> QED
      BY <1>0, <3>2 DEF ChatTypeOK
  <2>2. unfinished' \subseteq ({"patch"} \X Patch) \cup ({"sync"} \X Sync)
    BY <1>0 DEF ChatTypeOK
  <2>3. ioFaults' \in 0 .. MaxIOFaults
    BY <1>0, ChatAssumption DEF ChatTypeOK
  <2> QED
    BY <1>0, <2>1, <2>2, <2>3 DEF ChatTypeOK
<1>6. PatchesCounted'
  <2>1. \A r \in Sync : sync'[r].patch = sync[r].patch
    BY <1>4
  <2>2. {r \in Sync : sync'[r].patch # 0} = {r \in Sync : sync[r].patch # 0}
    BY <2>1
  <2>3. \A r \in Sync : sync'[r].at \notin {"patch", "over"} => sync'[r].patch = 0
    BY <1>0, <1>4 DEF PatchesCounted
  <2> QED
    BY <1>0, <2>2, <2>3 DEF PatchesCounted
<1>7. EndAwaitsAll'
  <2>1. ASSUME NEW p \in Queued PROVE AwaitedAtEnd(p)'
    <3>1. AwaitedAtEnd(p) /\ p \notin resolved
      BY <1>0 DEF EndAwaitsAll, OnePatchAtATime
    <3>2. CASE <<"patch", p>> \in unfinished
      BY <3>2 DEF AwaitedAtEnd
    <3>3. CASE p = final
      BY <3>3 DEF AwaitedAtEnd
    <3>4. CASE \E r \in Sync : sync[r].at = "patch" /\ sync[r].patch = p
      BY <1>4, <3>1, <3>4 DEF AwaitedAtEnd
    <3> QED
      BY <3>1, <3>2, <3>3, <3>4 DEF AwaitedAtEnd
  <2>2. ASSUME NEW r \in Sync, sync'[r].at \notin {"none", "over"} PROVE <<"sync", r>> \in unfinished'
    BY <1>0, <1>4, <2>2 DEF EndAwaitsAll
  <2> QED
    BY <1>1, <2>1, <2>2 DEF EndAwaitsAll
<1>8. TodosOnTheirWay'
  BY <1>0 DEF TodosOnTheirWay
<1> QED
  BY <1>0, <1>1, <1>3, <1>5, <1>6, <1>7, <1>8 DEF ChatInv

(* What can be found in the todos.                                         *)
LEMMA TodosLeftTyped ==
  ASSUME ChatTypeOK
  PROVE  \A found \in TodosLeft : found \subseteq Todo
BY DEF TodosLeft, ChatTypeOK

(* A sync adds its todos to what it found.                                 *)
LEMMA SyncReadsKeeps ==
  ASSUME ChatInv, NEW s \in Sync, SyncReads(s)
  PROVE  ChatInv'
<1>0. ChatTypeOK /\ TodosOnTheirWay /\ Alive /\ sync[s].at = "read"
  BY DEF ChatInv, SyncReads
<1>1. PICK found \in TodosLeft :
        sync' = [sync EXCEPT ![s].at = "write", ![s].merged = found \cup sync[s].new]
  BY DEF SyncReads
<1>2. UNCHANGED <<chatPhase, exitOk, ops, draining, drain, chatState, parses, resolved, dropped,
                  patches, final, unfinished, pausing, accumulated, todos, parsed, meta, updates,
                  ioFaults, resumes>>
  BY DEF SyncReads, queueVars, boundVars
<1> DEFINE x == [sync[s] EXCEPT !.at = "write", !.merged = found \cup sync[s].new]
<1>3. /\ sync' = [sync EXCEPT ![s] = x] /\ x.at = "write" /\ x.merged = found \cup sync[s].new
      /\ x \in [at : {"write", "meta", "over"}, new : SUBSET Todo, merged : SUBSET Todo,
                patch : {sync[s].patch}]
  <2>1. found \subseteq Todo
    BY <1>0, TodosLeftTyped
  <2>2. sync[s] \in [at : {"none", "read", "write", "meta", "patch", "over"},
                     new : SUBSET Todo, merged : SUBSET Todo, patch : 0 .. MaxPatches]
    BY <1>0 DEF ChatTypeOK
  <2> QED
    BY <1>1, <2>1, <2>2
<1> HIDE DEF x
<1>4. sync'[s] = x /\ \A r \in Sync \ {s} : sync'[r] = sync[r]
  BY <1>0, <1>3 DEF ChatTypeOK
<1>5. ASSUME ioFaults = 0, NEW t \in parsed
      PROVE  \/ t \in accumulated
             \/ \E r \in Sync : OnItsWay(r, t)'
  <2>1. \/ t \in accumulated
        \/ \E r \in Sync : OnItsWay(r, t)
        \/ t \in todos /\ \A r \in Sync : sync[r].at \in {"none", "read"}
    BY <1>0, <1>5 DEF TodosOnTheirWay
  <2>2. CASE t \in accumulated
    BY <2>2
  <2>3. ASSUME NEW r \in Sync, OnItsWay(r, t)
        PROVE  \E q \in Sync : OnItsWay(q, t)'
    <3>1. CASE r # s
      BY <1>4, <2>3, <3>1 DEF OnItsWay
    <3>2. CASE r = s
      BY <1>0, <1>3, <1>4, <2>3, <3>2 DEF OnItsWay
    <3> QED
      BY <3>1, <3>2
  <2>4. CASE t \in todos /\ \A r \in Sync : sync[r].at \in {"none", "read"}
    <3>1. found = todos
      BY <2>4 DEF TodosLeft
    <3> QED
      BY <1>3, <1>4, <2>4, <3>1 DEF OnItsWay
  <2> QED
    BY <2>1, <2>2, <2>3, <2>4
<1> QED
  BY <1>0, <1>2, <1>3, <1>5, SyncGoesOn DEF ChatTypeOK

(* What was on its way stays so while no todos are read or merged.         *)
LEMMA StaysOnItsWay ==
  ASSUME ChatInv, NEW s \in Sync, sync[s].at \notin {"none", "read"}, NEW x,
         x.at \notin {"none", "read"}, x.merged = sync[s].merged, sync' = [sync EXCEPT ![s] = x],
         ioFaults = 0, NEW t \in parsed
  PROVE  t \in accumulated \/ \E r \in Sync : OnItsWay(r, t)'
<1>1. sync'[s] = x /\ \A r \in Sync \ {s} : sync'[r] = sync[r]
  BY DEF ChatInv, ChatTypeOK
<1>2. t \in accumulated \/ \E r \in Sync : OnItsWay(r, t)
  BY DEF ChatInv, TodosOnTheirWay
<1>3. \A r \in Sync : OnItsWay(r, t) => OnItsWay(r, t)'
  BY <1>1 DEF OnItsWay
<1> QED
  BY <1>2, <1>3

(* A sync writes, whatever it leaves of a write that it overlaps with.     *)
LEMMA SyncWritesKeeps ==
  ASSUME ChatInv, NEW s \in Sync, SyncWrites(s)
  PROVE  ChatInv'
<1>0. ChatTypeOK /\ TodosOnTheirWay /\ Alive /\ sync[s].at = "write"
  BY DEF ChatInv, SyncWrites
<1>1. UNCHANGED <<chatPhase, exitOk, ops, draining, drain, chatState, parses, resolved, dropped,
                  patches, final, unfinished, pausing, accumulated, parsed, meta, updates,
                  ioFaults, resumes>>
  BY DEF SyncWrites, queueVars, boundVars
<1> DEFINE x == [sync[s] EXCEPT !.at = "meta"]
<1>2. sync[s] \in [at : {"none", "read", "write", "meta", "patch", "over"},
                   new : SUBSET Todo, merged : SUBSET Todo, patch : 0 .. MaxPatches]
  BY <1>0 DEF ChatTypeOK
<1>3. /\ sync' = [sync EXCEPT ![s] = x] /\ x.at = "meta" /\ x.merged = sync[s].merged
      /\ x \in [at : {"write", "meta", "over"}, new : SUBSET Todo, merged : SUBSET Todo,
                patch : {sync[s].patch}]
  BY <1>2 DEF SyncWrites
<1>4. todos' \subseteq Todo
  BY <1>2 DEF SyncWrites
<1> HIDE DEF x
<1>5. ASSUME ioFaults = 0, NEW t \in parsed
      PROVE  t \in accumulated \/ \E r \in Sync : OnItsWay(r, t)'
  BY <1>0, <1>3, <1>5, StaysOnItsWay
<1> QED
  BY <1>0, <1>1, <1>3, <1>4, <1>5, SyncGoesOn

(* A sync is over, well or not.                                            *)
LEMMA SyncOverKeeps ==
  ASSUME ChatInv, NEW s \in Sync, SyncEnds(s) \/ SyncFails(s)
  PROVE  ChatInv'
<1>0. ChatTypeOK /\ TodosOnTheirWay /\ Alive /\ sync[s].at \in {"write", "meta", "patch"}
  BY DEF ChatInv, SyncEnds, SyncFails
<1>1. UNCHANGED <<chatPhase, exitOk, ops, draining, drain, chatState, parses, resolved, dropped,
                  patches, final, pausing, accumulated, parsed, meta, updates, resumes>>
  BY DEF SyncEnds, SyncFails, queueVars, boundVars
<1> DEFINE x == [sync[s] EXCEPT !.at = "over"]
<1>2. sync[s] \in [at : {"none", "read", "write", "meta", "patch", "over"},
                   new : SUBSET Todo, merged : SUBSET Todo, patch : 0 .. MaxPatches]
  BY <1>0 DEF ChatTypeOK
<1>3. /\ sync' = [sync EXCEPT ![s] = x] /\ x.at = "over" /\ x.merged = sync[s].merged
      /\ x \in [at : {"write", "meta", "over"}, new : SUBSET Todo, merged : SUBSET Todo,
                patch : {sync[s].patch}]
      /\ unfinished' = unfinished \ {<<"sync", s>>}
  BY <1>2 DEF SyncEnds, SyncFails, SyncOver
<1>4. todos' \subseteq Todo
  <2>1. CASE SyncEnds(s)
    BY <1>0, <2>1 DEF SyncEnds, ChatTypeOK
  <2>2. CASE SyncFails(s)
    BY <1>0, <2>2, TodosLeftTyped DEF SyncFails
  <2> QED
    BY <2>1, <2>2
<1>5. ioFaults' = ioFaults \/ (ioFaults < MaxIOFaults /\ ioFaults' = ioFaults + 1)
  BY DEF SyncEnds, SyncFails, boundVars
<1>6. sync[s].at = "patch" => sync[s].patch \in resolved
  BY DEF SyncEnds, SyncFails
<1> HIDE DEF x
<1>7. ASSUME ioFaults' = 0, NEW t \in parsed
      PROVE  t \in accumulated \/ \E r \in Sync : OnItsWay(r, t)'
  <2>1. ioFaults = 0
    BY <1>0, <1>5, <1>7, ChatAssumption DEF ChatTypeOK
  <2> QED
    BY <1>0, <1>3, <1>7, <2>1, StaysOnItsWay
<1> QED
  BY <1>0, <1>1, <1>3, <1>4, <1>5, <1>6, <1>7, SyncGoesOn

(* A sync queues a patch of its own.                                       *)
LEMMA SyncMarksKeeps ==
  ASSUME ChatInv, NEW s \in Sync, SyncMarks(s)
  PROVE  ChatInv'
<1>0. /\ ChatTypeOK /\ OnePatchAtATime /\ PatchesCounted /\ EndAwaitsAll /\ FinalIsLast
      /\ TodosOnTheirWay /\ resolved \ dropped \subseteq chatState.applied
  BY DEF ChatInv
<1> DEFINE x == [sync[s] EXCEPT !.at = "patch", !.patch = patches + 1]
           marked == {r \in Sync : sync[r].patch # 0}
<1>1. /\ Alive /\ sync[s].at = "meta" /\ meta' = "active"
      /\ patches' = patches + 1 /\ Enqueue(patches + 1) /\ sync' = [sync EXCEPT ![s] = x]
      /\ UNCHANGED <<chatPhase, exitOk, chatState, parses, final, resolved, dropped, unfinished,
                     pausing, accumulated, todos, parsed, updates, ioFaults, resumes>>
  BY DEF SyncMarks, boundVars
<1>2. /\ chatPhase \in {"chatting", "closing"} /\ final = 0 /\ <<"sync", s>> \in unfinished
      /\ sync[s].patch = 0
  BY <1>0, <1>1, StillOpen DEF PatchesCounted
<1>3. sync[s] \in [at : {"none", "read", "write", "meta", "patch", "over"},
                   new : SUBSET Todo, merged : SUBSET Todo, patch : 0 .. MaxPatches]
      /\ patches \in Nat /\ updates \in 0 .. MaxUpdates /\ resumes \in 0 .. MaxResumes
  BY <1>0, ChatNumbers DEF ChatTypeOK
<1>4. /\ x.at = "patch" /\ x.patch = patches + 1 /\ x.merged = sync[s].merged
      /\ x.new = sync[s].new /\ patches + 1 # 0
  BY <1>3
<1>5. patches + 1 \in 0 .. MaxPatches =>
        x \in [at : {"none", "read", "write", "meta", "patch", "over"},
               new : SUBSET Todo, merged : SUBSET Todo, patch : 0 .. MaxPatches]
  BY <1>3
<1> HIDE DEF x
<1>6. sync'[s] = x /\ \A r \in Sync \ {s} : sync'[r] = sync[r]
  BY <1>0, <1>1 DEF ChatTypeOK
<1>7. {r \in Sync : sync'[r].patch # 0} = marked \cup {s} /\ s \notin marked
  BY <1>2, <1>4, <1>6
<1>8. Cardinality(marked \cup {s}) = Cardinality(marked) + 1 /\ Cardinality(marked) \in Nat
      /\ marked \cup {s} \in SUBSET Sync
  <2>1. IsFiniteSet(Sync)
    BY ChatAssumption, FS_Interval DEF Sync
  <2>2. IsFiniteSet(marked) /\ Cardinality(marked) \in Nat
    BY <2>1, FS_Subset, FS_CardinalityType
  <2> QED
    BY <1>7, <2>2, FS_AddElement
<1>9. patches + 1 <= updates + Cardinality(marked \cup {s}) + 0 + resumes * (MaxSyncs + 1)
  <2>1. patches <= updates + Cardinality(marked) + 0 + resumes * (MaxSyncs + 1)
    BY <1>0, <1>2 DEF PatchesCounted
  <2>2. PICK k \in Nat : k = resumes * (MaxSyncs + 1)
    BY <1>3, ChatNumbers
  <2>3. PICK n \in Nat : n = Cardinality(marked)
    BY <1>8
  <2>4. updates \in Nat
    BY <1>3, ChatAssumption
  <2> HIDE DEF marked
  <2>5. patches <= updates + n + 0 + k
    BY <2>1, <2>2, <2>3
  <2>6. patches + 1 <= updates + (n + 1) + 0 + k
    BY <1>3, <2>4, <2>5
  <2> QED
    BY <1>8, <2>2, <2>3, <2>6
<1> HIDE DEF marked
<1>10. patches + 1 \in 0 .. MaxPatches
  BY <1>3, <1>8, <1>9, PatchesFit
<1>11. /\ OnePatchAtATime' /\ draining' \in BOOLEAN /\ ops' \in Seq(Patch)
       /\ drain' \subseteq [patch : Patch, at : {"read", "open", "write"}, found : ChatFile]
       /\ patches' \in 0 .. MaxPatches /\ patches + 1 \in Patch
       /\ \A p \in Queued' : p \in Queued \/ p = patches + 1
  BY <1>1, <1>10, EnqueueKeeps
<1>12. ChatTypeOK'
  <2>1. sync' \in [Sync -> [at : {"none", "read", "write", "meta", "patch", "over"},
                            new : SUBSET Todo, merged : SUBSET Todo, patch : 0 .. MaxPatches]]
    BY <1>0, <1>1, <1>5, <1>10 DEF ChatTypeOK
  <2> QED
    BY <1>0, <1>1, <1>11, <2>1 DEF ChatTypeOK
<1>13. PatchesCounted'
  <2>1. \A r \in Sync : sync'[r].at \notin {"patch", "over"} => sync'[r].patch = 0
    BY <1>0, <1>4, <1>6 DEF PatchesCounted
  <2> QED
    BY <1>1, <1>2, <1>7, <1>9, <2>1 DEF PatchesCounted
<1>14. EndAwaitsAll'
  <2>1. ASSUME NEW p \in Queued' PROVE AwaitedAtEnd(p)'
    <3>1. CASE p = patches + 1
      BY <1>4, <1>6, <3>1 DEF AwaitedAtEnd
    <3>2. CASE p \in Queued
      <4>1. AwaitedAtEnd(p)
        BY <1>0, <3>2 DEF EndAwaitsAll
      <4> QED
        BY <1>1, <1>6, <4>1 DEF AwaitedAtEnd
    <3> QED
      BY <1>11, <3>1, <3>2
  <2>2. ASSUME NEW r \in Sync, sync'[r].at \notin {"none", "over"}
        PROVE  <<"sync", r>> \in unfinished'
    BY <1>0, <1>1, <1>2, <1>6, <2>2 DEF EndAwaitsAll
  <2> QED
    BY <2>1, <2>2 DEF EndAwaitsAll
<1>15. FinalIsLast'
  BY <1>1, <1>2, NotFinal
<1>16. TodosOnTheirWay'
  <2>1. ASSUME ioFaults = 0, NEW t \in parsed
        PROVE  t \in accumulated \/ \E r \in Sync : OnItsWay(r, t)'
    BY <1>1, <1>4, <2>1, StaysOnItsWay
  <2> QED
    BY <1>0, <1>1, <2>1 DEF TodosOnTheirWay
<1> QED
  BY <1>0, <1>1, <1>11, <1>12, <1>13, <1>14, <1>15, <1>16 DEF ChatInv

-----------------------------------------------------------------------------
(* The end.                                                                *)

(* When nothing is unfinished, the queue is empty and every sync is over.  *)
LEMMA NothingLeft ==
  ASSUME ChatInv, unfinished = {}, final = 0
  PROVE  drain = {} /\ \A s \in Sync : sync[s].at \in {"none", "over"}
<1>1. \A s \in Sync : sync[s].at \in {"none", "over"}
  BY DEF ChatInv, EndAwaitsAll
<1>2. \A p \in Queued : p # 0 /\ AwaitedAtEnd(p)
  BY DEF ChatInv, EndAwaitsAll, OnePatchAtATime
<1>3. \A p \in Queued : FALSE
  BY <1>1, <1>2 DEF AwaitedAtEnd
<1> QED
  BY <1>1, <1>3 DEF Queued

(* finalizeChatState queues the last patch.                                *)
LEMMA FinalizeKeeps ==
  ASSUME ChatInv, Finalize
  PROVE  ChatInv'
<1>0. /\ ChatTypeOK /\ OnePatchAtATime /\ PatchesCounted /\ EndAwaitsAll /\ FinalIsLast
      /\ TodosOnTheirWay /\ resolved \ dropped \subseteq chatState.applied
  BY DEF ChatInv
<1> DEFINE marked == {s \in Sync : sync[s].patch # 0}
<1>1. /\ chatPhase = "closing" /\ unfinished = {} /\ chatPhase' = "finalizing"
      /\ patches' = patches + 1 /\ final' = patches + 1 /\ Enqueue(patches + 1)
      /\ UNCHANGED <<exitOk, chatState, parses, resolved, dropped, unfinished, pausing,
                     accumulated, sync, todos, parsed, meta, updates, ioFaults, resumes>>
  BY DEF Finalize, todoVars, boundVars
<1>2. final = 0 /\ drain = {} /\ patches \in Nat /\ updates \in 0 .. MaxUpdates
      /\ resumes \in 0 .. MaxResumes
  BY <1>0, <1>1, NothingLeft, ChatNumbers DEF FinalIsLast, ChatTypeOK
<1>3. patches + 1 <= updates + Cardinality(marked) + 1 + resumes * (MaxSyncs + 1)
  <2>1. patches <= updates + Cardinality(marked) + 0 + resumes * (MaxSyncs + 1)
    BY <1>0, <1>2 DEF PatchesCounted
  <2>2. PICK k \in Nat : k = resumes * (MaxSyncs + 1)
    BY <1>2, ChatNumbers
  <2>3. Cardinality(marked) \in Nat
    <3>1. IsFiniteSet(Sync)
      BY ChatAssumption, FS_Interval DEF Sync
    <3> QED
      BY <3>1, FS_Subset, FS_CardinalityType
  <2>4. updates \in Nat
    BY <1>2, ChatAssumption
  <2> HIDE DEF marked
  <2> QED
    BY <1>2, <2>1, <2>2, <2>3, <2>4
<1>4. patches + 1 \in 0 .. MaxPatches
  <2>1. marked \in SUBSET Sync
    OBVIOUS
  <2> HIDE DEF marked
  <2> QED
    BY <1>2, <1>3, <2>1, PatchesFit
<1>5. /\ OnePatchAtATime' /\ draining' \in BOOLEAN /\ ops' \in Seq(Patch)
      /\ drain' \subseteq [patch : Patch, at : {"read", "open", "write"}, found : ChatFile]
      /\ patches' \in 0 .. MaxPatches /\ patches + 1 \notin resolved /\ patches + 1 # 0
      /\ drain' = {Reading(patches + 1)} /\ ops' = <<>>
  BY <1>1, <1>2, <1>4, EnqueueKeeps
<1>6. ChatTypeOK'
  BY <1>0, <1>1, <1>5 DEF ChatTypeOK
<1>7. PatchesCounted'
  BY <1>0, <1>1, <1>3, <1>5 DEF PatchesCounted
<1>8. \A d \in drain' : d.patch = final'
  BY <1>1, <1>5 DEF Reading
<1>9. EndAwaitsAll'
  <2>1. \A p \in Queued' : p = final'
    <3>1. DOMAIN ops' = {}
      BY <1>5
    <3> QED
      BY <1>8, <3>1 DEF Queued
  <2> QED
    BY <1>0, <1>1, <2>1 DEF EndAwaitsAll, AwaitedAtEnd
<1>10. FinalIsLast'
  BY <1>1, <1>5, <1>8 DEF FinalIsLast
<1>11. TodosOnTheirWay'
  BY <1>0, <1>1 DEF TodosOnTheirWay, OnItsWay
<1> QED
  BY <1>0, <1>1, <1>5, <1>6, <1>7, <1>9, <1>10, <1>11 DEF ChatInv

(* The last steps of the chat, and its death.                              *)
LEMMA LastStepsKeep ==
  ASSUME ChatInv, Finalized \/ CloseSession \/ Killed
  PROVE  ChatInv'
<1>0. /\ ChatTypeOK /\ OnePatchAtATime /\ PatchesCounted /\ EndAwaitsAll /\ FinalIsLast
      /\ TodosOnTheirWay /\ resolved \ dropped \subseteq chatState.applied
  BY DEF ChatInv
<1>1. UNCHANGED <<exitOk, ops, draining, drain, chatState, parses, resolved, dropped, patches,
                  final, unfinished, pausing, accumulated, sync, parsed, updates, resumes>>
  BY DEF Finalized, CloseSession, Killed, queueVars, todoVars, boundVars
<1>2. OnePatchAtATime' /\ Queued' = Queued
  BY <1>0, <1>1, QueueUnchanged
<1>3. /\ todos' \subseteq Todo /\ meta' \in {"active"} \cup Ended /\ ioFaults' \in 0 .. MaxIOFaults
      /\ chatPhase' \in {"marking", "closed", "killed"}
  <2>1. todos' \subseteq Todo
    BY <1>0, TodosLeftTyped DEF Finalized, CloseSession, Killed, todoVars, ChatTypeOK
  <2>2. meta' \in {"active"} \cup Ended
    BY <1>0 DEF Finalized, CloseSession, Killed, Outcome, Ended, ChatTypeOK
  <2>3. ioFaults' \in 0 .. MaxIOFaults
    BY <1>0, ChatAssumption DEF Finalized, CloseSession, Killed, boundVars, ChatTypeOK
  <2>4. chatPhase' \in {"marking", "closed", "killed"}
    BY DEF Finalized, CloseSession, Killed
  <2> QED
    BY <2>1, <2>2, <2>3, <2>4
<1>4. ChatTypeOK'
  BY <1>0, <1>1, <1>3 DEF ChatTypeOK
<1>5. PatchesCounted' /\ EndAwaitsAll'
  BY <1>0, <1>1, <1>2 DEF PatchesCounted, EndAwaitsAll, AwaitedAtEnd
<1>6. FinalIsLast'
  <2>1. Outcome' = Outcome
    BY <1>1 DEF Outcome
  <2>2. CASE Finalized
    BY <1>0, <1>1, <2>1, <2>2 DEF Finalized, FinalIsLast
  <2>3. CASE CloseSession
    <3>1. meta' = Outcome \/ ioFaults' # 0
      BY <1>0, <2>3, ChatAssumption DEF CloseSession, ChatTypeOK
    <3> QED
      BY <1>0, <1>1, <2>1, <2>3, <3>1 DEF CloseSession, FinalIsLast
  <2>4. CASE Killed
    BY <1>0, <1>1, <2>1, <2>4 DEF Killed, FinalIsLast
  <2> QED
    BY <2>2, <2>3, <2>4
<1>7. TodosOnTheirWay'
  <2>1. CASE Finalized \/ CloseSession
    <3>1. accumulated = {} /\ UNCHANGED todos /\ (ioFaults' = 0 => ioFaults = 0)
      BY <1>0, <2>1, ChatAssumption
         DEF Finalized, CloseSession, todoVars, boundVars, TodosOnTheirWay, ChatTypeOK
    <3> QED
      BY <1>0, <1>1, <3>1 DEF TodosOnTheirWay, OnItsWay
  <2>2. CASE Killed
    <3>1. ioFaults' # 0 /\ chatPhase' = "killed"
      BY <1>0, <2>2, ChatAssumption DEF Killed, ChatTypeOK
    <3> QED
      BY <3>1 DEF TodosOnTheirWay
  <2> QED
    BY <2>1, <2>2
<1> QED
  BY <1>0, <1>1, <1>2, <1>4, <1>5, <1>6, <1>7 DEF ChatInv

(* A resumed chat begins with an empty queue, over the files it found.     *)
LEMMA ResumeKeeps ==
  ASSUME ChatInv, Resume
  PROVE  ChatInv'
<1>0. /\ ChatTypeOK /\ OnePatchAtATime /\ PatchesCounted
      /\ resolved \ dropped \subseteq chatState.applied
  BY DEF ChatInv
<1>1. /\ resumes' = resumes + 1 /\ resumes' \in 0 .. MaxResumes
      /\ chatPhase' = "chatting" /\ final' = 0
      /\ ops' = <<>> /\ draining' = FALSE /\ drain' = {} /\ unfinished' = {}
      /\ pausing' = FALSE /\ accumulated' = {} /\ sync' = [s \in Sync |-> NoSync]
      /\ parsed' = todos
      /\ UNCHANGED <<exitOk, chatState, parses, patches, resolved, dropped, todos, meta, updates,
                     ioFaults>>
  BY <1>0, ChatAssumption DEF Resume, ChatTypeOK
<1>2. \A s \in Sync : sync'[s].at = "none" /\ sync'[s].patch = 0
  BY <1>1 DEF NoSync
<1>3. DOMAIN ops' = {} /\ Queued' = {}
  BY <1>1 DEF Queued
<1>4. ChatTypeOK'
  <2>1. NoSync \in [at : {"none", "read", "write", "meta", "patch", "over"},
                    new : SUBSET Todo, merged : SUBSET Todo, patch : 0 .. MaxPatches]
    BY ChatNumbers DEF NoSync
  <2>2. sync' \in [Sync -> [at : {"none", "read", "write", "meta", "patch", "over"},
                            new : SUBSET Todo, merged : SUBSET Todo, patch : 0 .. MaxPatches]]
    BY <1>1, <2>1
  <2>3. ops' \in Seq(Patch) /\ final' \in 0 .. MaxPatches
    BY <1>1, ChatNumbers
  <2> QED
    BY <1>0, <1>1, <2>2, <2>3 DEF ChatTypeOK
<1>5. OnePatchAtATime'
  BY <1>0, <1>1, <1>3 DEF OnePatchAtATime
<1>6. PatchesCounted'
  <2> DEFINE marked == {s \in Sync : sync[s].patch # 0}
             bit == IF final = 0 THEN 0 ELSE 1
  <2>1. {s \in Sync : sync'[s].patch # 0} = {} /\ Cardinality({}) = 0
    BY <1>2, FS_EmptySet
  <2>2. patches <= updates + Cardinality(marked) + bit + resumes * (MaxSyncs + 1)
    BY <1>0 DEF PatchesCounted
  <2>3. Cardinality(marked) \in Nat /\ Cardinality(marked) <= MaxSyncs
    <3>1. 1 \in Int /\ MaxSyncs \in Int /\ MaxSyncs \in Nat
      BY ChatAssumption
    <3>2. /\ IsFiniteSet(1 .. MaxSyncs)
          /\ Cardinality(1 .. MaxSyncs) = IF 1 > MaxSyncs THEN 0 ELSE MaxSyncs - 1 + 1
      BY <3>1, FS_Interval
    <3>3. IsFiniteSet(Sync) /\ Cardinality(Sync) = MaxSyncs
      BY <3>1, <3>2 DEF Sync
    <3> QED
      BY <3>3, FS_Subset, FS_CardinalityType
  <2>4. PICK m \in Nat : m = Cardinality(marked)
    BY <2>3
  <2>5. resumes \in 0 .. MaxResumes /\ resumes \in Nat /\ updates \in Nat /\ patches \in Nat
        /\ MaxSyncs \in Nat
    BY <1>0, ChatAssumption, ChatNumbers DEF ChatTypeOK
  <2>6. PICK k \in Nat : k = resumes * (MaxSyncs + 1)
    BY <2>5, ChatNumbers
  <2>7. (resumes + 1) * (MaxSyncs + 1) = resumes * (MaxSyncs + 1) + MaxSyncs + 1
    BY <2>5
  <2>8. bit \in {0, 1}
    OBVIOUS
  <2> HIDE DEF marked, bit
  <2>9. patches <= updates + 0 + 0 + (k + MaxSyncs + 1)
    BY <2>2, <2>3, <2>4, <2>5, <2>6, <2>8
  <2>10. patches' <= updates' + 0 + 0 + resumes' * (MaxSyncs + 1)
    BY <1>1, <2>6, <2>7, <2>9
  <2> QED
    BY <1>1, <1>2, <2>1, <2>10 DEF PatchesCounted
<1>7. EndAwaitsAll'
  BY <1>2, <1>3 DEF EndAwaitsAll
<1>8. FinalIsLast'
  BY <1>1, NotFinal
<1>9. TodosOnTheirWay'
  BY <1>1, <1>2 DEF TodosOnTheirWay
<1> QED
  BY <1>0, <1>1, <1>4, <1>5, <1>6, <1>7, <1>8, <1>9 DEF ChatInv

-----------------------------------------------------------------------------
(* The chat, summed up.                                                    *)

LEMMA ChatBegins == ChatInit => ChatInv
<1> SUFFICES ASSUME ChatInit PROVE ChatInv
  OBVIOUS
<1>1. \A s \in Sync : sync[s].at = "none" /\ sync[s].patch = 0
  BY DEF ChatInit, NoSync
<1>2. Queued = {}
  <2>1. DOMAIN ops = {} /\ drain = {}
    BY DEF ChatInit
  <2> QED
    BY <2>1 DEF Queued
<1>3. ChatTypeOK
  <2>1. NoSync \in [at : {"none", "read", "write", "meta", "patch", "over"},
                    new : SUBSET Todo, merged : SUBSET Todo, patch : 0 .. MaxPatches]
    BY ChatNumbers DEF NoSync
  <2>2. ops \in Seq(Patch) /\ 0 \in 0 .. MaxPatches
    BY ChatNumbers DEF ChatInit
  <2>3. 0 \in 0 .. MaxUpdates /\ 0 \in 0 .. MaxIOFaults /\ 0 \in 0 .. MaxResumes
    BY ChatAssumption
  <2> QED
    BY <2>1, <2>2, <2>3 DEF ChatInit, ChatTypeOK, ChatFile
<1>4. PatchesCounted
  <2>1. {s \in Sync : sync[s].patch # 0} = {} /\ Cardinality({}) = 0
    BY <1>1, FS_EmptySet
  <2>2. resumes * (MaxSyncs + 1) = 0
    <3>1. resumes = 0 /\ MaxSyncs + 1 \in Nat
      BY ChatAssumption DEF ChatInit
    <3> QED
      BY <3>1
  <2>3. patches = 0 /\ updates = 0 /\ final = 0
    BY DEF ChatInit
  <2>4. patches <= updates + Cardinality({s \in Sync : sync[s].patch # 0})
                     + (IF final = 0 THEN 0 ELSE 1) + resumes * (MaxSyncs + 1)
    <3> DEFINE n == Cardinality({s \in Sync : sync[s].patch # 0})
               k == resumes * (MaxSyncs + 1)
    <3>1. n = 0 /\ k = 0
      BY <2>1, <2>2
    <3> HIDE DEF n, k
    <3>2. patches <= updates + n + (IF final = 0 THEN 0 ELSE 1) + k
      BY <2>3, <3>1
    <3> QED
      BY <3>2 DEF n, k
  <2> QED
    BY <1>1, <2>4 DEF PatchesCounted
<1>5. OnePatchAtATime
  BY <1>2 DEF ChatInit, OnePatchAtATime
<1>6. EndAwaitsAll /\ FinalIsLast /\ TodosOnTheirWay
  BY <1>1, <1>2 DEF ChatInit, EndAwaitsAll, FinalIsLast, TodosOnTheirWay
<1> QED
  BY <1>3, <1>4, <1>5, <1>6 DEF ChatInit, ChatInv

(* Every step of the chat preserves the invariant.                         *)
LEMMA ChatGoesOn == ChatInv /\ [ChatNext]_chatVars => ChatInv'
<1> SUFFICES ASSUME ChatInv, [ChatNext]_chatVars PROVE ChatInv'
  OBVIOUS
<1>1. CASE UNCHANGED chatVars
  <2>1. UNCHANGED <<chatPhase, exitOk, ops, draining, drain, chatState, parses, resolved, dropped,
                    patches, final, unfinished, pausing, accumulated, sync, todos, parsed, meta,
                    updates, ioFaults, resumes>>
    BY <1>1 DEF chatVars, queueVars, todoVars, boundVars
  <2>2. OnePatchAtATime' /\ Queued' = Queued
    BY <2>1, QueueUnchanged DEF ChatInv
  <2>3. ChatTypeOK' /\ PatchesCounted' /\ EndAwaitsAll'
    BY <2>1, <2>2 DEF ChatInv, ChatTypeOK, PatchesCounted, EndAwaitsAll, AwaitedAtEnd
  <2>4. FinalIsLast' /\ TodosOnTheirWay' /\ resolved' \ dropped' \subseteq chatState'.applied
    BY <2>1 DEF ChatInv, FinalIsLast, TodosOnTheirWay, OnItsWay, Outcome
  <2> QED
    BY <2>2, <2>3, <2>4 DEF ChatInv
<1>2. CASE TimerFires \/ \E ok \in BOOLEAN : KimiExits(ok)
  <2>1. /\ chatPhase = "chatting" /\ Flush /\ chatPhase' \in {"chatting", "closing"}
        /\ exitOk' \in BOOLEAN
    BY <1>2 DEF TimerFires, KimiExits, ChatInv, ChatTypeOK
  <2> QED
    BY <1>2, <2>1, FlushKeeps DEF TimerFires, KimiExits, queueVars, boundVars
<1>3. CASE Update \/ \E t \in Todo : TodosParsed(t)
  BY <1>3, UpdateKeeps, ParsedKeeps
<1>4. CASE \E d \in drain : ReadState(d) \/ OpenState(d) \/ WriteState(d) \/ StateFails(d)
  BY <1>4, QueueStepsKeep
<1>5. CASE \E s \in Sync :
             SyncReads(s) \/ SyncWrites(s) \/ SyncMarks(s) \/ SyncEnds(s) \/ SyncFails(s)
  BY <1>5, SyncReadsKeeps, SyncWritesKeeps, SyncMarksKeeps, SyncOverKeeps
<1>6. CASE Finalize \/ Finalized \/ CloseSession \/ Killed \/ Resume
  BY <1>6, FinalizeKeeps, LastStepsKeep, ResumeKeeps
<1> QED
  BY <1>1, <1>2, <1>3, <1>4, <1>5, <1>6 DEF ChatNext

(* The queue of chat-state.ts never loses an answered patch, whatever      *)
(* fails, dies or is resumed: one patch at a time is read and written.     *)
THEOREM PatchesApplied == ChatSpec => []ChatInv
BY ChatBegins, ChatGoesOn, PTL DEF ChatSpec

LEMMA InvCloses == ChatInv => ChatCloses
<1> SUFFICES ASSUME ChatInv, chatPhase = "closed" PROVE ChatCloses
  BY DEF ChatCloses
<1>0. /\ ChatTypeOK /\ OnePatchAtATime /\ EndAwaitsAll /\ FinalIsLast /\ TodosOnTheirWay
  BY DEF ChatInv
<1>1. unfinished = {} /\ ops = <<>> /\ (\A d \in drain : d.patch = final) /\ final \in resolved
  BY <1>0 DEF FinalIsLast
<1>2. drain = {} /\ ~draining
  BY <1>0, <1>1, QueuedTyped DEF OnePatchAtATime
<1>3. \A s \in Sync : sync[s].at \in {"none", "over"}
  BY <1>0, <1>1 DEF EndAwaitsAll
<1>4. final \notin dropped => parses /\ chatState.status = Outcome
  BY <1>0, <1>1 DEF FinalIsLast
<1>5. ASSUME ioFaults = 0
      PROVE  meta = Outcome /\ parsed \subseteq todos \cup UNION {sync[s].merged : s \in Sync}
  <2>1. meta = Outcome
    BY <1>0, <1>5 DEF FinalIsLast
  <2>2. ASSUME NEW t \in parsed
        PROVE  t \in todos \/ \E s \in Sync : t \in sync[s].merged
    BY <1>0, <1>3, <1>5, <2>2 DEF TodosOnTheirWay, OnItsWay
  <2> QED
    BY <2>1, <2>2
<1> QED
  BY <1>1, <1>2, <1>3, <1>4, <1>5 DEF ChatCloses

(* The end of a chat (chat.ts) waits for everything that could still       *)
(* write: for every patch and sync, also one that began as Kimi exited.    *)
THEOREM ClosesClean == ChatSpec => []ChatCloses
BY PatchesApplied, InvCloses, PTL

-----------------------------------------------------------------------------
(* The three components, one of them at work.                              *)

(* A step of one component leaves the others at rest.                      *)
LEMMA PartsTakeTurns ==
  [FilesNext]_FilesVars =>
    [Next]_vars /\ [MemoryNext]_memoryVars /\ [ChatNext]_chatVars
BY DEF FilesNext, FilesVars

(* Behaviors of the composition are behaviors of each component, so that   *)
(* the theorems about the components are theorems about the composition.   *)
THEOREM PartsAsSpecified == FilesSpec => FairSpec /\ MemorySpec /\ ChatSpec
<1>1. FilesInit => Init /\ MemoryInit /\ ChatInit
  BY DEF FilesInit
<1> QED BY <1>1, PartsTakeTurns, PTL DEF FilesSpec, Spec, FairSpec, MemorySpec, ChatSpec
=============================================================================
