--------------------------- MODULE FrontendProofs ---------------------------
(***************************************************************************)
(* Proofs about module Frontend, for any number of connections and slots    *)
(* and any requests: slots are kept and freed one for one, and a thread gets *)
(* the replies to its own commands. The first invariant, LoopInv, is about   *)
(* the main loop and the life of threads; the second, RequestInv, about      *)
(* what they send and wait for.                                            *)
(***************************************************************************)
EXTENDS Frontend, FiniteSetTheorems, WellFoundedInduction, TLAPS

-----------------------------------------------------------------------------
(* The inductive invariant of the main loop and the life of threads.       *)

Label == {"queued", "accepted", "left", "created", "running", "closed",
          "cleared", "uncounting", "gone"}

Among(labels) == {c \in Conn : pc[c] \in labels}

\* Connections that have a slot, and that num_client counts.
WithSlot == {"created", "running", "closed"}
InCount == WithSlot \union {"cleared", "uncounting"}

Served == Among(WithSlot)
Counted == Among(InCount)
Gone == Among({"gone"})

ServedWith(f) == {c \in Conn : Recorded(c) /\ fd[c] = f}
Holding(f) == {i \in Slot : client_socks[i] = f}
Taken == {i \in Slot : client_socks[i] # 0}

LoopTypes ==
    /\ client_socks \in [Slot -> 0 .. Cardinality(Conn)]
    /\ main \in [at : {"full", "record", "read", "write"},
                 conn : Conn \union {0}, seen : Int]
    /\ pc \in [Conn -> Label]
    /\ fd \in [Conn -> 0 .. Cardinality(Conn)]
    /\ \A c \in Conn : Open(c) \/ Recorded(c) => fd[c] # 0
    /\ num_client \in Int
    /\ seen \in [Conn -> Int]
    /\ raced \in BOOLEAN

\* The connection that the main loop is about to record has no thread yet.
Accepting == main.at = "record" => main.conn \in Conn /\ pc[main.conn] = "accepted"

\* Open connections have different descriptors.
Distinct == \A c, d \in Conn : Open(c) /\ Open(d) /\ fd[c] = fd[d] => c = d

\* The counter never exceeds the number of slots, whatever updates are lost,
\* and falls below zero at most by the number of threads that have ended.
InBounds ==
    /\ num_client >= -Cardinality(Gone) /\ num_client <= MAX_CLIENTS
    /\ main.at \in {"record", "read"} => num_client < MAX_CLIENTS
    /\ main.at = "write" =>
          main.seen >= -Cardinality(Gone) /\ main.seen < MAX_CLIENTS
    /\ \A c \in Conn : pc[c] = "uncounting" =>
          seen[c] >= -Cardinality(Gone) /\ seen[c] <= MAX_CLIENTS

\* One slot for each served connection, by descriptor and in all.
OneSlotEach ==
    /\ \A f \in 1 .. Cardinality(Conn) :
          Cardinality(Holding(f)) = Cardinality(ServedWith(f))
    /\ Cardinality(Taken) = Cardinality(Served)

\* What num_client counts as long as no update is lost.
CountIsTrue ==
    ~raced =>
        /\ num_client = Cardinality(Counted)
                          - (IF main.at \in {"read", "write"} THEN 1 ELSE 0)
        /\ \A c \in Conn : pc[c] # "left"

LoopInv ==
    /\ LoopTypes
    /\ Accepting
    /\ Distinct
    /\ InBounds
    /\ OneSlotEach
    /\ CountIsTrue

-----------------------------------------------------------------------------
(* Counting.                                                               *)

LEMMA FiniteSets ==
  /\ IsFiniteSet(Conn) /\ Cardinality(Conn) \in Nat
  /\ IsFiniteSet(Slot) /\ Cardinality(Slot) = MAX_CLIENTS
  /\ MAX_CLIENTS \in Nat \ {0}
  /\ \A S : S \subseteq Conn \/ S \subseteq Slot =>
               IsFiniteSet(S) /\ Cardinality(S) \in Nat
<1>1. IsFiniteSet(Conn) /\ Cardinality(Conn) \in Nat /\ MAX_CLIENTS \in Nat \ {0}
  BY FrontendAssumption, FS_CardinalityType
<1>2. IsFiniteSet(Slot) /\ Cardinality(Slot) = MAX_CLIENTS
  BY <1>1, FS_Interval DEF Slot
<1>3. ASSUME NEW S, S \subseteq Conn \/ S \subseteq Slot
      PROVE  IsFiniteSet(S) /\ Cardinality(S) \in Nat
  <2>1. IsFiniteSet(S)
    BY <1>1, <1>2, <1>3, FS_Subset
  <2> QED
    BY <2>1, FS_CardinalityType
<1> QED
  BY <1>1, <1>2, <1>3

LEMMA CountsAreNatural ==
  /\ Cardinality(Gone) \in Nat
  /\ Cardinality(Counted) \in Nat
  /\ Cardinality(Served) \in Nat
<1>1. Gone \subseteq Conn /\ Counted \subseteq Conn /\ Served \subseteq Conn
  BY DEF Gone, Counted, Served, Among
<1> QED
  BY <1>1, FiniteSets

\* One of the threads moves on.
LEMMA MoveCounts ==
  ASSUME pc \in [Conn -> Label], NEW c \in Conn, NEW to \in Label,
         pc' = [pc EXCEPT ![c] = to], NEW labels
  PROVE  Cardinality(Among(labels)') =
            Cardinality(Among(labels))
              + (IF to \in labels THEN 1 ELSE 0)
              - (IF pc[c] \in labels THEN 1 ELSE 0)
<1>1. Among(labels) \subseteq Conn
  BY DEF Among
<1>2. /\ IsFiniteSet(Among(labels))
      /\ Cardinality(Among(labels)) \in Nat
  BY <1>1, FiniteSets
<1>3. CASE to \in labels
  <2>1. Among(labels)' = Among(labels) \union {c}
    BY <1>3 DEF Among
  <2>2. c \in Among(labels) <=> pc[c] \in labels
    BY DEF Among
  <2>3. Cardinality(Among(labels) \union {c}) =
           IF c \in Among(labels) THEN Cardinality(Among(labels))
                                 ELSE Cardinality(Among(labels)) + 1
    BY <1>2, FS_AddElement, Zenon
  <2> QED
    BY <1>2, <1>3, <2>1, <2>2, <2>3
<1>4. CASE to \notin labels
  <2>1. Among(labels)' = Among(labels) \ {c}
    BY <1>4 DEF Among
  <2>2. c \in Among(labels) <=> pc[c] \in labels
    BY DEF Among
  <2>3. Cardinality(Among(labels) \ {c}) =
           IF c \in Among(labels) THEN Cardinality(Among(labels)) - 1
                                 ELSE Cardinality(Among(labels))
    BY <1>2, FS_RemoveElement, Zenon
  <2> QED
    BY <1>2, <1>4, <2>1, <2>2, <2>3
<1> QED
  BY <1>3, <1>4

LEMMA LeastNumber ==
  ASSUME NEW T, T \subseteq Nat, T # {}
  PROVE  Min(T) \in T /\ \A u \in T : Min(T) <= u
<1>1. PICK t \in T : \A u \in T : ~(<<u, t>> \in OpToRel(<, Nat))
  BY NatLessThanWellFounded, WFMin, Zenon
<1>2. \A u \in T : ~(u < t)
  BY <1>1 DEF OpToRel
<1>3. \A u \in T : t <= u
  BY <1>2
<1> QED
  BY <1>3 DEF Min

-----------------------------------------------------------------------------
(* The main loop and the life of threads keep the invariant.               *)

LEMMA InitLoopInv == Init => LoopInv
<1> SUFFICES ASSUME Init PROVE LoopInv
  OBVIOUS
<1>1. /\ client_socks = [i \in Slot |-> 0] /\ num_client = 0 /\ ~raced
      /\ main = [at |-> "full", conn |-> 0, seen |-> 0]
      /\ pc \in [Conn -> {"queued", "gone"}]
      /\ fd = [c \in Conn |-> 0] /\ seen = [c \in Conn |-> 0]
      /\ raced \in BOOLEAN
  BY DEF Init
<1>2. \A c \in Conn : pc[c] \in {"queued", "gone"}
  BY <1>1
<1>3. LoopTypes
  BY <1>1, <1>2, FiniteSets DEF LoopTypes, Label, Open, Recorded
<1>4. Accepting /\ Distinct
  BY <1>1, <1>2 DEF Accepting, Distinct, Open
<1>5. InBounds
  <2>1. Gone \subseteq Conn
    BY DEF Gone, Among
  <2>2. Cardinality(Gone) \in Nat
    BY <2>1, FiniteSets
  <2> QED
    BY <1>1, <1>2, <2>2, FiniteSets DEF InBounds
<1>6. OneSlotEach
  <2>1. /\ Taken = {} /\ Served = {}
        /\ \A f \in 1 .. Cardinality(Conn) : Holding(f) = {} /\ ServedWith(f) = {}
    BY <1>1, <1>2, FiniteSets
       DEF Taken, Served, WithSlot, Among, Holding, ServedWith, Recorded
  <2> QED
    BY <2>1, FS_EmptySet DEF OneSlotEach
<1>7. CountIsTrue
  <2>1. Counted = {}
    BY <1>2 DEF Counted, InCount, WithSlot, Among
  <2> QED
    BY <1>1, <1>2, <2>1, FS_EmptySet DEF CountIsTrue
<1> QED
  BY <1>3, <1>4, <1>5, <1>6, <1>7 DEF LoopInv

\* Requests and the store do not concern the main loop.
LEMMA RestKeepsLoopInv ==
  ASSUME LoopInv, UNCHANGED <<loopVars, pc>>
  PROVE  LoopInv'
<1>1. Gone' = Gone /\ Counted' = Counted /\ Served' = Served /\ Taken' = Taken
  BY DEF Gone, Counted, Served, Taken, Among, loopVars
<1>2. \A f \in 1 .. Cardinality(Conn) :
         Holding(f)' = Holding(f) /\ ServedWith(f)' = ServedWith(f)
  BY DEF Holding, ServedWith, Recorded, loopVars
<1>3. LoopTypes' /\ Accepting' /\ Distinct'
  BY DEF LoopInv, LoopTypes, Accepting, Distinct, Open, Recorded, loopVars
<1>4. InBounds' /\ CountIsTrue'
  BY <1>1 DEF LoopInv, InBounds, CountIsTrue, loopVars
<1>5. OneSlotEach'
  BY <1>1, <1>2 DEF LoopInv, OneSlotEach
<1> QED
  BY <1>3, <1>4, <1>5 DEF LoopInv

\* The counts that the invariant is about, in any step of c.
LEMMA MoveCountsAll ==
  ASSUME LoopTypes, NEW c \in Conn, NEW to \in Label,
         pc' = [pc EXCEPT ![c] = to]
  PROVE  /\ (to = "gone" <=> pc[c] = "gone") =>
               Cardinality(Gone)' = Cardinality(Gone)
         /\ to = "gone" /\ pc[c] # "gone" =>
               Cardinality(Gone)' = Cardinality(Gone) + 1
         /\ (to \in InCount <=> pc[c] \in InCount) =>
               Cardinality(Counted)' = Cardinality(Counted)
         /\ to \in InCount /\ pc[c] \notin InCount =>
               Cardinality(Counted)' = Cardinality(Counted) + 1
         /\ to \notin InCount /\ pc[c] \in InCount =>
               Cardinality(Counted)' = Cardinality(Counted) - 1
         /\ (to \in WithSlot <=> pc[c] \in WithSlot) =>
               Cardinality(Served)' = Cardinality(Served)
         /\ to \in WithSlot /\ pc[c] \notin WithSlot =>
               Cardinality(Served)' = Cardinality(Served) + 1
         /\ to \notin WithSlot /\ pc[c] \in WithSlot =>
               Cardinality(Served)' = Cardinality(Served) - 1
<1>1. pc \in [Conn -> Label]
  BY DEF LoopTypes
<1>2. /\ Cardinality(Gone) \in Nat
      /\ Cardinality(Counted) \in Nat
      /\ Cardinality(Served) \in Nat
  BY CountsAreNatural
<1>3. Cardinality(Gone)' = Cardinality(Gone)
         + (IF to \in {"gone"} THEN 1 ELSE 0)
         - (IF pc[c] \in {"gone"} THEN 1 ELSE 0)
  BY <1>1, MoveCounts DEF Gone
<1>4. Cardinality(Counted)' = Cardinality(Counted)
         + (IF to \in InCount THEN 1 ELSE 0)
         - (IF pc[c] \in InCount THEN 1 ELSE 0)
  BY <1>1, MoveCounts DEF Counted
<1>5. Cardinality(Served)' = Cardinality(Served)
         + (IF to \in WithSlot THEN 1 ELSE 0)
         - (IF pc[c] \in WithSlot THEN 1 ELSE 0)
  BY <1>1, MoveCounts DEF Served
<1> QED
  BY <1>2, <1>3, <1>4, <1>5

\* A thread starts or its browser hangs up: it keeps its slot.
LEMMA ServedKeepsLoopInv ==
  ASSUME LoopInv, UNCHANGED loopVars, NEW c \in Conn, NEW to \in Label,
         \/ pc[c] = "created" /\ to = "running"
         \/ pc[c] = "running" /\ to = "closed",
         pc' = [pc EXCEPT ![c] = to]
  PROVE  LoopInv'
<1>1. LoopTypes /\ pc \in [Conn -> Label] /\ pc[c] # "accepted"
  BY DEF LoopInv, LoopTypes
<1>2. /\ Cardinality(Gone)' = Cardinality(Gone)
      /\ Cardinality(Counted)' = Cardinality(Counted)
      /\ Cardinality(Served)' = Cardinality(Served)
  <2>1. /\ to # "gone" /\ pc[c] # "gone"
        /\ to \in InCount /\ pc[c] \in InCount
        /\ to \in WithSlot /\ pc[c] \in WithSlot
    BY DEF InCount, WithSlot
  <2> QED
    BY <1>1, <2>1, MoveCountsAll, Zenon
<1>3. \A d \in Conn : /\ Recorded(d)' <=> Recorded(d)
                      /\ Open(d)' => Open(d)
                      /\ pc'[d] \in {"left", "uncounting", "accepted"} <=>
                            pc[d] \in {"left", "uncounting", "accepted"}
                      /\ d # c => pc'[d] = pc[d]
                      /\ pc'[d] \in Label
  BY <1>1 DEF Recorded, Open
<1>4. /\ Taken' = Taken
      /\ \A f \in 1 .. Cardinality(Conn) :
            Holding(f)' = Holding(f) /\ ServedWith(f)' = ServedWith(f)
  BY <1>3 DEF Taken, Holding, ServedWith, loopVars
<1>5. LoopTypes'
  BY <1>1, <1>3 DEF LoopTypes, loopVars
<1>6. Accepting' /\ Distinct'
  BY <1>1, <1>3 DEF LoopInv, Accepting, Distinct, loopVars
<1>7. InBounds'
  BY <1>1, <1>2, <1>3 DEF LoopInv, InBounds, loopVars
<1>8. OneSlotEach'
  BY <1>2, <1>4 DEF LoopInv, OneSlotEach
<1>9. CountIsTrue'
  BY <1>1, <1>2, <1>3 DEF LoopInv, CountIsTrue, loopVars
<1> QED
  BY <1>5, <1>6, <1>7, <1>8, <1>9 DEF LoopInv

\* While a connection waits to be accepted, some descriptor is free.
LEMMA FreeDescriptor ==
  ASSUME LoopTypes, Distinct, NEW c \in Conn, ~Open(c)
  PROVE  \E f \in 1 .. Cardinality(Conn) : \A d \in Conn : Open(d) => fd[d] # f
<1> DEFINE open == {d \in Conn : Open(d)}
           n == Cardinality(Conn)
           g == [d \in open |-> fd[d]]
<1> SUFFICES ASSUME \A f \in 1 .. n : \E d \in open : fd[d] = f
             PROVE  FALSE
  OBVIOUS
<1>1. open \subseteq Conn \ {c}
  OBVIOUS
<1>2. /\ IsFiniteSet(Conn \ {c}) /\ Cardinality(Conn \ {c}) = n - 1
      /\ n \in Nat
  BY FiniteSets, FS_RemoveElement
<1>3. IsFiniteSet(open) /\ Cardinality(open) <= n - 1 /\ Cardinality(open) \in Nat
  BY <1>1, <1>2, FS_Subset, FiniteSets
<1>4. g \in [open -> 1 .. n]
  BY DEF LoopTypes
<1>5. \A f \in 1 .. n : \E d \in open : g[d] = f
  OBVIOUS
<1> HIDE DEF g, open
<1>6. g \in Surjection(open, 1 .. n)
  BY <1>4, <1>5 DEF Surjection
<1>7. Cardinality(1 .. n) <= Cardinality(open)
  BY <1>3, <1>6, FS_Surjection
<1>8. Cardinality(1 .. n) = n
  BY <1>2, FS_Interval
<1> QED
  BY <1>2, <1>3, <1>7, <1>8

LEMMA AcceptKeepsLoopInv ==
  ASSUME LoopInv, NEW c \in Conn, Accept(c)
  PROVE  LoopInv'
<1> DEFINE free == {f \in 1 .. Cardinality(Conn) :
                       \A d \in Conn : Open(d) => fd[d] # f}
           new == Min(free)
<1>1. /\ LoopTypes /\ pc \in [Conn -> Label] /\ pc[c] = "queued"
      /\ fd \in [Conn -> 0 .. Cardinality(Conn)]
      /\ pc' = [pc EXCEPT ![c] = "accepted"]
      /\ fd' = [fd EXCEPT ![c] = new]
      /\ main.at = "full" /\ num_client < MAX_CLIENTS
      /\ main' = [main EXCEPT !.at = "record", !.conn = c]
      /\ UNCHANGED <<client_socks, num_client, seen, raced>>
  BY DEF LoopInv, LoopTypes, Accept, Room
<1>2. new \in free
  <2>1. free # {}
    BY <1>1, FreeDescriptor DEF LoopInv, Open
  <2> QED
    BY <2>1, FiniteSets, LeastNumber
<1>3. new \in 1 .. Cardinality(Conn) /\ \A d \in Conn : Open(d) => fd[d] # new
  BY <1>2
<1> HIDE DEF new
<1>4. main'.at = "record" /\ main'.conn = c /\ main'.seen = main.seen
      /\ main' \in [at : {"full", "record", "read", "write"},
                    conn : Conn \union {0}, seen : Int]
  BY <1>1 DEF LoopTypes
<1>5. /\ Cardinality(Gone)' = Cardinality(Gone)
      /\ Cardinality(Counted)' = Cardinality(Counted)
      /\ Cardinality(Served)' = Cardinality(Served)
  <2>1. PICK to \in Label : to = "accepted"
    BY DEF Label
  <2>2. /\ to # "gone" /\ pc[c] # "gone"
        /\ to \notin InCount /\ pc[c] \notin InCount
        /\ to \notin WithSlot /\ pc[c] \notin WithSlot
    BY <1>1, <2>1 DEF InCount, WithSlot
  <2> QED
    BY <1>1, <2>1, <2>2, MoveCountsAll, Zenon
<1>6. /\ pc'[c] = "accepted" /\ fd'[c] = new
      /\ \A d \in Conn : d # c => pc'[d] = pc[d] /\ fd'[d] = fd[d]
      /\ pc' \in [Conn -> Label] /\ fd' \in [Conn -> 0 .. Cardinality(Conn)]
  BY <1>1, <1>3 DEF Label
<1>7. /\ Taken' = Taken
      /\ \A f \in 1 .. Cardinality(Conn) :
            Holding(f)' = Holding(f) /\ ServedWith(f)' = ServedWith(f)
  BY <1>1, <1>6 DEF Taken, Holding, ServedWith, Recorded
<1>8. LoopTypes'
  BY <1>1, <1>3, <1>4, <1>6 DEF LoopTypes, Open, Recorded
<1>9. Accepting'
  BY <1>4, <1>6 DEF Accepting
<1>10. Distinct'
  BY <1>3, <1>6 DEF LoopInv, Distinct, Open
<1>11. InBounds'
  BY <1>1, <1>4, <1>5, <1>6 DEF LoopInv, InBounds
<1>12. OneSlotEach'
  BY <1>5, <1>7 DEF LoopInv, OneSlotEach
<1>13. CountIsTrue'
  BY <1>1, <1>4, <1>5, <1>6 DEF LoopInv, CountIsTrue
<1> QED
  BY <1>8, <1>9, <1>10, <1>11, <1>12, <1>13 DEF LoopInv

LEMMA RecordSlotKeepsLoopInv ==
  ASSUME LoopInv, RecordSlot
  PROVE  LoopInv'
<1> DEFINE free == {i \in Slot : client_socks[i] = 0}
<1>1. PICK c \in Conn : c = main.conn
  BY DEF LoopInv, Accepting, RecordSlot
<1>2. PICK to \in {"left", "created"} :
         /\ pc' = [pc EXCEPT ![c] = to]
         /\ to = "left" => free = {} /\ client_socks' = client_socks
         /\ to = "created" =>
               /\ free # {}
               /\ client_socks' = [client_socks EXCEPT ![Min(free)] = fd[c]]
  BY <1>1 DEF RecordSlot
<1>3. /\ LoopTypes /\ pc \in [Conn -> Label] /\ pc[c] = "accepted"
      /\ to \in Label /\ main.at = "record" /\ num_client < MAX_CLIENTS
      /\ client_socks \in [Slot -> 0 .. Cardinality(Conn)]
      /\ fd[c] \in 1 .. Cardinality(Conn)
      /\ main' = [main EXCEPT !.at = "read"]
      /\ UNCHANGED <<num_client, fd, seen, raced>>
  BY <1>1, FiniteSets
     DEF LoopInv, LoopTypes, InBounds, Accepting, RecordSlot, Label, Open
<1>4. main'.at = "read" /\ main'.conn = main.conn /\ main'.seen = main.seen
      /\ main' \in [at : {"full", "record", "read", "write"},
                    conn : Conn \union {0}, seen : Int]
  BY <1>3 DEF LoopTypes
<1>5. /\ pc'[c] = to
      /\ \A d \in Conn : d # c => pc'[d] = pc[d]
      /\ pc' \in [Conn -> Label]
  BY <1>2, <1>3
<1>6. Cardinality(Gone)' = Cardinality(Gone)
  BY <1>2, <1>3, MoveCountsAll, Zenon
<1>7. Accepting'
  BY <1>4 DEF Accepting
<1>8. Distinct'
  BY <1>2, <1>3, <1>5 DEF LoopInv, Distinct, Open
<1>9. InBounds'
  BY <1>2, <1>3, <1>4, <1>5, <1>6 DEF LoopInv, InBounds
<1>10. CASE to = "left"
  <2>1. /\ to \notin InCount /\ pc[c] \notin InCount
        /\ to \notin WithSlot /\ pc[c] \notin WithSlot
    BY <1>3, <1>10 DEF InCount, WithSlot
  <2>2. /\ Cardinality(Counted)' = Cardinality(Counted)
        /\ Cardinality(Served)' = Cardinality(Served)
    BY <1>2, <1>3, <2>1, MoveCountsAll, Zenon
  <2>3. /\ Taken' = Taken
        /\ \A f \in 1 .. Cardinality(Conn) :
              Holding(f)' = Holding(f) /\ ServedWith(f)' = ServedWith(f)
    BY <1>2, <1>3, <1>5, <1>10 DEF Taken, Holding, ServedWith, Recorded
  <2>4. LoopTypes'
    BY <1>2, <1>3, <1>4, <1>5, <1>10 DEF LoopTypes, Open, Recorded
  <2>5. OneSlotEach'
    BY <2>2, <2>3 DEF LoopInv, OneSlotEach
  <2>6. raced
    <3>1. Taken = Slot
      BY <1>2, <1>10 DEF Taken
    <3>2. Cardinality(Served) = MAX_CLIENTS
      BY <3>1, FiniteSets DEF LoopInv, OneSlotEach
    <3>3. Served \subseteq Counted /\ Counted \subseteq Conn
      BY DEF Served, Counted, Among, InCount
    <3>4. Cardinality(Served) <= Cardinality(Counted)
      BY <3>3, FiniteSets, FS_Subset
    <3> QED
      BY <1>3, <3>2, <3>4, CountsAreNatural, FiniteSets
         DEF LoopInv, LoopTypes, CountIsTrue
  <2>7. CountIsTrue'
    BY <1>3, <2>6 DEF CountIsTrue
  <2> QED
    BY <1>7, <1>8, <1>9, <2>4, <2>5, <2>7 DEF LoopInv
<1>11. CASE to = "created"
  <2> DEFINE i == Min(free)
  <2>1. i \in free
    BY <1>2, <1>11, FiniteSets, LeastNumber DEF Slot
  <2>2. /\ i \in Slot /\ client_socks[i] = 0
        /\ client_socks' = [client_socks EXCEPT ![i] = fd[c]]
    BY <1>2, <1>11, <2>1
  <2> HIDE DEF i
  <2>3. /\ to \in InCount /\ pc[c] \notin InCount
        /\ to \in WithSlot /\ pc[c] \notin WithSlot
    BY <1>3, <1>11 DEF InCount, WithSlot
  <2>4. /\ Cardinality(Counted)' = Cardinality(Counted) + 1
        /\ Cardinality(Served)' = Cardinality(Served) + 1
    BY <1>2, <1>3, <2>3, MoveCountsAll, Zenon
  <2>5. Cardinality(Taken)' = Cardinality(Taken) + 1
    <3>1. Taken' = Taken \union {i} /\ i \notin Taken /\ Taken \subseteq Slot
      BY <1>3, <2>2 DEF Taken
    <3> QED
      BY <3>1, FiniteSets, FS_AddElement
  <2>6. ASSUME NEW f \in 1 .. Cardinality(Conn), f # fd[c]
        PROVE  Holding(f)' = Holding(f) /\ ServedWith(f)' = ServedWith(f)
    BY <1>3, <1>5, <2>2, <2>6 DEF Holding, ServedWith, Recorded
  <2>7. ASSUME NEW f \in 1 .. Cardinality(Conn), f = fd[c]
        PROVE  /\ Cardinality(Holding(f))' = Cardinality(Holding(f)) + 1
               /\ Cardinality(ServedWith(f))' = Cardinality(ServedWith(f)) + 1
    <3>1. /\ Holding(f)' = Holding(f) \union {i}
          /\ i \notin Holding(f) /\ Holding(f) \subseteq Slot
      BY <1>3, <2>2, <2>7 DEF Holding
    <3>2. /\ ServedWith(f)' = ServedWith(f) \union {c}
          /\ c \notin ServedWith(f) /\ ServedWith(f) \subseteq Conn
      BY <1>3, <1>5, <1>11, <2>7 DEF ServedWith, Recorded
    <3>3. Cardinality(Holding(f))' = Cardinality(Holding(f)) + 1
      BY <3>1, FiniteSets, FS_AddElement
    <3>4. Cardinality(ServedWith(f))' = Cardinality(ServedWith(f)) + 1
      BY <3>2, FiniteSets, FS_AddElement
    <3> QED
      BY <3>3, <3>4
  <2>8. OneSlotEach'
    BY <2>4, <2>5, <2>6, <2>7 DEF LoopInv, OneSlotEach
  <2>9. client_socks' \in [Slot -> 0 .. Cardinality(Conn)]
    BY <1>3, <2>2
  <2>10. LoopTypes'
    BY <1>3, <1>4, <1>5, <1>11, <2>9, FiniteSets
       DEF LoopTypes, Open, Recorded
  <2>11. CountIsTrue'
    BY <1>3, <1>4, <1>5, <1>11, <2>4, CountsAreNatural
       DEF LoopInv, CountIsTrue, LoopTypes
  <2> QED
    BY <1>7, <1>8, <1>9, <2>8, <2>10, <2>11 DEF LoopInv
<1> QED
  BY <1>10, <1>11

\* The main loop reads and writes the counter.
LEMMA CountingKeepsLoopInv ==
  ASSUME LoopInv, CountRead \/ CountWrite
  PROVE  LoopInv'
<1>1. /\ LoopTypes
      /\ UNCHANGED <<client_socks, pc, fd, seen>>
      /\ main' \in [at : {"full", "record", "read", "write"},
                    conn : Conn \union {0}, seen : Int]
      /\ main'.at \in {"full", "write"}
      /\ num_client' \in Int /\ raced' \in BOOLEAN
  <2>1. /\ LoopTypes /\ num_client \in Int /\ raced \in BOOLEAN
        /\ main \in [at : {"full", "record", "read", "write"},
                     conn : Conn \union {0}, seen : Int]
    BY DEF LoopInv, LoopTypes
  <2>2. CASE CountRead
    BY <2>1, <2>2 DEF CountRead
  <2>3. CASE CountWrite
    BY <2>1, <2>3 DEF CountWrite
  <2> QED
    BY <2>2, <2>3
<1>2. Gone' = Gone /\ Counted' = Counted /\ Served' = Served /\ Taken' = Taken
  BY <1>1 DEF Gone, Counted, Served, Taken, Among
<1>3. \A f \in 1 .. Cardinality(Conn) :
         Holding(f)' = Holding(f) /\ ServedWith(f)' = ServedWith(f)
  BY <1>1 DEF Holding, ServedWith, Recorded
<1>4. LoopTypes' /\ Accepting' /\ Distinct'
  BY <1>1 DEF LoopInv, LoopTypes, Accepting, Distinct, Open, Recorded
<1>5. OneSlotEach'
  BY <1>2, <1>3 DEF LoopInv, OneSlotEach
<1>6. CASE CountRead
  <2>1. /\ main.at = "read" /\ main'.at = "write" /\ main'.seen = num_client
        /\ UNCHANGED <<num_client, raced>>
    BY <1>1, <1>6 DEF CountRead, LoopTypes
  <2>2. InBounds' /\ CountIsTrue'
    BY <1>1, <1>2, <2>1 DEF LoopInv, InBounds, CountIsTrue
  <2> QED
    BY <1>4, <1>5, <2>2 DEF LoopInv
<1>7. CASE CountWrite
  <2>1. /\ main.at = "write" /\ main'.at = "full"
        /\ num_client' = main.seen + 1
        /\ raced' = (raced \/ num_client # main.seen)
        /\ main.seen \in Int /\ num_client \in Int
    BY <1>1, <1>7 DEF CountWrite, LoopTypes
  <2>2. InBounds'
    BY <1>1, <1>2, <2>1, CountsAreNatural, FiniteSets DEF LoopInv, InBounds
  <2>3. CountIsTrue'
    <3>1. SUFFICES ASSUME ~raced'
                   PROVE  /\ num_client' = Cardinality(Counted)
                          /\ \A c \in Conn : pc[c] # "left"
      BY <1>1, <1>2, <2>1 DEF CountIsTrue
    <3>2. ~raced /\ num_client = main.seen
      BY <2>1, <3>1
    <3>3. /\ num_client = Cardinality(Counted) - 1
          /\ \A c \in Conn : pc[c] # "left"
      BY <2>1, <3>2 DEF LoopInv, CountIsTrue
    <3> QED
      BY <2>1, <3>2, <3>3, CountsAreNatural
  <2> QED
    BY <1>4, <1>5, <2>2, <2>3 DEF LoopInv
<1> QED
  BY <1>6, <1>7

LEMMA ClearSlotKeepsLoopInv ==
  ASSUME LoopInv, NEW c \in Conn, ClearSlot(c)
  PROVE  LoopInv'
<1> DEFINE held == {i \in Slot : client_socks[i] = fd[c]}
           i == Min(held)
<1>1. /\ LoopTypes /\ pc \in [Conn -> Label] /\ pc[c] = "closed"
      /\ client_socks \in [Slot -> 0 .. Cardinality(Conn)]
      /\ fd[c] \in 1 .. Cardinality(Conn)
      /\ pc' = [pc EXCEPT ![c] = "cleared"]
      /\ UNCHANGED <<num_client, main, fd, seen, raced>>
      /\ client_socks' = IF held = {} THEN client_socks
                         ELSE [client_socks EXCEPT ![i] = 0]
  BY FiniteSets DEF LoopInv, LoopTypes, ClearSlot, Goes, Recorded
<1>2. PICK to \in Label : to = "cleared"
  BY DEF Label
<1>3. /\ pc'[c] = to
      /\ \A d \in Conn : d # c => pc'[d] = pc[d]
      /\ pc' \in [Conn -> Label]
  BY <1>1, <1>2
<1>4. /\ Cardinality(Gone)' = Cardinality(Gone)
      /\ Cardinality(Counted)' = Cardinality(Counted)
      /\ Cardinality(Served)' = Cardinality(Served) - 1
  <2>1. /\ to # "gone" /\ pc[c] # "gone"
        /\ to \in InCount /\ pc[c] \in InCount
        /\ to \notin WithSlot /\ pc[c] \in WithSlot
    BY <1>1, <1>2 DEF InCount, WithSlot
  <2> QED
    BY <1>1, <1>2, <2>1, MoveCountsAll, Zenon
<1>5. PICK f \in 1 .. Cardinality(Conn) : f = fd[c]
  BY <1>1
<1>6. /\ ServedWith(f)' = ServedWith(f) \ {c}
      /\ c \in ServedWith(f) /\ ServedWith(f) \subseteq Conn
  BY <1>1, <1>2, <1>3, <1>5 DEF ServedWith, Recorded
<1>7. /\ Cardinality(ServedWith(f))' = Cardinality(ServedWith(f)) - 1
      /\ Cardinality(ServedWith(f)) # 0
  <2>1. IsFiniteSet(ServedWith(f))
    BY <1>6, FiniteSets
  <2>2. Cardinality(ServedWith(f) \ {c}) = Cardinality(ServedWith(f)) - 1
    BY <1>6, <2>1, FS_RemoveElement
  <2>3. Cardinality(ServedWith(f)) # 0
    BY <1>6, <2>1, FS_EmptySet
  <2> QED
    BY <1>6, <2>2, <2>3
<1>8. held = Holding(f) /\ held \subseteq Slot
  BY <1>5 DEF Holding
<1>9. held # {}
  BY <1>7, <1>8, FS_EmptySet DEF LoopInv, OneSlotEach
<1>10. i \in held
  BY <1>9, LeastNumber DEF Slot
<1>11. /\ i \in Slot /\ client_socks[i] = f
       /\ client_socks' = [client_socks EXCEPT ![i] = 0]
  BY <1>1, <1>5, <1>9, <1>10
<1> HIDE DEF i
<1>12. Cardinality(Taken)' = Cardinality(Taken) - 1
  <2>1. Taken' = Taken \ {i} /\ i \in Taken /\ Taken \subseteq Slot
    BY <1>1, <1>11 DEF Taken
  <2> QED
    BY <2>1, FiniteSets, FS_RemoveElement
<1>13. Cardinality(Holding(f))' = Cardinality(Holding(f)) - 1
  <2>1. /\ Holding(f)' = Holding(f) \ {i}
        /\ i \in Holding(f) /\ Holding(f) \subseteq Slot
    BY <1>1, <1>11 DEF Holding
  <2> QED
    BY <2>1, FiniteSets, FS_RemoveElement
<1>14. ASSUME NEW g \in 1 .. Cardinality(Conn), g # f
       PROVE  Holding(g)' = Holding(g) /\ ServedWith(g)' = ServedWith(g)
  BY <1>1, <1>3, <1>5, <1>11, <1>14 DEF Holding, ServedWith, Recorded
<1>15. OneSlotEach'
  <2>1. ASSUME NEW g \in 1 .. Cardinality(Conn)
        PROVE  Cardinality(Holding(g))' = Cardinality(ServedWith(g))'
    BY <1>7, <1>13, <1>14 DEF LoopInv, OneSlotEach
  <2> QED
    BY <1>4, <1>12, <2>1 DEF LoopInv, OneSlotEach
<1>16. client_socks' \in [Slot -> 0 .. Cardinality(Conn)]
  BY <1>1, <1>11, FiniteSets
<1>17. LoopTypes'
  BY <1>1, <1>2, <1>3, <1>16 DEF LoopTypes, Open, Recorded
<1>18. Accepting' /\ Distinct'
  BY <1>1, <1>2, <1>3 DEF LoopInv, Accepting, Distinct, Open
<1>19. InBounds'
  BY <1>1, <1>2, <1>3, <1>4 DEF LoopInv, InBounds
<1>20. CountIsTrue'
  BY <1>1, <1>2, <1>3, <1>4 DEF LoopInv, CountIsTrue
<1> QED
  BY <1>15, <1>17, <1>18, <1>19, <1>20 DEF LoopInv

\* A thread that has freed its slot reads and writes the counter.
LEMMA UncountReadKeepsLoopInv ==
  ASSUME LoopInv, NEW c \in Conn, UncountRead(c)
  PROVE  LoopInv'
<1>1. /\ LoopTypes /\ pc \in [Conn -> Label] /\ pc[c] = "cleared"
      /\ pc' = [pc EXCEPT ![c] = "uncounting"]
      /\ seen' = [seen EXCEPT ![c] = num_client]
      /\ seen \in [Conn -> Int] /\ num_client \in Int
      /\ UNCHANGED <<client_socks, num_client, main, fd, raced>>
  BY DEF LoopInv, LoopTypes, UncountRead, Goes
<1>2. PICK to \in Label : to = "uncounting"
  BY DEF Label
<1>3. /\ pc'[c] = to /\ seen'[c] = num_client
      /\ \A d \in Conn : d # c => pc'[d] = pc[d] /\ seen'[d] = seen[d]
      /\ pc' \in [Conn -> Label] /\ seen' \in [Conn -> Int]
  BY <1>1, <1>2
<1>4. /\ Cardinality(Gone)' = Cardinality(Gone)
      /\ Cardinality(Counted)' = Cardinality(Counted)
      /\ Cardinality(Served)' = Cardinality(Served)
  <2>1. /\ to # "gone" /\ pc[c] # "gone"
        /\ to \in InCount /\ pc[c] \in InCount
        /\ to \notin WithSlot /\ pc[c] \notin WithSlot
    BY <1>1, <1>2 DEF InCount, WithSlot
  <2> QED
    BY <1>1, <1>2, <2>1, MoveCountsAll, Zenon
<1>5. /\ Taken' = Taken
      /\ \A f \in 1 .. Cardinality(Conn) :
            Holding(f)' = Holding(f) /\ ServedWith(f)' = ServedWith(f)
  BY <1>1, <1>2, <1>3 DEF Taken, Holding, ServedWith, Recorded
<1>6. LoopTypes'
  BY <1>1, <1>2, <1>3 DEF LoopTypes, Open, Recorded
<1>7. Accepting' /\ Distinct'
  BY <1>1, <1>2, <1>3 DEF LoopInv, Accepting, Distinct, Open
<1>8. InBounds'
  BY <1>1, <1>2, <1>3, <1>4 DEF LoopInv, InBounds
<1>9. OneSlotEach'
  BY <1>4, <1>5 DEF LoopInv, OneSlotEach
<1>10. CountIsTrue'
  BY <1>1, <1>2, <1>3, <1>4 DEF LoopInv, CountIsTrue
<1> QED
  BY <1>6, <1>7, <1>8, <1>9, <1>10 DEF LoopInv

LEMMA UncountWriteKeepsLoopInv ==
  ASSUME LoopInv, NEW c \in Conn, UncountWrite(c)
  PROVE  LoopInv'
<1>1. /\ LoopTypes /\ pc \in [Conn -> Label] /\ pc[c] = "uncounting"
      /\ pc' = [pc EXCEPT ![c] = "gone"]
      /\ num_client' = seen[c] - 1
      /\ raced' = (raced \/ num_client # seen[c])
      /\ seen[c] \in Int /\ num_client \in Int
      /\ UNCHANGED <<client_socks, main, fd, seen>>
  BY DEF LoopInv, LoopTypes, UncountWrite, Goes
<1>2. PICK to \in Label : to = "gone"
  BY DEF Label
<1>3. /\ pc'[c] = to
      /\ \A d \in Conn : d # c => pc'[d] = pc[d]
      /\ pc' \in [Conn -> Label]
  BY <1>1, <1>2
<1>4. /\ Cardinality(Gone)' = Cardinality(Gone) + 1
      /\ Cardinality(Counted)' = Cardinality(Counted) - 1
      /\ Cardinality(Served)' = Cardinality(Served)
  <2>1. /\ to = "gone" /\ pc[c] # "gone"
        /\ to \notin InCount /\ pc[c] \in InCount
        /\ to \notin WithSlot /\ pc[c] \notin WithSlot
    BY <1>1, <1>2 DEF InCount, WithSlot
  <2> QED
    BY <1>1, <1>2, <2>1, MoveCountsAll, Zenon
<1>5. /\ Taken' = Taken
      /\ \A f \in 1 .. Cardinality(Conn) :
            Holding(f)' = Holding(f) /\ ServedWith(f)' = ServedWith(f)
  BY <1>1, <1>2, <1>3 DEF Taken, Holding, ServedWith, Recorded
<1>6. LoopTypes'
  BY <1>1, <1>2, <1>3 DEF LoopTypes, Open, Recorded
<1>7. Accepting' /\ Distinct'
  BY <1>1, <1>2, <1>3 DEF LoopInv, Accepting, Distinct, Open
<1>8. InBounds'
  <2>1. seen[c] >= -Cardinality(Gone) /\ seen[c] <= MAX_CLIENTS
    BY <1>1 DEF LoopInv, InBounds
  <2>2. main.seen \in Int /\ seen \in [Conn -> Int]
    BY <1>1 DEF LoopTypes
  <2> QED
    BY <1>1, <1>2, <1>3, <1>4, <2>1, <2>2, CountsAreNatural, FiniteSets
       DEF LoopInv, InBounds
<1>9. OneSlotEach'
  BY <1>4, <1>5 DEF LoopInv, OneSlotEach
<1>10. CountIsTrue'
  <2> DEFINE late == IF main.at \in {"read", "write"} THEN 1 ELSE 0
  <2>1. SUFFICES ASSUME ~raced'
                 PROVE  /\ num_client' = Cardinality(Counted)' - late
                        /\ \A d \in Conn : pc'[d] # "left"
    BY <1>1 DEF CountIsTrue
  <2>2. ~raced /\ num_client = seen[c]
    BY <1>1, <2>1
  <2>3. /\ num_client = Cardinality(Counted) - late
        /\ \A d \in Conn : pc[d] # "left"
    BY <2>2 DEF LoopInv, CountIsTrue
  <2>4. late \in Int
    OBVIOUS
  <2> HIDE DEF late
  <2>5. num_client' = Cardinality(Counted)' - late
    BY <1>1, <1>4, <2>2, <2>3, <2>4, CountsAreNatural
  <2> QED
    BY <1>2, <1>3, <2>3, <2>5
<1> QED
  BY <1>6, <1>7, <1>8, <1>9, <1>10 DEF LoopInv

LEMMA NextKeepsLoopInv ==
  ASSUME LoopInv, [Next]_vars
  PROVE  LoopInv'
<1> USE DEF Goes
<1>1. ASSUME NEW c \in Conn, ThreadStart(c) \/ Close(c) PROVE LoopInv'
  <2>1. PICK to \in Label :
           /\ pc' = [pc EXCEPT ![c] = to]
           /\ \/ pc[c] = "created" /\ to = "running"
              \/ pc[c] = "running" /\ to = "closed"
    BY <1>1 DEF ThreadStart, Close, Label
  <2>2. UNCHANGED loopVars
    BY <1>1 DEF ThreadStart, Close
  <2> QED
    BY <2>1, <2>2, ServedKeepsLoopInv
<1>2. ASSUME NEW c \in Conn, RequestStep(c) \/ ReadFails(c) \/ Die(c)
      PROVE  UNCHANGED <<loopVars, pc>>
  BY <1>2 DEF RequestStep, Begin, ConnectToBackend, SendCommand,
              ReadResponse, ReadFails, Die
<1>3. CASE StoreStep \/ ServerDies
  BY <1>3, RestKeepsLoopInv DEF StoreStep, Serve, ServerDies
<1>4. ASSUME NEW c \in Conn, ThreadStep(c) \/ Close(c) \/ ReadFails(c) \/ Die(c)
      PROVE  LoopInv'
  BY <1>1, <1>2, <1>4, RestKeepsLoopInv, ClearSlotKeepsLoopInv,
     UncountReadKeepsLoopInv, UncountWriteKeepsLoopInv DEF ThreadStep
<1>5. CASE MainStep
  BY <1>5, AcceptKeepsLoopInv, RecordSlotKeepsLoopInv, CountingKeepsLoopInv
     DEF MainStep
<1>6. CASE UNCHANGED vars
  BY <1>6, RestKeepsLoopInv DEF vars
<1> QED
  BY <1>3, <1>4, <1>5, <1>6 DEF Next

\* A connection that is served has one slot, although its descriptor may be
\* used again before the slot is cleared, and only a lost update of num_client
\* leaves a connection without a thread.
THEOREM SlotsAreHeld == Spec => []SlotHeld
<1>1. LoopInv => SlotHeld
  BY DEF LoopInv, OneSlotEach, CountIsTrue, SlotHeld, Holding, ServedWith
<1> QED
  BY <1>1, InitLoopInv, NextKeepsLoopInv, PTL DEF Spec

-----------------------------------------------------------------------------
(* Sequences and scripts, whatever their elements are.                     *)

Sequence(q) == q \in Seq(ToSet(q))

\* No command of a script is taken for the absence of one.
Sent(a) == a.op # ""
Script(q) == Sequence(q) /\ \A i \in 1 .. Len(q) : Sent(q[i])

LEMMA SequenceOf ==
  ASSUME NEW S, NEW q \in Seq(S)
  PROVE  Sequence(q)
<1>1. /\ Len(q) \in Nat /\ DOMAIN q = 1 .. Len(q)
      /\ q = [i \in 1 .. Len(q) |-> q[i]]
      /\ \A i \in 1 .. Len(q) : q[i] \in ToSet(q)
  BY DEF ToSet
<1> QED
  BY <1>1 DEF Sequence

LEMMA WiderSequence ==
  ASSUME NEW q, Sequence(q), NEW S, ToSet(q) \subseteq S
  PROVE  q \in Seq(S)
<1>1. q \in Seq(ToSet(q))
  BY DEF Sequence
<1>2. \A i \in 1 .. Len(q) : q[i] \in S
  BY <1>1
<1>3. Len(q) \in Nat /\ q = [i \in 1 .. Len(q) |-> q[i]]
  BY <1>1
<1> QED
  BY <1>2, <1>3

LEMMA ScriptOf ==
  ASSUME NEW S, NEW q \in Seq(S), \A i \in 1 .. Len(q) : Sent(q[i])
  PROVE  Script(q)
BY SequenceOf DEF Script

LEMMA Tuples ==
  ASSUME NEW a, NEW b, NEW d
  PROVE  /\ \E S : <<>> \in Seq(S) /\ Len(<<>>) = 0
         /\ \E S : <<a>> \in Seq(S) /\ Len(<<a>>) = 1
         /\ \E S : <<a, b>> \in Seq(S) /\ Len(<<a, b>>) = 2
         /\ \E S : <<a, b, d>> \in Seq(S) /\ Len(<<a, b, d>>) = 3
         /\ <<a>>[1] = a
         /\ <<a, b>>[1] = a /\ <<a, b>>[2] = b
         /\ <<a, b, d>>[1] = a /\ <<a, b, d>>[2] = b /\ <<a, b, d>>[3] = d
<1>1. PICK S : a \in S /\ b \in S /\ d \in S
  <2>1. a \in {a, b, d} /\ b \in {a, b, d} /\ d \in {a, b, d}
    OBVIOUS
  <2> QED
    BY <2>1
<1>2. /\ <<>> \in Seq(S) /\ Len(<<>>) = 0
      /\ <<a>> \in Seq(S) /\ Len(<<a>>) = 1
  BY <1>1
<1>3. /\ <<a, b>> \in Seq(S) /\ Len(<<a, b>>) = 2
      /\ <<a, b, d>> \in Seq(S) /\ Len(<<a, b, d>>) = 3
  BY <1>1
<1> QED
  BY <1>2, <1>3

\* Scripts that are written out.
LEMMA ShortScripts ==
  ASSUME NEW a, NEW b, NEW d,
         Sent(a) /\ Sent(b) /\ Sent(d)
  PROVE  Script(<<>>) /\ Script(<<a>>) /\ Script(<<a, b>>) /\ Script(<<a, b, d>>)
<1> DEFINE p == <<a>>
           q == <<a, b>>
           r == <<a, b, d>>
<1>1. /\ \E S : <<>> \in Seq(S) /\ Len(<<>>) = 0
      /\ \E S : p \in Seq(S) /\ Len(p) = 1
      /\ \E S : q \in Seq(S) /\ Len(q) = 2
      /\ \E S : r \in Seq(S) /\ Len(r) = 3
      /\ p[1] = a
      /\ q[1] = a /\ q[2] = b
      /\ r[1] = a /\ r[2] = b /\ r[3] = d
  BY Tuples
<1> HIDE DEF p, q, r
<1>2. Script(<<>>)
  <2> DEFINE e == <<>>
  <2>1. (\E S : e \in Seq(S)) /\ Len(e) = 0
    BY <1>1
  <2> HIDE DEF e
  <2>2. \A i \in 1 .. 0 : FALSE
    OBVIOUS
  <2>3. Script(e)
    BY <2>1, <2>2, ScriptOf
  <2> QED
    BY <2>3 DEF e
<1>3. Script(p)
  <2>1. \A i \in 1 .. 1 : i = 1
    OBVIOUS
  <2> QED
    BY <1>1, <2>1, ScriptOf
<1>4. Script(q)
  <2>1. \A i \in 1 .. 2 : i = 1 \/ i = 2
    OBVIOUS
  <2> QED
    BY <1>1, <2>1, ScriptOf
<1>5. Script(r)
  <2>1. \A i \in 1 .. 3 : i = 1 \/ i = 2 \/ i = 3
    OBVIOUS
  <2> QED
    BY <1>1, <2>1, ScriptOf
<1> QED
  BY <1>2, <1>3, <1>4, <1>5 DEF p, q, r

LEMMA TailOf ==
  ASSUME NEW q, Sequence(q), q # <<>>
  PROVE  /\ Sequence(Tail(q)) /\ Len(Tail(q)) = Len(q) - 1
         /\ Len(q) \in Nat \ {0} /\ Head(q) = q[1]
         /\ \A i \in 1 .. Len(q) - 1 : Tail(q)[i] = q[i + 1]
<1>1. PICK S : q \in Seq(S)
  BY DEF Sequence
<1>2. Tail(q) \in Seq(S)
  BY <1>1
<1>3. Sequence(Tail(q))
  BY <1>2, SequenceOf
<1> QED
  BY <1>1, <1>3

LEMMA ScriptTail ==
  ASSUME NEW q, Script(q), q # <<>>
  PROVE  Script(Tail(q)) /\ Sent(Head(q))
<1>1. Sequence(q)
  BY DEF Script
<1>2. ASSUME NEW i \in 1 .. Len(Tail(q))
      PROVE  Sent(Tail(q)[i])
  <2>1. i \in 1 .. Len(q) - 1 /\ i + 1 \in 1 .. Len(q)
    BY <1>1, TailOf
  <2> QED
    BY <1>1, <2>1, TailOf DEF Script
<1>3. 1 \in 1 .. Len(q)
  BY <1>1, TailOf
<1> QED
  BY <1>1, <1>2, <1>3, TailOf DEF Script

LEMMA AppendOf ==
  ASSUME NEW q, Sequence(q), NEW e
  PROVE  /\ Sequence(Append(q, e)) /\ Len(Append(q, e)) = Len(q) + 1
         /\ Len(q) \in Nat
         /\ Append(q, e)[Len(q) + 1] = e
         /\ \A i \in 1 .. Len(q) : Append(q, e)[i] = q[i]
<1>1. PICK S : ToSet(q) \subseteq S /\ e \in S
  <2>1. ToSet(q) \subseteq ToSet(q) \union {e} /\ e \in ToSet(q) \union {e}
    OBVIOUS
  <2> QED
    BY <2>1
<1>2. Sequence(q)
  OBVIOUS
<1>3. q \in Seq(S)
  BY <1>1, <1>2, WiderSequence, Zenon
<1>4. Append(q, e) \in Seq(S)
  BY <1>1, <1>3
<1>5. Sequence(Append(q, e))
  BY <1>4, SequenceOf
<1> QED
  BY <1>1, <1>3, <1>5

LEMMA ScriptConcat ==
  ASSUME NEW q, Script(q), NEW r, Script(r)
  PROVE  Script(q \o r)
<1>1. PICK S : ToSet(q) \subseteq S /\ ToSet(r) \subseteq S
  <2>1. /\ ToSet(q) \subseteq ToSet(q) \union ToSet(r)
        /\ ToSet(r) \subseteq ToSet(q) \union ToSet(r)
    OBVIOUS
  <2> QED
    BY <2>1
<1>2. Sequence(q) /\ Sequence(r)
  BY DEF Script
<1>3. q \in Seq(S) /\ r \in Seq(S) /\ Len(q) \in Nat /\ Len(r) \in Nat
  <2>1. q \in Seq(S)
    BY <1>1, <1>2, WiderSequence
  <2>2. r \in Seq(S)
    BY <1>1, <1>2, WiderSequence
  <2> QED
    BY <2>1, <2>2
<1>4. /\ q \o r \in Seq(S)
      /\ Len(q \o r) = Len(q) + Len(r)
      /\ \A i \in 1 .. Len(q) + Len(r) :
            (q \o r)[i] = IF i <= Len(q) THEN q[i] ELSE r[i - Len(q)]
  BY <1>3
<1>5. ASSUME NEW i \in 1 .. Len(q) + Len(r)
      PROVE  Sent((q \o r)[i])
  <2>1. CASE i <= Len(q)
    <3>1. i \in 1 .. Len(q)
      BY <1>3, <2>1
    <3> QED
      BY <1>4, <2>1, <3>1 DEF Script
  <2>2. CASE ~(i <= Len(q))
    <3>1. i - Len(q) \in 1 .. Len(r)
      BY <1>3, <2>2
    <3> QED
      BY <1>4, <2>2, <3>1 DEF Script
  <2> QED
    BY <2>1, <2>2
<1> QED
  BY <1>4, <1>5, SequenceOf DEF Script

\* A sequence of scripts after one another (FlattenSeq): its LET defines the
\* concatenation of the first i as a function of i, which exists.
LEMMA Concatenations ==
  ASSUME NEW n \in Nat \ {0}, NEW q
  PROVE  \E f : f = [i \in 1 .. n |-> IF i = 1 THEN q[i] ELSE f[i - 1] \o q[i]]
<1> DEFINE Upto(m, f) ==
             f = [i \in 1 .. m |-> IF i = 1 THEN q[i] ELSE f[i - 1] \o q[i]]
           bad == {m \in Nat \ {0} : \A f : ~Upto(m, f)}
<1> HIDE DEF Upto
<1> SUFFICES ASSUME n \in bad
             PROVE  FALSE
  BY DEF Upto
<1>1. bad \subseteq Nat /\ bad # {}
  OBVIOUS
<1>2. PICK m \in bad : \A u \in bad : m <= u
  <2>1. Min(bad) \in bad /\ \A u \in bad : Min(bad) <= u
    BY <1>1, LeastNumber, Zenon
  <2> QED
    BY <2>1, Zenon
<1>3. CASE m = 1
  <2> DEFINE f == [i \in 1 .. 1 |-> q[i]]
  <2>1. \A i \in 1 .. 1 : i = 1
    OBVIOUS
  <2>2. Upto(1, f)
    BY <2>1 DEF Upto
  <2> QED
    BY <1>2, <1>3, <2>2
<1>4. CASE m # 1
  <2>1. m - 1 \in Nat \ {0} /\ m - 1 \notin bad /\ m \in Nat
    BY <1>2, <1>4
  <2>2. PICK f : Upto(m - 1, f)
    BY <2>1
  <2> DEFINE g == [i \in 1 .. m |-> IF i = m THEN f[m - 1] \o q[m] ELSE f[i]]
  <2>3. ASSUME NEW i \in 1 .. m
        PROVE  g[i] = IF i = 1 THEN q[i] ELSE g[i - 1] \o q[i]
    <3>1. CASE i = m
      <4>1. m - 1 \in 1 .. m /\ m - 1 # m
        BY <2>1
      <4> QED
        BY <1>4, <3>1, <4>1
    <3>2. CASE i # m
      <4>1. i \in 1 .. m - 1 /\ (i # 1 => i - 1 \in 1 .. m /\ i - 1 # m)
        BY <2>1, <3>2
      <4>2. f[i] = IF i = 1 THEN q[i] ELSE f[i - 1] \o q[i]
        BY <2>2, <4>1 DEF Upto
      <4> QED
        BY <3>2, <4>1, <4>2
    <3> QED
      BY <3>1, <3>2
  <2> HIDE DEF g
  <2>4. g = [i \in 1 .. m |-> g[i]]
    BY DEF g
  <2>5. Upto(m, g)
    BY <2>3, <2>4 DEF Upto
  <2> QED
    BY <1>2, <2>5
<1> QED
  BY <1>3, <1>4

\* Each element of a sequence of scripts goes into the result.
LEMMA FlattenScripts ==
  ASSUME NEW n \in Nat \ {0}, NEW q, Len(q) = n, \A i \in 1 .. n : Script(q[i])
  PROVE  Script(FlattenSeq(q))
<1>1. PICK f : f = [i \in 1 .. n |-> IF i = 1 THEN q[i] ELSE f[i - 1] \o q[i]]
  BY Concatenations
<1> DEFINE g == CHOOSE h : h = [i \in 1 .. n |-> IF i = 1 THEN q[i]
                                                ELSE h[i - 1] \o q[i]]
<1>2. FlattenSeq(q) = g[n]
  BY DEF FlattenSeq
<1>3. g = [i \in 1 .. n |-> IF i = 1 THEN q[i] ELSE g[i - 1] \o q[i]]
  BY <1>1, Zenon
<1> HIDE DEF g
<1>4. ASSUME NEW i \in 1 .. n
      PROVE  g[i] = IF i = 1 THEN q[i] ELSE g[i - 1] \o q[i]
  BY <1>3
<1> DEFINE bad == {i \in 1 .. n : ~Script(g[i])}
<1>5. bad = {}
  <2> SUFFICES ASSUME bad # {}
               PROVE  FALSE
    OBVIOUS
  <2>1. bad \subseteq Nat
    OBVIOUS
  <2>2. PICK i \in bad : \A u \in bad : i <= u
    <3>1. Min(bad) \in bad /\ \A u \in bad : Min(bad) <= u
      BY <2>1, LeastNumber, Zenon
    <3> QED
      BY <3>1, Zenon
  <2>3. i \in 1 .. n /\ ~Script(g[i])
    OBVIOUS
  <2>4. CASE i = 1
    BY <1>4, <2>3, <2>4
  <2>5. CASE i # 1
    <3>1. i - 1 \in 1 .. n /\ i - 1 \notin bad
      BY <2>2, <2>3, <2>5
    <3>2. Script(g[i - 1]) /\ Script(q[i])
      BY <2>3, <3>1
    <3>3. g[i] = g[i - 1] \o q[i]
      BY <1>4, <2>3, <2>5
    <3> QED
      BY <2>3, <3>2, <3>3, ScriptConcat
  <2> QED
    BY <2>4, <2>5
<1> QED
  BY <1>2, <1>5

\* The lines of a LIST are a sequence.
LEMMA LinesOf ==
  ASSUME NEW S, IsFiniteSet(S)
  PROVE  Sequence(SetToSeq(S))
<1> DEFINE n == Cardinality(S)
<1>1. n \in Nat
  BY FS_CardinalityType
<1>2. PICK h \in [1 .. n -> S] : IsInjective(h)
  <2>1. ExistsBijection(1 .. n, S)
    BY FS_CountingElements, FS_CardinalityType
  <2> QED
    BY <2>1 DEF ExistsBijection, Bijection, Injection, IsInjective
<1>3. SetToSeq(S) \in [1 .. n -> S]
  BY <1>2, Zenon DEF SetToSeq
<1>4. SetToSeq(S) \in Seq(S)
  BY <1>1, <1>3
<1> QED
  BY <1>4, SequenceOf

-----------------------------------------------------------------------------
(* What the requests send are scripts.                                     *)

LEMMA CommandsAreSent ==
  /\ Sent(Connect)
  /\ \A k : Sent(Get(k)) /\ Sent(Delete(k)) /\ Sent(List(k)) /\ Sent(ForEach(k))
  /\ \A k, v : Sent(Put(k, v))
  /\ \A k, old, new : Sent(Cput(k, old, new))
  /\ \A a : Sent(a) => a # Idle
<1>1. \A op, key, value : Command(op, key, value).op = op
  BY DEF Command
<1>2. \A k, old, new : Cput(k, old, new).op = "CPUT"
  BY DEF Cput
<1> QED
  BY <1>1, <1>2 DEF Sent, Connect, Get, Delete, List, ForEach, Put, Idle

LEMMA RelocateIsScript ==
  ASSUME NEW from, NEW to
  PROVE  Script(Relocate(from, to))
BY CommandsAreSent, ShortScripts, Zenon DEF Relocate

LEMMA AccountIsScript ==
  ASSUME NEW r, r.op \in {"MENU", "SIGNUP", "NEWPASS"}
  PROVE  Script(Account(r))
<1>1. \A a, b : Sent(a) /\ Sent(b) => Script(<<a, b>>)
  BY ShortScripts, Zenon
<1>2. CASE r.op = "MENU"
  <2>1. Account(r) = <<Connect, Get(Password(r.user))>>
    BY <1>2, Zenon DEF Account
  <2> QED
    BY <1>1, <2>1, CommandsAreSent, Zenon
<1>3. CASE r.op = "SIGNUP"
  <2>1. Account(r) = <<Connect, Put(Password(r.user), r.value)>>
    BY <1>3, Zenon DEF Account
  <2> QED
    BY <1>1, <2>1, CommandsAreSent, Zenon
<1>4. CASE r.op = "NEWPASS"
  <2>1. Account(r) = <<Connect, Cput(Password(r.user), r.old, r.value)>>
    BY <1>4, Zenon DEF Account
  <2> QED
    BY <1>1, <2>1, CommandsAreSent, Zenon
<1> QED
  BY <1>2, <1>3, <1>4, Zenon

LEMMA ChangeIsScript ==
  ASSUME NEW r, r.op \in Changes, NEW u
  PROVE  Script(Change(r, u))
<1>1. /\ \A a : Sent(a) => Script(<<a>>)
      /\ \A from, to : Script(Relocate(from, to))
  BY ShortScripts, RelocateIsScript, Zenon
<1> DEFINE here == Content(u, Path(r.item, r.name))
<1>2. CASE r.op = "DELETE"
  <2>1. Change(r, u) = <<ForEach(here)>>
    BY <1>2, Zenon DEF Change
  <2> QED
    BY <1>1, <2>1, CommandsAreSent, Zenon
<1>3. CASE r.op = "RENAME"
  <2>1. Change(r, u) = Relocate(here, Content(u, Path(r.item, r.to)))
    BY <1>3, Zenon DEF Change
  <2> QED
    BY <1>1, <2>1, Zenon
<1>4. CASE r.op = "MOVE"
  <2>1. Change(r, u) = IF r.folder THEN <<ForEach(here)>>
                       ELSE Relocate(here, Content(u, Target(r)))
    BY <1>4, Zenon DEF Change
  <2> QED
    BY <1>1, <2>1, CommandsAreSent, Zenon
<1>5. CASE r.op = "NEWDIR"
  <2>1. Change(r, u) = <<Put(here, Dummy)>>
    BY <1>5, Zenon DEF Change
  <2> QED
    BY <1>1, <2>1, CommandsAreSent, Zenon
<1>6. CASE r.op = "UPLOAD"
  <2>1. Change(r, u) = <<Put(here, r.value)>>
    BY <1>6, Zenon DEF Change
  <2> QED
    BY <1>1, <2>1, CommandsAreSent, Zenon
<1> QED
  BY <1>2, <1>3, <1>4, <1>5, <1>6, Zenon DEF Changes

LEMMA OperationIsScript ==
  ASSUME NEW r, NEW u
  PROVE  Script(Operation(r, u))
<1>1. Script(<<>>) /\ \A a : Sent(a) => Script(<<a>>)
  BY CommandsAreSent, ShortScripts, Zenon
<1>2. CASE r.op \in {"MENU", "SIGNUP", "NEWPASS"}
  <2>1. Operation(r, u) = Account(r)
    BY <1>2, Zenon DEF Operation, Changes
  <2> QED
    BY <1>2, <2>1, AccountIsScript
<1>3. CASE r.op = "FORWARD"
  <2>1. Operation(r, u) = <<Get(r.name)>>
    BY <1>3, Zenon DEF Operation, Changes
  <2> QED
    BY <1>1, <2>1, CommandsAreSent, Zenon
<1>4. CASE r.op \in Changes
  <2>1. Operation(r, u) = Change(r, u)
    BY <1>4, Zenon DEF Operation, Changes
  <2> QED
    BY <1>4, <2>1, ChangeIsScript, Zenon
<1>5. CASE r.op \notin {"MENU", "SIGNUP", "NEWPASS", "FORWARD"} \union Changes
  <2>1. Operation(r, u) = <<>>
    BY <1>5, Zenon DEF Operation
  <2> QED
    BY <1>1, <2>1, Zenon
<1> QED
  BY <1>2, <1>3, <1>4, <1>5, Zenon

LEMMA PageIsScript ==
  ASSUME NEW r, NEW u
  PROVE  Script(Page(r, u))
<1>1. /\ Script(<<>>) /\ \A a : Sent(a) => Script(<<a>>)
      /\ \A a, b : Sent(a) /\ Sent(b) => Script(<<a, b>>)
  BY CommandsAreSent, ShortScripts, Zenon
<1>2. CASE r.op = "DOWNLOAD"
  <2>1. Page(r, u) = <<Get(Content(u, Path(r.item, r.name))),
                       List(Content(u, r.item))>>
    BY <1>2, Zenon DEF Page, Changes
  <2> QED
    BY <1>1, <2>1, CommandsAreSent, Zenon
<1>3. CASE r.op \in Changes \union {"DRIVE"}
  <2>1. Page(r, u) = <<List(Content(u, r.item))>>
    BY <1>3, Zenon DEF Page, Changes
  <2> QED
    BY <1>1, <2>1, CommandsAreSent, Zenon
<1>4. CASE r.op \in {"MAILBOX", "FORWARD", "SENDEMAIL"}
  <2>1. Page(r, u) = <<List(Emails(u))>>
    BY <1>4, Zenon DEF Page, Changes
  <2> QED
    BY <1>1, <2>1, CommandsAreSent, Zenon
<1>5. CASE r.op = "DELETEMAIL"
  <2>1. Page(r, u) = <<Delete(r.name), List(Emails(u))>>
    BY <1>5, Zenon DEF Page, Changes
  <2> QED
    BY <1>1, <2>1, CommandsAreSent, Zenon
<1>6. CASE r.op = "EMAIL"
  <2>1. Page(r, u) = <<Get(r.name)>>
    BY <1>6, Zenon DEF Page, Changes
  <2> QED
    BY <1>1, <2>1, CommandsAreSent, Zenon
<1>7. CASE r.op \notin {"DOWNLOAD", "DRIVE", "MAILBOX", "FORWARD", "SENDEMAIL",
                        "DELETEMAIL", "EMAIL"} \union Changes
  <2>1. Page(r, u) = <<>>
    BY <1>7, Zenon DEF Page
  <2> QED
    BY <1>1, <2>1, Zenon
<1> QED
  BY <1>2, <1>3, <1>4, <1>5, <1>6, <1>7, Zenon

LEMMA EachIsScript ==
  ASSUME NEW r, NEW u, NEW keys, Sequence(keys)
  PROVE  Script(Each(r, u, keys))
<1> DEFINE lines == Append(keys, LastLine(u))
           n == Len(lines)
           deletes == [i \in 1 .. n |-> Delete(lines[i])]
           moves == [i \in 1 .. n |->
                        Relocate(lines[i], Content(u, Path(Target(r), r.name)))]
<1>1. n \in Nat \ {0}
  BY AppendOf
<1>2. Each(r, u, keys) = IF r.op = "DELETE" THEN deletes ELSE FlattenSeq(moves)
  BY Zenon DEF Each
<1>3. \A i \in 1 .. n : deletes[i] = Delete(lines[i]) /\ Script(moves[i])
  BY RelocateIsScript
<1>4. \A i \in 1 .. n : Sent(deletes[i])
  BY <1>3, CommandsAreSent, Zenon
<1>5. PICK S : deletes \in [1 .. n -> S]
  <2>1. deletes \in [1 .. n -> {Delete(lines[i]) : i \in 1 .. n}]
    BY Zenon
  <2> QED
    BY <2>1, Zenon
<1>6. DOMAIN moves = 1 .. n
  OBVIOUS
<1> HIDE DEF n, deletes, moves
<1>7. Script(deletes)
  <2>1. deletes \in Seq(S) /\ Len(deletes) = n
    BY <1>1, <1>5
  <2> QED
    BY <1>4, <2>1, ScriptOf
<1>8. Script(FlattenSeq(moves))
  <2>1. Len(moves) = n
    BY <1>1, <1>6
  <2> QED
    BY <1>1, <1>3, <2>1, FlattenScripts
<1> QED
  BY <1>2, <1>7, <1>8, Zenon

-----------------------------------------------------------------------------
(* The inductive invariant of the requests.                                *)

\* A reply, and a connection.
Told(a) ==
    /\ a = [value |-> a.value, keys |-> a.keys, of |-> a.of]
    /\ Sequence(a.keys)

Wire(w) ==
    /\ w = [commands |-> w.commands, replies |-> w.replies, dead |-> w.dead]
    /\ Sequence(w.commands) /\ Sequence(w.replies)
    /\ \A i \in 1 .. Len(w.replies) : Told(w.replies[i])

ThreadTypes ==
    /\ number \in [Conn -> Index]
    /\ DOMAIN todo = Conn /\ \A c \in Conn : Script(todo[c])
    /\ DOMAIN awaiting = Conn /\ DOMAIN response = Conn

StoreTypes ==
    /\ backend_socks \in [Index -> 0 .. Len(sockets)]
    /\ Sequence(sockets) /\ \A k \in 1 .. Len(sockets) : Wire(sockets[k])
    /\ IsFiniteSet(DOMAIN store)

\* Only a running thread has commands to send or waits for a reply, and before
\* it runs it has read none.
Quiet ==
    \A c \in Conn :
        /\ pc[c] # "running" => todo[c] = <<>> /\ awaiting[c] = Idle
        /\ pc[c] \in {"queued", "accepted", "created"} => response[c].of = "none"

\* Threads that run have different numbers, and numbers different connections.
OneNumberEach ==
    \A c, d \in Conn :
        pc[c] = "running" /\ pc[d] = "running" /\ number[c] = number[d] =>
            c = d \/ number[c] \in collided

OneConnectionEach ==
    \A m, n \in Index :
        backend_socks[m] = backend_socks[n] => m = n \/ backend_socks[m] = NoConnection

\* What is in flight on the connection of a number is one command, or one
\* reply, and the thread that has the number waits for it.
Waits(c, n) ==
    c \in Conn /\ pc[c] = "running" /\ number[c] = n /\ awaiting[c] # Idle

Carrying(w, n) ==
    /\ Len(w.commands) + Len(w.replies) <= 1
    /\ \A i \in 1 .. Len(w.commands) : Waits(w.commands[i].of, n)
    /\ \A i \in 1 .. Len(w.replies) : Waits(w.replies[i].of, n)

OneInFlight ==
    \A n \in Index \ collided :
        backend_socks[n] # NoConnection => Carrying(sockets[backend_socks[n]], n)

RequestInv ==
    /\ ThreadTypes
    /\ StoreTypes
    /\ Quiet
    /\ OneNumberEach
    /\ OneConnectionEach
    /\ OneInFlight
    /\ OwnReplies

-----------------------------------------------------------------------------
(* Changes of one element.                                                 *)

LEMMA Update ==
  ASSUME NEW f, NEW S, DOMAIN f = S, NEW c \in S, NEW x, NEW g,
         g = [f EXCEPT ![c] = x]
  PROVE  DOMAIN g = S /\ g[c] = x /\ \A d \in S : d # c => g[d] = f[d]
<1>1. g = [d \in S |-> IF d = c THEN x ELSE f[d]]
  BY Zenon
<1> QED
  BY <1>1

\* Sequence r is q with w in place k.
Changed(q, r, k, w) ==
    /\ Sequence(r) /\ Len(r) = Len(q) /\ r[k] = w
    /\ \A j \in 1 .. Len(q) : j # k => r[j] = q[j]

LEMMA UpdateOf ==
  ASSUME NEW q, Sequence(q), NEW k \in 1 .. Len(q), NEW w, NEW r,
         r = [q EXCEPT ![k] = w]
  PROVE  Changed(q, r, k, w)
<1>1. PICK S : ToSet(q) \subseteq S /\ w \in S
  <2>1. ToSet(q) \subseteq ToSet(q) \union {w} /\ w \in ToSet(q) \union {w}
    OBVIOUS
  <2> QED
    BY <2>1
<1>2. Sequence(q)
  OBVIOUS
<1>3. q \in Seq(S)
  BY <1>1, <1>2, WiderSequence, Zenon
<1>4. /\ r \in Seq(S) /\ Len(r) = Len(q) /\ r[k] = w
      /\ \A j \in 1 .. Len(q) : j # k => r[j] = q[j]
  BY <1>1, <1>3
<1>5. Sequence(r)
  BY <1>4, SequenceOf
<1> QED
  BY <1>4, <1>5 DEF Changed

LEMMA EmptySequence ==
  /\ Script(<<>>) /\ Sequence(<<>>) /\ Len(<<>>) = 0
  /\ \A q : Sequence(q) /\ Len(q) = 0 => q = <<>>
<1>1. Script(<<>>)
  BY CommandsAreSent, ShortScripts, Zenon
<1>2. ASSUME NEW q, Sequence(q), Len(q) = 0
      PROVE  q = <<>>
  <2>1. q \in Seq(ToSet(q))
    BY <1>2 DEF Sequence
  <2> QED
    BY <1>2, <2>1
<1>3. Len(<<>>) = 0
  OBVIOUS
<1> QED
  BY <1>1, <1>2, <1>3 DEF Script

\* The wires there are: new, with one command more, with one reply more or
\* less, and dead.
LEMMA WireOf ==
  ASSUME NEW x, Sequence(x), NEW y, Sequence(y), NEW z,
         \A i \in 1 .. Len(y) : Told(y[i])
  PROVE  LET w == [commands |-> x, replies |-> y, dead |-> z]
         IN  Wire(w) /\ w.commands = x /\ w.replies = y
BY Zenon DEF Wire

LEMMA WireParts ==
  ASSUME NEW w, Wire(w)
  PROVE  \E p, q, z :
            /\ w = [commands |-> p, replies |-> q, dead |-> z]
            /\ w.commands = p /\ w.replies = q
            /\ Sequence(p) /\ Sequence(q)
            /\ Len(p) \in Nat /\ Len(q) \in Nat
            /\ \A i \in 1 .. Len(q) : Told(q[i])
<1>1. \A q : Sequence(q) => Len(q) \in Nat
  BY AppendOf
<1> QED
  BY <1>1, Zenon DEF Wire

LEMMA NewWire ==
  ASSUME NEW w, w = [commands |-> <<>>, replies |-> <<>>, dead |-> FALSE]
  PROVE  Wire(w) /\ \A n : Carrying(w, n)
<1> DEFINE e == <<>>
<1>1. Sequence(e) /\ Len(e) = 0 /\ \A i \in 1 .. Len(e) : FALSE
  BY EmptySequence
<1>2. w = [commands |-> e, replies |-> e, dead |-> FALSE]
  OBVIOUS
<1> HIDE DEF e
<1>3. Wire(w) /\ w.commands = e /\ w.replies = e
  <2> DEFINE u == [commands |-> e, replies |-> e, dead |-> FALSE]
  <2>1. Wire(u) /\ u.commands = e /\ u.replies = e
    BY <1>1, WireOf, Zenon
  <2>2. w = u
    BY <1>2
  <2> HIDE DEF u
  <2> QED
    BY <2>1, <2>2, Zenon
<1> QED
  BY <1>1, <1>3 DEF Carrying

\* A command is appended.
LEMMA SentWire ==
  ASSUME NEW w, Wire(w), NEW m, NEW v,
         v = [w EXCEPT !.commands = Append(w.commands, m)]
  PROVE  Wire(v) /\ v.commands = Append(w.commands, m) /\ v.replies = w.replies
<1>1. PICK p, q, z :
         /\ w = [commands |-> p, replies |-> q, dead |-> z]
         /\ w.commands = p /\ w.replies = q
         /\ Sequence(p) /\ Sequence(q)
         /\ \A i \in 1 .. Len(q) : Told(q[i])
  BY WireParts, Zenon
<1>2. v = [commands |-> Append(p, m), replies |-> q, dead |-> z]
  BY <1>1, Zenon
<1>3. Sequence(Append(p, m))
  BY <1>1, AppendOf
<1>4. Wire(v) /\ v.commands = Append(p, m) /\ v.replies = q
  <2> DEFINE u == [commands |-> Append(p, m), replies |-> q, dead |-> z]
  <2>1. Wire(u) /\ u.commands = Append(p, m) /\ u.replies = q
    BY <1>1, <1>3, WireOf, Zenon
  <2>2. v = u
    BY <1>2
  <2> HIDE DEF u
  <2> QED
    BY <2>1, <2>2, Zenon
<1> QED
  BY <1>1, <1>4, Zenon

\* The first reply is taken, or two.
LEMMA ReadWire ==
  ASSUME NEW w, Wire(w), NEW n \in 1 .. Len(w.replies), NEW v,
         v = [w EXCEPT !.replies = SubSeq(w.replies, n + 1, Len(w.replies))]
  PROVE  /\ Wire(v) /\ v.commands = w.commands
         /\ Len(v.replies) = Len(w.replies) - n
<1>1. PICK p, q, z :
         /\ w = [commands |-> p, replies |-> q, dead |-> z]
         /\ w.commands = p /\ w.replies = q
         /\ Sequence(p) /\ Sequence(q)
         /\ \A i \in 1 .. Len(q) : Told(q[i])
  BY WireParts, Zenon
<1> DEFINE y == SubSeq(q, n + 1, Len(q))
<1>2. v = [commands |-> p, replies |-> y, dead |-> z] /\ n \in 1 .. Len(q)
  BY <1>1, Zenon
<1>3. PICK S : q \in Seq(S)
  BY <1>1 DEF Sequence
<1>4. /\ y \in Seq(S) /\ Len(y) = Len(q) - n
      /\ \A i \in 1 .. Len(y) : y[i] = q[i + n] /\ i + n \in 1 .. Len(q)
  <2>1. n \in 1 .. Len(q) /\ Len(q) \in Nat
    BY <1>2, <1>3
  <2>2. y \in Seq(S) /\ Len(y) = Len(q) - n
    BY <1>3, <2>1
  <2>3. \A i \in 1 .. Len(q) - n : y[i] = q[i + n]
    BY <1>3, <2>1
  <2> HIDE DEF y
  <2> QED
    BY <2>1, <2>2, <2>3
<1> HIDE DEF y
<1>5. Sequence(y) /\ \A i \in 1 .. Len(y) : Told(y[i])
  BY <1>1, <1>4, SequenceOf
<1>6. Wire(v) /\ v.commands = p /\ v.replies = y
  <2> DEFINE u == [commands |-> p, replies |-> y, dead |-> z]
  <2>1. Wire(u) /\ u.commands = p /\ u.replies = y
    BY <1>1, <1>5, WireOf, Zenon
  <2>2. v = u
    BY <1>2
  <2> HIDE DEF u
  <2> QED
    BY <2>1, <2>2, Zenon
<1> QED
  BY <1>1, <1>4, <1>6, Zenon

\* The store answers a command: one command less, one reply more.
LEMMA ServedWire ==
  ASSUME NEW w, Wire(w), w.commands # <<>>, NEW a, Told(a), NEW v,
         v = [w EXCEPT !.commands = Tail(w.commands),
                       !.replies = Append(w.replies, a)]
  PROVE  /\ Wire(v)
         /\ \A n : Carrying(w, n) /\ a.of = Head(w.commands).of => Carrying(v, n)
<1>1. PICK p, q, z :
         /\ w = [commands |-> p, replies |-> q, dead |-> z]
         /\ w.commands = p /\ w.replies = q
         /\ Sequence(p) /\ Sequence(q)
         /\ \A i \in 1 .. Len(q) : Told(q[i])
  BY WireParts, Zenon
<1> DEFINE x == Tail(p)
           y == Append(q, a)
<1>2. v = [commands |-> x, replies |-> y, dead |-> z]
  BY <1>1, Zenon
<1>3. p # <<>>
  BY <1>1, Zenon
<1>4. /\ Sequence(x) /\ Sequence(y)
      /\ Len(p) \in Nat \ {0} /\ Len(q) \in Nat
      /\ Len(x) = Len(p) - 1 /\ Len(y) = Len(q) + 1
      /\ Head(p) = p[1]
      /\ \A i \in 1 .. Len(p) - 1 : x[i] = p[i + 1]
      /\ y[Len(q) + 1] = a
      /\ \A i \in 1 .. Len(q) : y[i] = q[i]
  BY <1>1, <1>3, TailOf, AppendOf
<1> HIDE DEF x, y
<1>5. \A i \in 1 .. Len(y) : i \in 1 .. Len(q) \/ i = Len(q) + 1
  BY <1>4
<1>6. \A i \in 1 .. Len(y) : Told(y[i])
  BY <1>1, <1>4, <1>5
<1>7. Wire(v) /\ v.commands = x /\ v.replies = y
  <2> DEFINE u == [commands |-> x, replies |-> y, dead |-> z]
  <2>1. Wire(u) /\ u.commands = x /\ u.replies = y
    BY <1>1, <1>4, <1>6, WireOf, Zenon
  <2>2. v = u
    BY <1>2
  <2> HIDE DEF u
  <2> QED
    BY <2>1, <2>2, Zenon
<1>8. ASSUME NEW n, Carrying(w, n), a.of = Head(w.commands).of
      PROVE  Carrying(v, n)
  <2>1. /\ Len(p) + Len(q) <= 1
        /\ \A i \in 1 .. Len(p) : Waits(p[i].of, n)
        /\ a.of = Head(p).of
    BY <1>1, <1>8, Zenon DEF Carrying
  <2>2. Len(p) = 1 /\ Len(q) = 0 /\ Len(x) = 0 /\ Len(y) = 1
    <3>1. Len(p) + Len(q) <= 1
      BY <2>1
    <3> QED
      BY <1>4, <3>1
  <2>3. y[1] = a /\ 1 \in 1 .. Len(p) /\ Head(p) = p[1]
    BY <1>4, <2>2
  <2>4. Waits(y[1].of, n)
    BY <2>1, <2>3, Zenon
  <2>5. /\ \A i \in 1 .. Len(x) : FALSE
        /\ \A i \in 1 .. Len(y) : i = 1
        /\ Len(x) + Len(y) <= 1
    BY <2>2
  <2> QED
    BY <1>7, <2>4, <2>5, Zenon DEF Carrying
<1> QED
  BY <1>7, <1>8

\* The server has died: no commands.
LEMMA DeadWire ==
  ASSUME NEW w, Wire(w), NEW v,
         v = [w EXCEPT !.dead = TRUE, !.commands = <<>>]
  PROVE  Wire(v) /\ \A n : Carrying(w, n) => Carrying(v, n)
<1>1. PICK p, q, z :
         /\ w = [commands |-> p, replies |-> q, dead |-> z]
         /\ w.commands = p /\ w.replies = q
         /\ Sequence(p) /\ Sequence(q)
         /\ Len(p) \in Nat /\ Len(q) \in Nat
         /\ \A i \in 1 .. Len(q) : Told(q[i])
  BY WireParts, Zenon
<1> DEFINE e == <<>>
<1>2. v = [commands |-> e, replies |-> q, dead |-> TRUE]
  BY <1>1, Zenon
<1>3. Sequence(e) /\ Len(e) = 0 /\ \A i \in 1 .. Len(e) : FALSE
  BY EmptySequence
<1> HIDE DEF e
<1>4. Wire(v) /\ v.commands = e /\ v.replies = q
  <2> DEFINE u == [commands |-> e, replies |-> q, dead |-> TRUE]
  <2>1. Wire(u) /\ u.commands = e /\ u.replies = q
    BY <1>1, <1>3, WireOf, Zenon
  <2>2. v = u
    BY <1>2
  <2> HIDE DEF u
  <2> QED
    BY <2>1, <2>2, Zenon
<1>5. ASSUME NEW n, Carrying(w, n)
      PROVE  Carrying(v, n)
  <2>1. Len(p) + Len(q) <= 1 /\ \A i \in 1 .. Len(q) : Waits(q[i].of, n)
    BY <1>1, <1>5, Zenon DEF Carrying
  <2>2. Len(e) + Len(q) <= 1
    BY <1>1, <1>3, <2>1
  <2> QED
    BY <1>3, <1>4, <2>1, <2>2, Zenon DEF Carrying
<1> QED
  BY <1>4, <1>5

\* Nothing is in flight on a new connection.
Empty(w) == Len(w.commands) = 0 /\ Len(w.replies) = 0

LEMMA EmptyCarries ==
  ASSUME NEW w, Empty(w), NEW n
  PROVE  Carrying(w, n) /\ Carrying(w, n)'
<1>1. PICK p, q : p = w.commands /\ q = w.replies
  BY Zenon
<1>2. Len(p) = 0 /\ Len(q) = 0
  BY <1>1, Zenon DEF Empty
<1>3. /\ Len(p) + Len(q) <= 1
      /\ \A i \in 1 .. Len(p) : FALSE
      /\ \A i \in 1 .. Len(q) : FALSE
  BY <1>2
<1> QED
  BY <1>1, <1>3, Zenon DEF Carrying

\* Who waited still does: what is in flight on a connection may stay.
LEMMA StillCarrying ==
  ASSUME NEW w, NEW n, Carrying(w, n),
         \A c \in Conn : Waits(c, n) => Waits(c, n)'
  PROVE  Carrying(w, n)'
<1>1. \A c : Waits(c, n) => Waits(c, n)'
  BY DEF Waits
<1> QED
  BY <1>1, Zenon DEF Carrying

LEMMA InFlightAfter ==
  ASSUME ASSUME NEW n \in Index \ collided', backend_socks'[n] # NoConnection
         PROVE  \E w : w = sockets'[backend_socks'[n]] /\ Carrying(w, n)'
  PROVE  OneInFlight'
<1> SUFFICES ASSUME NEW n \in Index \ collided', backend_socks'[n] # NoConnection
             PROVE  Carrying(sockets[backend_socks[n]], n)'
  BY DEF OneInFlight
<1>1. PICK w : w = sockets'[backend_socks'[n]] /\ Carrying(w, n)'
  OBVIOUS
<1> QED
  BY <1>1, Zenon DEF Carrying

LEMMA FlightKept ==
  ASSUME OneInFlight, UNCHANGED <<backend_socks, sockets>>,
         collided \subseteq collided',
         ASSUME NEW n \in Index \ collided', NEW c \in Conn, Waits(c, n)
         PROVE  Waits(c, n)'
  PROVE  OneInFlight'
<1>1. SUFFICES ASSUME NEW n \in Index \ collided', backend_socks'[n] # NoConnection
               PROVE  \E w : w = sockets'[backend_socks'[n]] /\ Carrying(w, n)'
  BY InFlightAfter
<1>2. PICK w : w = sockets[backend_socks[n]]
  OBVIOUS
<1>3. Carrying(w, n)
  BY <1>1, <1>2 DEF OneInFlight
<1> QED
  BY <1>1, <1>2, <1>3, StillCarrying

-----------------------------------------------------------------------------
(* Every step keeps the invariant of the requests.                         *)

\* A thread begins to be or ceases, without a command or a reply to come.
LEMMA LifeKeepsRequestInv ==
  ASSUME RequestInv, UNCHANGED <<threadVars, storeVars, collided>>,
         \A c \in Conn :
            \/ pc'[c] = pc[c]
            \/ /\ pc'[c] # "running" /\ todo[c] = <<>> /\ awaiting[c] = Idle
               /\ \/ pc'[c] \notin {"queued", "accepted", "created"}
                  \/ pc[c] \in {"queued", "accepted", "created"}
  PROVE  RequestInv'
<1>1. UNCHANGED <<number, todo, awaiting, response, backend_socks, sockets, store>>
  BY DEF threadVars, storeVars
<1>2. ThreadTypes' /\ StoreTypes' /\ OneConnectionEach'
  BY <1>1 DEF RequestInv, ThreadTypes, StoreTypes, OneConnectionEach
<1>3. Quiet' /\ OwnReplies'
  BY <1>1 DEF RequestInv, Quiet, OwnReplies
<1>4. OneNumberEach'
  BY <1>1 DEF RequestInv, OneNumberEach
<1>5. OneInFlight'
  <2>1. ASSUME NEW n \in Index \ collided', NEW c \in Conn, Waits(c, n)
        PROVE  Waits(c, n)'
    BY <1>1, <2>1 DEF Waits
  <2> QED
    BY <1>1, <2>1, FlightKept DEF RequestInv
<1> QED
  BY <1>2, <1>3, <1>4, <1>5 DEF RequestInv

\* The counter is an index, whatever updates were lost.
LEMMA CounterIsIndex ==
  ASSUME LoopInv
  PROVE  num_client \in Index
<1>1. Gone \subseteq Conn
  BY DEF Gone, Among
<1>2. Cardinality(Gone) <= Cardinality(Conn)
  BY <1>1, FiniteSets, FS_Subset
<1> QED
  BY <1>2, CountsAreNatural, FiniteSets
     DEF LoopInv, LoopTypes, InBounds, Index

LEMMA StartKeepsRequestInv ==
  ASSUME LoopInv, RequestInv, NEW c \in Conn, ThreadStart(c)
  PROVE  RequestInv'
<1>1. /\ pc[c] = "created" /\ pc' = [pc EXCEPT ![c] = "running"]
      /\ number' = [number EXCEPT ![c] = num_client]
      /\ collided' = IF \E d \in Conn : pc[d] = "running" /\ number[d] = num_client
                     THEN collided \union {num_client} ELSE collided
      /\ UNCHANGED <<todo, awaiting, response, backend_socks, sockets, store>>
      /\ pc \in [Conn -> Label] /\ number \in [Conn -> Index]
  BY DEF ThreadStart, Goes, storeVars, LoopInv, LoopTypes, RequestInv, ThreadTypes
<1>2. /\ pc'[c] = "running" /\ number'[c] = num_client
      /\ \A d \in Conn : d # c => pc'[d] = pc[d] /\ number'[d] = number[d]
      /\ collided \subseteq collided'
      /\ num_client \in collided' \/
            \A d \in Conn : ~(pc[d] = "running" /\ number[d] = num_client)
  BY <1>1
<1>3. ThreadTypes' /\ StoreTypes' /\ OneConnectionEach'
  BY <1>1, CounterIsIndex
     DEF RequestInv, ThreadTypes, StoreTypes, OneConnectionEach
<1>4. Quiet'
  BY <1>1, <1>2 DEF RequestInv, Quiet
<1>5. OwnReplies'
  BY <1>1, <1>2 DEF RequestInv, Quiet, OwnReplies
<1>6. OneNumberEach'
  BY <1>2 DEF RequestInv, OneNumberEach
<1>7. OneInFlight'
  <2>1. ASSUME NEW n \in Index \ collided', NEW d \in Conn, Waits(d, n)
        PROVE  Waits(d, n)'
    BY <1>1, <1>2, <2>1 DEF Waits
  <2> QED
    BY <1>1, <1>2, <2>1, FlightKept DEF RequestInv
<1> QED
  BY <1>3, <1>4, <1>5, <1>6, <1>7 DEF RequestInv

\* A step of thread c between its requests and the store. What of the invariant
\* is about threads alone: the replies it reads must be its own.
LEMMA ThreadPart ==
  ASSUME RequestInv, NEW c \in Conn, pc[c] = "running",
         UNCHANGED <<pc, number, collided>>,
         DOMAIN todo' = Conn, DOMAIN awaiting' = Conn, DOMAIN response' = Conn,
         Script(todo'[c]),
         \A d \in Conn : d # c => /\ todo'[d] = todo[d]
                                  /\ awaiting'[d] = awaiting[d]
                                  /\ response'[d] = response[d],
         \/ response'[c].of \in {response[c].of, c, "none"}
         \/ number[c] \in collided
  PROVE  ThreadTypes' /\ Quiet' /\ OneNumberEach' /\ OwnReplies'
<1>1. ThreadTypes'
  BY DEF RequestInv, ThreadTypes
<1>2. Quiet'
  BY DEF RequestInv, Quiet
<1>3. OneNumberEach'
  BY DEF RequestInv, OneNumberEach
<1>4. OwnReplies'
  BY DEF RequestInv, OwnReplies
<1> QED
  BY <1>1, <1>2, <1>3, <1>4

\* What of it is about the store alone, when the threads have no new connection.
LEMMA StorePart ==
  ASSUME RequestInv, UNCHANGED backend_socks, Sequence(sockets'),
         Len(sockets') = Len(sockets),
         \A k \in 1 .. Len(sockets) : Wire(sockets'[k]),
         IsFiniteSet(DOMAIN store')
  PROVE  StoreTypes' /\ OneConnectionEach'
<1>1. StoreTypes'
  BY DEF RequestInv, StoreTypes
<1>2. OneConnectionEach'
  BY DEF RequestInv, OneConnectionEach
<1> QED
  BY <1>1, <1>2

LEMMA BeginKeepsRequestInv ==
  ASSUME LoopInv, RequestInv, NEW c \in Conn, Begin(c)
  PROVE  RequestInv'
<1>1. PICK r, u :
         /\ pc[c] = "running"
         /\ todo' = [todo EXCEPT ![c] =
               Operation(r, u) \o IF Allowed(c) THEN Page(r, u) ELSE <<>>]
         /\ UNCHANGED <<pc, number, awaiting, response, collided,
                        backend_socks, sockets, store>>
  BY Zenon DEF Begin, Resting, storeVars
<1> DEFINE script == Operation(r, u) \o IF Allowed(c) THEN Page(r, u) ELSE <<>>
<1>2. Script(script)
  <2>1. Script(Operation(r, u)) /\ Script(Page(r, u)) /\ Script(<<>>)
    BY OperationIsScript, PageIsScript, EmptySequence
  <2>2. Script(IF Allowed(c) THEN Page(r, u) ELSE <<>>)
    BY <2>1, Zenon
  <2> QED
    BY <2>1, <2>2, ScriptConcat, Zenon
<1> HIDE DEF script
<1>3. /\ DOMAIN todo = Conn /\ DOMAIN awaiting = Conn /\ DOMAIN response = Conn
      /\ todo' = [todo EXCEPT ![c] = script]
  BY <1>1 DEF RequestInv, ThreadTypes, script
<1>4. /\ DOMAIN todo' = Conn /\ todo'[c] = script
      /\ \A d \in Conn : d # c => todo'[d] = todo[d]
  BY <1>3, Update
<1>5. ThreadTypes' /\ Quiet' /\ OneNumberEach' /\ OwnReplies'
  BY <1>1, <1>2, <1>3, <1>4, ThreadPart
<1>6. StoreTypes' /\ OneConnectionEach'
  BY <1>1 DEF RequestInv, StoreTypes, OneConnectionEach
<1>7. OneInFlight'
  <2>1. ASSUME NEW n \in Index \ collided', NEW d \in Conn, Waits(d, n)
        PROVE  Waits(d, n)'
    BY <1>1, <2>1 DEF Waits
  <2> QED
    BY <1>1, <2>1, FlightKept DEF RequestInv
<1> QED
  BY <1>5, <1>6, <1>7 DEF RequestInv

\* A new connection takes the place of the one that number n had.
LEMMA NewConnection ==
  ASSUME RequestInv, NEW n \in Index, Connected(n), UNCHANGED store
  PROVE  /\ StoreTypes' /\ OneConnectionEach'
         /\ \A m \in Index : backend_socks'[m] # NoConnection =>
               \E w : /\ w = sockets'[backend_socks'[m]]
                      /\ \/ m = n /\ Empty(w)
                         \/ /\ m # n /\ backend_socks[m] # NoConnection
                            /\ w = sockets[backend_socks[m]]
<1>1. PICK v : v = [commands |-> <<>>, replies |-> <<>>, dead |-> FALSE]
  OBVIOUS
<1>2. Wire(v) /\ Empty(v)
  <2> DEFINE e == <<>>
  <2>1. v.commands = e /\ v.replies = e
    BY <1>1, Zenon
  <2>2. Len(e) = 0
    OBVIOUS
  <2> HIDE DEF e
  <2>3. Empty(v)
    BY <2>1, <2>2, Zenon DEF Empty
  <2> QED
    BY <1>1, <2>3, NewWire
<1>3. /\ sockets' = Append(sockets, v)
      /\ backend_socks' = [backend_socks EXCEPT ![n] = Len(sockets) + 1]
  BY <1>1 DEF Connected
<1>4. /\ backend_socks \in [Index -> 0 .. Len(sockets)]
      /\ Sequence(sockets) /\ \A k \in 1 .. Len(sockets) : Wire(sockets[k])
      /\ IsFiniteSet(DOMAIN store)
  BY DEF RequestInv, StoreTypes
<1>5. /\ Sequence(sockets') /\ Len(sockets') = Len(sockets) + 1
      /\ Len(sockets) \in Nat
      /\ sockets'[Len(sockets) + 1] = v
      /\ \A k \in 1 .. Len(sockets) : sockets'[k] = sockets[k]
  BY <1>3, <1>4, AppendOf
<1>6. /\ backend_socks' \in [Index -> 0 .. Len(sockets')]
      /\ backend_socks'[n] = Len(sockets) + 1
      /\ \A m \in Index : m # n => backend_socks'[m] = backend_socks[m]
      /\ \A m \in Index : backend_socks[m] \in 0 .. Len(sockets)
  BY <1>3, <1>4, <1>5
<1>7. \A k \in 1 .. Len(sockets') : Wire(sockets'[k])
  <2>1. ASSUME NEW k \in 1 .. Len(sockets')
        PROVE  k \in 1 .. Len(sockets) \/ k = Len(sockets) + 1
    BY <1>5
  <2> QED
    BY <1>2, <1>4, <1>5, <2>1
<1>8. StoreTypes'
  BY <1>4, <1>5, <1>6, <1>7 DEF StoreTypes
<1>9. OneConnectionEach'
  BY <1>5, <1>6 DEF RequestInv, OneConnectionEach, NoConnection
<1>10. ASSUME NEW m \in Index, backend_socks'[m] # NoConnection
       PROVE  \E w : /\ w = sockets'[backend_socks'[m]]
                     /\ \/ m = n /\ Empty(w)
                        \/ /\ m # n /\ backend_socks[m] # NoConnection
                           /\ w = sockets[backend_socks[m]]
  <2>1. CASE m = n
    BY <1>2, <1>5, <1>6, <2>1
  <2>2. CASE m # n
    <3>1. /\ backend_socks'[m] = backend_socks[m]
          /\ backend_socks[m] \in 1 .. Len(sockets)
      BY <1>5, <1>6, <1>10, <2>2 DEF NoConnection
    <3> QED
      BY <1>5, <1>10, <2>2, <3>1
  <2> QED
    BY <2>1, <2>2
<1> QED
  BY <1>8, <1>9, <1>10

\* Thread c has or gets a new connection, and the others wait on.
LEMMA FlightRenewed ==
  ASSUME RequestInv, NEW c \in Conn, Connected(number[c]),
         UNCHANGED <<pc, number, collided, store>>,
         \A d \in Conn : d # c => awaiting'[d] = awaiting[d]
  PROVE  StoreTypes' /\ OneConnectionEach' /\ OneInFlight'
<1>1. PICK n \in Index : n = number[c]
  BY DEF RequestInv, ThreadTypes
<1>2. Connected(n)
  BY <1>1 DEF Connected
<1>3. OneInFlight'
  <2>1. SUFFICES ASSUME NEW m \in Index \ collided', backend_socks'[m] # NoConnection
                 PROVE  \E w : w = sockets'[backend_socks'[m]] /\ Carrying(w, m)'
    BY InFlightAfter
  <2>2. PICK w : /\ w = sockets'[backend_socks'[m]]
                 /\ \/ m = n /\ Empty(w)
                    \/ /\ m # n /\ backend_socks[m] # NoConnection
                       /\ w = sockets[backend_socks[m]]
    BY <1>2, <2>1, NewConnection
  <2>3. CASE Empty(w)
    BY <2>2, <2>3, EmptyCarries
  <2>4. CASE m # n /\ backend_socks[m] # NoConnection /\ w = sockets[backend_socks[m]]
    <3>1. Carrying(w, m)
      BY <2>1, <2>4 DEF RequestInv, OneInFlight
    <3>2. \A d \in Conn : Waits(d, m) => Waits(d, m)'
      BY <1>1, <2>4 DEF Waits
    <3> QED
      BY <2>2, <3>1, <3>2, StillCarrying
  <2> QED
    BY <2>2, <2>3, <2>4
<1> QED
  BY <1>2, <1>3, NewConnection

LEMMA ConnectKeepsRequestInv ==
  ASSUME RequestInv, NEW c \in Conn, ConnectToBackend(c)
  PROVE  RequestInv'
<1>1. /\ Connected(number[c]) \/ UNCHANGED <<sockets, backend_socks>>
      /\ todo[c] # <<>> /\ todo' = [todo EXCEPT ![c] = Tail(todo[c])]
      /\ UNCHANGED <<pc, number, awaiting, response, store, collided>>
  BY DEF ConnectToBackend, NotConnected
<1>2. /\ DOMAIN todo = Conn /\ DOMAIN awaiting = Conn /\ DOMAIN response = Conn
      /\ Script(todo[c]) /\ pc[c] = "running"
  BY <1>1 DEF RequestInv, ThreadTypes, Quiet
<1>3. Script(Tail(todo[c]))
  BY <1>1, <1>2, ScriptTail
<1>4. /\ DOMAIN todo' = Conn /\ todo'[c] = Tail(todo[c])
      /\ \A d \in Conn : d # c => todo'[d] = todo[d]
  BY <1>1, <1>2, Update
<1>5. ThreadTypes' /\ Quiet' /\ OneNumberEach' /\ OwnReplies'
  BY <1>1, <1>2, <1>3, <1>4, ThreadPart
<1>6. CASE Connected(number[c])
  BY <1>1, <1>5, <1>6, FlightRenewed DEF RequestInv
<1>7. CASE UNCHANGED <<sockets, backend_socks>>
  <2>1. StoreTypes' /\ OneConnectionEach'
    BY <1>1, <1>7 DEF RequestInv, StoreTypes, OneConnectionEach
  <2>2. ASSUME NEW n \in Index \ collided', NEW d \in Conn, Waits(d, n)
        PROVE  Waits(d, n)'
    BY <1>1, <2>2 DEF Waits
  <2>3. OneInFlight'
    BY <1>1, <1>7, <2>2, FlightKept DEF RequestInv
  <2> QED
    BY <1>5, <2>1, <2>3 DEF RequestInv
<1> QED
  BY <1>1, <1>6, <1>7

\* While a thread does not wait, and has its number alone, nothing is in flight.
LEMMA NothingInFlight ==
  ASSUME RequestInv, NEW c \in Conn, pc[c] = "running", awaiting[c] = Idle,
         NEW n, n = number[c], n \notin collided,
         NEW w, Carrying(w, n), Wire(w)
  PROVE  Empty(w)
<1>1. PICK p, q, z :
         /\ w = [commands |-> p, replies |-> q, dead |-> z]
         /\ w.commands = p /\ w.replies = q
         /\ Len(p) \in Nat /\ Len(q) \in Nat
  BY WireParts, Zenon
<1>2. \A d : ~Waits(d, n)
  BY DEF RequestInv, OneNumberEach, Waits
<1>3. /\ \A i \in 1 .. Len(p) : FALSE
      /\ \A i \in 1 .. Len(q) : FALSE
  BY <1>1, <1>2, Zenon DEF Carrying
<1>4. Len(p) = 0 /\ Len(q) = 0
  <2>1. Len(p) # 0 => 1 \in 1 .. Len(p)
    BY <1>1
  <2>2. Len(q) # 0 => 1 \in 1 .. Len(q)
    BY <1>1
  <2> QED
    BY <1>3, <2>1, <2>2
<1> QED
  BY <1>1, <1>4, Zenon DEF Empty

\* The only command in flight on a connection is the one that is sent.
LEMMA OneSent ==
  ASSUME NEW w, Wire(w), Empty(w), NEW m, NEW n, Waits(m.of, n)', NEW v,
         v.commands = Append(w.commands, m), v.replies = w.replies
  PROVE  Carrying(v, n)'
<1>1. PICK p, q, z :
         /\ w = [commands |-> p, replies |-> q, dead |-> z]
         /\ w.commands = p /\ w.replies = q
         /\ Sequence(p) /\ Sequence(q)
         /\ Len(p) \in Nat /\ Len(q) \in Nat
  BY WireParts, Zenon
<1>2. Len(p) = 0 /\ Len(q) = 0
  BY <1>1, Zenon DEF Empty
<1> DEFINE x == Append(p, m)
<1>3. Len(x) = 1 /\ x[1] = m
  BY <1>1, <1>2, AppendOf
<1>4. v.commands = x /\ v.replies = q
  BY <1>1, Zenon
<1> HIDE DEF x
<1>5. /\ Len(x) + Len(q) <= 1
      /\ \A i \in 1 .. Len(x) : i = 1
      /\ \A i \in 1 .. Len(q) : FALSE
  BY <1>2, <1>3
<1> QED
  BY <1>3, <1>4, <1>5, Zenon DEF Carrying

\* What is on the connection of number n changes, and the others wait on.
LEMMA FlightChanged ==
  ASSUME RequestInv, NEW n \in Index, NEW j \in 1 .. Len(sockets),
         j = backend_socks[n], NEW v, Wire(v), Changed(sockets, sockets', j, v),
         UNCHANGED <<pc, number, collided, backend_socks, store>>,
         \A d \in Conn : number[d] # n => awaiting'[d] = awaiting[d],
         n \notin collided => Carrying(v, n)'
  PROVE  StoreTypes' /\ OneConnectionEach' /\ OneInFlight'
<1>1. /\ Sequence(sockets') /\ Len(sockets') = Len(sockets) /\ sockets'[j] = v
      /\ \A i \in 1 .. Len(sockets) : i # j => sockets'[i] = sockets[i]
  BY DEF Changed
<1>2. StoreTypes' /\ OneConnectionEach'
  <2>1. \A i \in 1 .. Len(sockets) : Wire(sockets'[i])
    BY <1>1 DEF RequestInv, StoreTypes
  <2>2. IsFiniteSet(DOMAIN store')
    BY DEF RequestInv, StoreTypes
  <2> QED
    BY <1>1, <2>1, <2>2, StorePart
<1>3. OneInFlight'
  <2>1. SUFFICES ASSUME NEW i \in Index \ collided', backend_socks'[i] # NoConnection
                 PROVE  \E w : w = sockets'[backend_socks'[i]] /\ Carrying(w, i)'
    BY InFlightAfter
  <2>2. /\ backend_socks'[i] = backend_socks[i] /\ i \notin collided
        /\ backend_socks[i] # NoConnection
        /\ Carrying(sockets[backend_socks[i]], i)
    BY <2>1 DEF RequestInv, OneInFlight
  <2>3. CASE i = n
    BY <1>1, <2>2, <2>3
  <2>4. CASE i # n
    <3>1. backend_socks[i] # j /\ backend_socks[i] \in 1 .. Len(sockets)
      <4>1. backend_socks[i] # j
        BY <2>2, <2>4 DEF RequestInv, OneConnectionEach
      <4>2. backend_socks[i] \in 0 .. Len(sockets)
        BY DEF RequestInv, StoreTypes
      <4> QED
        BY <2>2, <4>1, <4>2 DEF NoConnection
    <3>2. PICK x : x = sockets[backend_socks[i]]
      OBVIOUS
    <3>3. x = sockets'[backend_socks'[i]] /\ Carrying(x, i)
      BY <1>1, <2>2, <3>1, <3>2
    <3>4. \A d \in Conn : Waits(d, i) => Waits(d, i)'
      BY <2>4 DEF Waits
    <3> QED
      BY <3>3, <3>4, StillCarrying
  <2> QED
    BY <2>3, <2>4
<1> QED
  BY <1>2, <1>3

\* The connection of a number.
LEMMA ConnectionOf ==
  ASSUME RequestInv, NEW n \in Index, backend_socks[n] # NoConnection
  PROVE  /\ backend_socks[n] \in 1 .. Len(sockets)
         /\ Wire(sockets[backend_socks[n]]) /\ Sequence(sockets)
<1>1. /\ Sequence(sockets) /\ backend_socks[n] \in 0 .. Len(sockets)
      /\ \A k \in 1 .. Len(sockets) : Wire(sockets[k])
  BY DEF RequestInv, StoreTypes
<1>2. Len(sockets) \in Nat
  BY <1>1, AppendOf
<1>3. backend_socks[n] \in 1 .. Len(sockets)
  BY <1>1, <1>2 DEF NoConnection
<1> QED
  BY <1>1, <1>3

LEMMA SendKeepsRequestInv ==
  ASSUME RequestInv, NEW c \in Conn, SendCommand(c)
  PROVE  RequestInv'
<1> DEFINE n == number[c]
           k == backend_socks[n]
<1>1. /\ awaiting[c] = Idle /\ todo[c] # <<>>
      /\ awaiting' = [awaiting EXCEPT ![c] = Upcoming(c)]
      /\ todo' = [todo EXCEPT ![c] = Tail(todo[c])]
      /\ UNCHANGED <<pc, number, response, store, collided>>
  BY DEF SendCommand
<1>2. /\ DOMAIN todo = Conn /\ DOMAIN awaiting = Conn /\ DOMAIN response = Conn
      /\ Script(todo[c]) /\ pc[c] = "running"
      /\ n \in Index /\ k \in 0 .. Len(sockets)
  BY <1>1 DEF RequestInv, ThreadTypes, StoreTypes, Quiet
<1>3. Script(Tail(todo[c])) /\ Sent(Upcoming(c))
  BY <1>1, <1>2, ScriptTail DEF Upcoming
<1>4. /\ DOMAIN todo' = Conn /\ todo'[c] = Tail(todo[c])
      /\ \A d \in Conn : d # c => todo'[d] = todo[d]
  BY <1>1, <1>2, Update
<1>5. /\ DOMAIN awaiting' = Conn /\ awaiting'[c] = Upcoming(c)
      /\ \A d \in Conn : d # c => awaiting'[d] = awaiting[d]
  BY <1>1, <1>2, Update
<1>6. awaiting'[c] # Idle
  BY <1>3, <1>5, CommandsAreSent
<1>7. ThreadTypes' /\ Quiet' /\ OneNumberEach' /\ OwnReplies'
  BY <1>1, <1>2, <1>3, <1>4, <1>5, ThreadPart
<1>8. CASE Connected(n)
  BY <1>1, <1>5, <1>7, <1>8, FlightRenewed DEF RequestInv
<1>9. CASE UNCHANGED <<sockets, backend_socks>>
  <2>1. StoreTypes' /\ OneConnectionEach'
    BY <1>1, <1>9 DEF RequestInv, StoreTypes, OneConnectionEach
  <2>2. ASSUME NEW m \in Index \ collided', NEW d \in Conn, Waits(d, m)
        PROVE  Waits(d, m)'
    BY <1>1, <1>5, <2>2 DEF Waits
  <2>3. OneInFlight'
    BY <1>1, <1>9, <2>2, FlightKept DEF RequestInv
  <2> QED
    BY <1>7, <2>1, <2>3 DEF RequestInv
<1>10. CASE /\ k # NoConnection /\ UNCHANGED backend_socks
            /\ sockets' = [sockets EXCEPT ![k].commands = Append(@, Message(c))]
  <2>1. PICK j \in 1 .. Len(sockets) : j = k /\ Wire(sockets[j])
    BY <1>2, <1>10, ConnectionOf
  <2>2. PICK w, m, v : /\ w = sockets[j] /\ m = Message(c)
                       /\ v = [w EXCEPT !.commands = Append(w.commands, m)]
    OBVIOUS
  <2>3. m.of = c
    BY <2>2, Zenon DEF Message
  <2>4. sockets' = [sockets EXCEPT ![j] = v]
    BY <1>10, <2>1, <2>2, Zenon
  <2>5. Changed(sockets, sockets', j, v)
    <3>1. Sequence(sockets)
      BY DEF RequestInv, StoreTypes
    <3> QED
      BY <2>4, <3>1, UpdateOf, Zenon
  <2>6. Wire(w)
    BY <2>1, <2>2, Zenon
  <2>7. Wire(v) /\ v.commands = Append(w.commands, m) /\ v.replies = w.replies
    <3>1. v = [w EXCEPT !.commands = Append(w.commands, m)]
      BY <2>2
    <3> QED
      BY <2>6, <3>1, SentWire, Zenon
  <2>8. PICK h \in Index : h = n
    BY <1>2
  <2>9. ASSUME h \notin collided
        PROVE  Carrying(v, h)'
    <3>1. Carrying(w, h)
      BY <1>10, <2>1, <2>2, <2>8, <2>9, Zenon DEF RequestInv, OneInFlight
    <3>2. Empty(w)
      BY <1>1, <1>2, <2>6, <2>8, <2>9, <3>1, NothingInFlight
    <3>3. Waits(c, h)'
      BY <1>1, <1>2, <1>6, <2>8 DEF Waits
    <3> QED
      BY <2>3, <2>6, <2>7, <3>2, <3>3, OneSent
  <2>10. \A d \in Conn : number[d] # h => awaiting'[d] = awaiting[d]
    BY <1>5, <2>8
  <2>11. StoreTypes' /\ OneConnectionEach' /\ OneInFlight'
    BY <1>1, <1>10, <2>1, <2>5, <2>7, <2>8, <2>9, <2>10, FlightChanged
  <2> QED
    BY <1>7, <2>11 DEF RequestInv
<1>11. \/ Connected(n) \/ UNCHANGED <<sockets, backend_socks>>
       \/ /\ k # NoConnection /\ UNCHANGED backend_socks
          /\ sockets' = [sockets EXCEPT ![k].commands = Append(@, Message(c))]
  BY DEF SendCommand, NotConnected
<1> QED
  BY <1>8, <1>9, <1>10, <1>11

\* A thread goes on with a reply.
LEMMA GoingOn ==
  ASSUME RequestInv, NEW c \in Conn, pc[c] = "running",
         UNCHANGED <<pc, number, collided>>, NEW a, Told(a),
         NEW r, NEW u,
         awaiting' = [awaiting EXCEPT ![c] = Idle],
         response' = [response EXCEPT ![c] = a],
         todo' = [todo EXCEPT ![c] =
            IF awaiting[c].value = "each" /\ a # Silence
            THEN Each(r, u, a.keys) \o todo[c] ELSE todo[c]],
         a.of \in {c, "none"} \/ number[c] \in collided
  PROVE  /\ ThreadTypes' /\ Quiet' /\ OneNumberEach' /\ OwnReplies'
         /\ \A d \in Conn : d # c => awaiting'[d] = awaiting[d]
<1> DEFINE rest == IF awaiting[c].value = "each" /\ a # Silence
                   THEN Each(r, u, a.keys) \o todo[c] ELSE todo[c]
<1>2. /\ DOMAIN todo = Conn /\ DOMAIN awaiting = Conn /\ DOMAIN response = Conn
      /\ Script(todo[c])
  BY DEF RequestInv, ThreadTypes
<1>3. Script(rest)
  <2>1. Script(Each(r, u, a.keys))
    BY EachIsScript, Zenon DEF Told
  <2>2. Script(Each(r, u, a.keys) \o todo[c])
    BY <1>2, <2>1, ScriptConcat, Zenon
  <2> QED
    BY <1>2, <2>2, Zenon
<1>4. todo' = [todo EXCEPT ![c] = rest]
  OBVIOUS
<1> HIDE DEF rest
<1>5. /\ DOMAIN todo' = Conn /\ todo'[c] = rest
      /\ \A d \in Conn : d # c => todo'[d] = todo[d]
  BY <1>2, <1>4, Update
<1>6. /\ DOMAIN awaiting' = Conn
      /\ \A d \in Conn : d # c => awaiting'[d] = awaiting[d]
  BY <1>2, Update
<1>7. /\ DOMAIN response' = Conn /\ response'[c] = a
      /\ \A d \in Conn : d # c => response'[d] = response[d]
  BY <1>2, Update
<1>8. \/ response'[c].of \in {response[c].of, c, "none"}
      \/ number[c] \in collided
  BY <1>7, Zenon
<1> QED
  BY <1>3, <1>5, <1>6, <1>7, <1>8, ThreadPart

\* One reply, or several that have arrived, and then no value.
LEMMA Read1 ==
  ASSUME NEW a, Told(a), NEW b, b \in {a, [a EXCEPT !.value = Junk]}
  PROVE  Told(b) /\ b.of = a.of
<1>1. PICK v, l, o : a = [value |-> v, keys |-> l, of |-> o] /\ Sequence(l)
  BY Zenon DEF Told
<1>2. CASE b = [a EXCEPT !.value = Junk]
  <2>1. b = [value |-> Junk, keys |-> l, of |-> o]
    BY <1>1, <1>2, Zenon
  <2> QED
    BY <1>1, <2>1, Zenon DEF Told
<1> QED
  BY <1>2, Zenon

LEMMA ReadKeepsRequestInv ==
  ASSUME RequestInv, NEW c \in Conn, NEW i, ReadResponse(c, i)
  PROVE  RequestInv'
<1>1. PICK n \in Index : n = number[c]
  BY DEF RequestInv, ThreadTypes
<1>2. /\ awaiting[c] # Idle /\ backend_socks[n] # NoConnection
      /\ UNCHANGED <<pc, number, collided, backend_socks, store>>
  BY <1>1 DEF ReadResponse
<1>3. pc[c] = "running"
  BY <1>2 DEF RequestInv, Quiet
<1>4. PICK j \in 1 .. Len(sockets) : j = backend_socks[n] /\ Wire(sockets[j])
  BY <1>2, ConnectionOf
<1>5. PICK w : w = sockets[j]
  OBVIOUS
<1>6. PICK v : v = [w EXCEPT !.replies = SubSeq(w.replies, i + 1, Len(w.replies))]
  OBVIOUS
<1>7. PICK a : a = IF i = 1 THEN w.replies[1]
                   ELSE [w.replies[1] EXCEPT !.value = Junk]
  OBVIOUS
<1>8. /\ i \in 1 .. Len(w.replies)
      /\ sockets' = [sockets EXCEPT ![j] = v]
      /\ awaiting' = [awaiting EXCEPT ![c] = Idle]
      /\ response' = [response EXCEPT ![c] = a]
      /\ \E r, u : todo' = [todo EXCEPT ![c] =
            IF awaiting[c].value = "each" /\ a # Silence
            THEN Each(r, u, a.keys) \o todo[c] ELSE todo[c]]
  <2>1. w = sockets[backend_socks[number[c]]]
    BY <1>1, <1>4, <1>5
  <2>2. i \in 1 .. Len(w.replies)
    BY <2>1, Zenon DEF ReadResponse
  <2>3. sockets' = [sockets EXCEPT ![j] = v]
    BY <1>1, <1>4, <1>6, <2>1, Zenon DEF ReadResponse
  <2>4. awaiting' = [awaiting EXCEPT ![c] = Idle]
    BY Zenon DEF ReadResponse, GoesOn
  <2>5. response' = [response EXCEPT ![c] = a]
    BY <1>7, <2>1, Zenon DEF ReadResponse, GoesOn
  <2>6. \E r, u : todo' = [todo EXCEPT ![c] =
           IF awaiting[c].value = "each" /\ a # Silence
           THEN Each(r, u, a.keys) \o todo[c] ELSE todo[c]]
    <3> DEFINE arrived == sockets[backend_socks[number[c]]].replies
               b == IF i = 1 THEN arrived[1]
                    ELSE [arrived[1] EXCEPT !.value = Junk]
               r == Head(requests[c])
               u == username[c]
    <3>1. todo' = [todo EXCEPT ![c] =
             IF awaiting[c].value = "each" /\ b # Silence
             THEN Each(r, u, b.keys) \o todo[c] ELSE todo[c]]
      BY Zenon DEF ReadResponse, GoesOn
    <3>2. a = b
      BY <1>7, <2>1, Zenon
    <3> HIDE DEF b, r, u
    <3> QED
      BY <3>1, <3>2, Zenon
  <2> QED
    BY <2>2, <2>3, <2>4, <2>5, <2>6
<1>9. Wire(w) /\ Wire(v) /\ v.commands = w.commands
      /\ Len(v.replies) = Len(w.replies) - i
  <2>1. Wire(w)
    BY <1>4, <1>5, Zenon
  <2> QED
    BY <1>6, <1>8, <2>1, ReadWire, Zenon
<1>10. PICK p, q, z :
          /\ w = [commands |-> p, replies |-> q, dead |-> z]
          /\ w.commands = p /\ w.replies = q
          /\ Len(p) \in Nat /\ Len(q) \in Nat
          /\ \A l \in 1 .. Len(q) : Told(q[l])
  BY <1>9, WireParts, Zenon
<1>11. i \in 1 .. Len(q) /\ 1 \in 1 .. Len(q)
  <2>1. i \in 1 .. Len(q)
    BY <1>8, <1>10, Zenon
  <2> QED
    BY <1>10, <2>1
<1>12. Told(a) /\ a.of = q[1].of
  <2>1. Told(q[1]) /\ a \in {q[1], [q[1] EXCEPT !.value = Junk]}
    BY <1>7, <1>10, <1>11, Zenon
  <2> QED
    BY <2>1, Read1, Zenon
<1>13. n \notin collided => Carrying(w, n)
  BY <1>2, <1>4, <1>5, Zenon DEF RequestInv, OneInFlight
<1>14. a.of = c \/ number[c] \in collided
  <2>1. SUFFICES ASSUME n \notin collided
                 PROVE  a.of = c
    BY <1>1
  <2>2. Waits(q[1].of, n)
    BY <1>10, <1>11, <1>13, <2>1, Zenon DEF Carrying
  <2>3. Waits(a.of, n)
    BY <1>12, <2>2, Zenon
  <2> QED
    BY <1>1, <1>3, <2>1, <2>3 DEF Waits, RequestInv, OneNumberEach
<1>15. n \notin collided => Carrying(v, n)'
  <2>1. SUFFICES ASSUME n \notin collided
                 PROVE  Carrying(v, n)'
    OBVIOUS
  <2>2. Len(p) + Len(q) <= 1
    BY <1>10, <1>13, <2>1, Zenon DEF Carrying
  <2>3. Len(p) = 0 /\ Len(q) - i = 0
    BY <1>10, <1>11, <2>2
  <2>4. Empty(v)
    BY <1>9, <1>10, <2>3, Zenon DEF Empty
  <2> QED
    BY <2>4, EmptyCarries
<1>16. /\ ThreadTypes' /\ Quiet' /\ OneNumberEach' /\ OwnReplies'
       /\ \A d \in Conn : d # c => awaiting'[d] = awaiting[d]
  <2>1. PICK r, u : todo' = [todo EXCEPT ![c] =
           IF awaiting[c].value = "each" /\ a # Silence
           THEN Each(r, u, a.keys) \o todo[c] ELSE todo[c]]
    BY <1>8
  <2>2. /\ awaiting' = [awaiting EXCEPT ![c] = Idle]
        /\ response' = [response EXCEPT ![c] = a]
        /\ UNCHANGED <<pc, number, collided>>
        /\ a.of \in {c, "none"} \/ number[c] \in collided
    BY <1>2, <1>8, <1>14
  <2> QED
    BY <1>3, <1>12, <2>1, <2>2, GoingOn, Zenon
<1>17. \A d \in Conn : number[d] # n => awaiting'[d] = awaiting[d]
  BY <1>1, <1>16
<1>18. Changed(sockets, sockets', j, v)
  <2>1. Sequence(sockets)
    BY DEF RequestInv, StoreTypes
  <2> QED
    BY <1>8, <2>1, UpdateOf, Zenon
<1>19. StoreTypes' /\ OneConnectionEach' /\ OneInFlight'
  BY <1>2, <1>4, <1>9, <1>15, <1>17, <1>18, FlightChanged
<1> QED
  BY <1>16, <1>19 DEF RequestInv

\* Without a reply, on a new connection.
LEMMA FailKeepsRequestInv ==
  ASSUME RequestInv, NEW c \in Conn, ReadFails(c)
  PROVE  RequestInv'
<1>1. /\ awaiting[c] # Idle /\ Connected(number[c])
      /\ UNCHANGED <<pc, number, collided, store>>
      /\ \/ UNCHANGED <<awaiting, response, todo>>
         \/ GoesOn(c, Silence)
  BY DEF ReadFails
<1>2. pc[c] = "running"
  BY <1>1 DEF RequestInv, Quiet
<1>3. /\ DOMAIN todo = Conn /\ DOMAIN awaiting = Conn /\ DOMAIN response = Conn
      /\ Script(todo[c])
  BY DEF RequestInv, ThreadTypes
<1>4. /\ ThreadTypes' /\ Quiet' /\ OneNumberEach' /\ OwnReplies'
      /\ \A d \in Conn : d # c => awaiting'[d] = awaiting[d]
  <2>1. CASE UNCHANGED <<awaiting, response, todo>>
    <3>1. response'[c].of \in {response[c].of, c, "none"}
      BY <2>1, Zenon
    <3> QED
      BY <1>1, <1>2, <1>3, <2>1, <3>1, ThreadPart
  <2>2. CASE GoesOn(c, Silence)
    <3>1. PICK a : a = Silence
      OBVIOUS
    <3>2. Told(a) /\ a.of = "none"
      BY <3>1, EmptySequence, Zenon DEF Told, Silence
    <3>3. /\ awaiting' = [awaiting EXCEPT ![c] = Idle]
          /\ response' = [response EXCEPT ![c] = a]
      BY <2>2, <3>1, Zenon DEF GoesOn
    <3>4. PICK r, u : todo' = [todo EXCEPT ![c] =
             IF awaiting[c].value = "each" /\ a # Silence
             THEN Each(r, u, a.keys) \o todo[c] ELSE todo[c]]
      BY <2>2, <3>1, Zenon DEF GoesOn
    <3>5. UNCHANGED <<pc, number, collided>> /\ a.of \in {c, "none"}
      BY <1>1, <3>2
    <3> QED
      BY <1>2, <3>2, <3>3, <3>4, <3>5, GoingOn, Zenon
  <2> QED
    BY <1>1, <2>1, <2>2
<1>5. StoreTypes' /\ OneConnectionEach' /\ OneInFlight'
  BY <1>1, <1>4, FlightRenewed
<1> QED
  BY <1>4, <1>5 DEF RequestInv

-----------------------------------------------------------------------------
(* The store.                                                              *)

\* It keeps finitely many keys, and answers with a sequence of them.
LEMMA ExecutedIsFinite ==
  ASSUME NEW s, IsFiniteSet(DOMAIN s), NEW a
  PROVE  IsFiniteSet(DOMAIN Executed(s, a))
<1>1. \A k : IsFiniteSet(DOMAIN s \union {k})
  BY FS_AddElement
<1>2. \A k, v : DOMAIN Stored(s, k, v) = DOMAIN s \union {k}
  BY Zenon DEF Stored
<1>3. IsFiniteSet(DOMAIN Found(s, a))
  BY <1>1, <1>2, Zenon DEF Found
<1>4. CASE ~Carries(s, a)
  <2>1. Executed(s, a) = Found(s, a)
    BY <1>4, Zenon DEF Executed
  <2> QED
    BY <1>3, <2>1, Zenon
<1>5. CASE Carries(s, a) /\ a.op = "DELETE"
  <2>1. Executed(s, a) = [k \in DOMAIN s \ {a.key} |-> s[k]]
    BY <1>5, Zenon DEF Executed
  <2>2. DOMAIN Executed(s, a) = DOMAIN s \ {a.key}
    BY <2>1, Zenon
  <2>3. \A k : IsFiniteSet(DOMAIN s \ {k})
    BY FS_RemoveElement
  <2> QED
    BY <2>2, <2>3, Zenon
<1>6. CASE Carries(s, a) /\ a.op # "DELETE"
  <2>1. Executed(s, a) = Stored(s, a.key, a.value)
    BY <1>6, Zenon DEF Executed
  <2>2. DOMAIN Executed(s, a) = DOMAIN s \union {a.key}
    BY <1>2, <2>1, Zenon
  <2> QED
    BY <1>1, <2>2, Zenon
<1> QED
  BY <1>4, <1>5, <1>6, Zenon

LEMMA AnswerHasLines ==
  ASSUME NEW s, IsFiniteSet(DOMAIN s), NEW a
  PROVE  Sequence(Answer(s, a).keys)
<1>1. \A k : Sequence(SetToSeq(Matching(s, k)))
  <2>1. \A k : Matching(s, k) \subseteq DOMAIN s
    BY DEF Matching
  <2> QED
    BY <2>1, FS_Subset, LinesOf, Zenon
<1>2. Answer(s, a).keys = IF a.op = "LIST" THEN SetToSeq(Matching(s, a.key))
                          ELSE <<>>
  BY Zenon DEF Answer
<1> QED
  BY <1>1, <1>2, EmptySequence, Zenon

LEMMA ServeKeepsRequestInv ==
  ASSUME RequestInv, NEW k \in 1 .. Len(sockets), NEW refused, Serve(k, refused)
  PROVE  RequestInv'
<1>1. UNCHANGED <<pc, number, todo, awaiting, response, collided, backend_socks>>
  BY DEF Serve, threadVars
<1>2. /\ Sequence(sockets) /\ IsFiniteSet(DOMAIN store)
      /\ \A i \in 1 .. Len(sockets) : Wire(sockets[i])
  BY DEF RequestInv, StoreTypes
<1>3. PICK w : w = sockets[k]
  OBVIOUS
<1>4. PICK m : m = Head(w.commands)
  OBVIOUS
<1>5. PICK a : a = [value |-> Answer(store, m.c).value,
                    keys |-> Answer(store, m.c).keys, of |-> m.of]
  OBVIOUS
<1>6. PICK v : v = [w EXCEPT !.commands = Tail(w.commands),
                             !.replies = Append(w.replies, a)]
  OBVIOUS
<1>7. /\ w.commands # <<>>
      /\ store' = IF refused THEN store ELSE Executed(store, m.c)
      /\ sockets' = [sockets EXCEPT ![k] = v]
  <2>1. w.commands # <<>>
    BY <1>3, Zenon DEF Serve
  <2>2. store' = IF refused THEN store ELSE Executed(store, m.c)
    BY <1>3, <1>4, Zenon DEF Serve
  <2>3. sockets' = [sockets EXCEPT ![k] = v]
    BY <1>3, <1>4, <1>5, <1>6, Zenon DEF Serve
  <2> QED
    BY <2>1, <2>2, <2>3
<1>8. Wire(w)
  BY <1>2, <1>3, Zenon
<1>9. Told(a) /\ a.of = Head(w.commands).of
  <2>1. a.keys = Answer(store, m.c).keys /\ a.of = m.of
    BY <1>5, Zenon
  <2>2. Sequence(Answer(store, m.c).keys)
    BY <1>2, AnswerHasLines
  <2>3. a = [value |-> a.value, keys |-> a.keys, of |-> a.of]
    BY <1>5, Zenon
  <2> QED
    BY <1>4, <2>1, <2>2, <2>3, Zenon DEF Told
<1>10. Wire(v) /\ \A n : Carrying(w, n) => Carrying(v, n)
  BY <1>6, <1>7, <1>8, <1>9, ServedWire, Zenon
<1>11. Changed(sockets, sockets', k, v)
  BY <1>2, <1>7, UpdateOf, Zenon
<1>12. /\ Sequence(sockets') /\ Len(sockets') = Len(sockets) /\ sockets'[k] = v
       /\ \A i \in 1 .. Len(sockets) : i # k => sockets'[i] = sockets[i]
  BY <1>11 DEF Changed
<1>13. IsFiniteSet(DOMAIN store')
  <2>1. IsFiniteSet(DOMAIN Executed(store, m.c))
    BY <1>2, ExecutedIsFinite
  <2> QED
    BY <1>2, <1>7, <2>1, Zenon
<1>14. StoreTypes' /\ OneConnectionEach'
  <2>1. \A i \in 1 .. Len(sockets) : Wire(sockets'[i])
    BY <1>2, <1>10, <1>12
  <2> QED
    BY <1>1, <1>12, <1>13, <2>1, StorePart
<1>15. ThreadTypes' /\ Quiet' /\ OneNumberEach' /\ OwnReplies'
  BY <1>1 DEF RequestInv, ThreadTypes, Quiet, OneNumberEach, OwnReplies
<1>16. OneInFlight'
  <2>1. SUFFICES ASSUME NEW n \in Index \ collided', backend_socks'[n] # NoConnection
                 PROVE  \E x : x = sockets'[backend_socks'[n]] /\ Carrying(x, n)'
    BY InFlightAfter
  <2>2. /\ backend_socks'[n] = backend_socks[n]
        /\ backend_socks[n] \in 1 .. Len(sockets)
        /\ Carrying(sockets[backend_socks[n]], n)
    <3>1. backend_socks'[n] = backend_socks[n] /\ backend_socks[n] # NoConnection
      BY <1>1, <2>1
    <3> QED
      BY <1>1, <2>1, <3>1, ConnectionOf DEF RequestInv, OneInFlight
  <2>3. PICK x : x = sockets'[backend_socks'[n]]
    OBVIOUS
  <2>4. Carrying(x, n)
    <3>1. CASE backend_socks[n] = k
      <4>1. x = v /\ Carrying(w, n)
        BY <1>3, <1>12, <2>2, <2>3, <3>1, Zenon
      <4> QED
        BY <1>10, <4>1, Zenon
    <3>2. CASE backend_socks[n] # k
      <4>1. x = sockets[backend_socks[n]]
        BY <1>12, <2>2, <2>3, <3>2
      <4> QED
        BY <2>2, <4>1, Zenon
    <3> QED
      BY <3>1, <3>2
  <2>5. \A d \in Conn : Waits(d, n) => Waits(d, n)'
    BY <1>1 DEF Waits
  <2> QED
    BY <2>3, <2>4, <2>5, StillCarrying
<1> QED
  BY <1>14, <1>15, <1>16 DEF RequestInv

LEMMA DeathKeepsRequestInv ==
  ASSUME RequestInv, ServerDies
  PROVE  RequestInv'
<1>1. UNCHANGED <<pc, number, todo, awaiting, response, collided, backend_socks,
                  store>>
  BY DEF ServerDies, threadVars
<1>2. /\ Sequence(sockets) /\ IsFiniteSet(DOMAIN store)
      /\ \A i \in 1 .. Len(sockets) : Wire(sockets[i])
  BY DEF RequestInv, StoreTypes
<1> DEFINE l == Len(sockets)
           f == [k \in 1 .. l |->
                    [sockets[k] EXCEPT !.dead = TRUE, !.commands = <<>>]]
<1>3. sockets' = f
  BY DEF ServerDies
<1>4. l \in Nat
  BY <1>2, AppendOf
<1>5. ASSUME NEW k \in 1 .. l
      PROVE  Wire(f[k]) /\ \A n : Carrying(sockets[k], n) => Carrying(f[k], n)
  <2>1. PICK w : w = sockets[k]
    OBVIOUS
  <2>2. PICK v : v = [w EXCEPT !.dead = TRUE, !.commands = <<>>]
    OBVIOUS
  <2>3. f[k] = v
    BY <2>1, <2>2, Zenon
  <2>4. Wire(w)
    BY <1>2, <2>1, Zenon
  <2>5. Wire(v) /\ \A n : Carrying(w, n) => Carrying(v, n)
    BY <2>2, <2>4, DeadWire, Zenon
  <2> QED
    BY <2>1, <2>3, <2>5, Zenon
<1>6. PICK S : f \in [1 .. l -> S]
  <2>1. f \in [1 .. l -> {f[k] : k \in 1 .. l}]
    BY Zenon
  <2> QED
    BY <2>1, Zenon
<1> HIDE DEF l, f
<1>7. Sequence(sockets') /\ Len(sockets') = Len(sockets)
  <2>1. sockets' \in Seq(S) /\ Len(sockets') = l
    BY <1>3, <1>4, <1>6
  <2> QED
    BY <2>1, SequenceOf DEF l
<1>8. StoreTypes' /\ OneConnectionEach'
  <2>1. \A k \in 1 .. Len(sockets) : Wire(sockets'[k])
    BY <1>3, <1>5 DEF l
  <2> QED
    BY <1>1, <1>2, <1>7, <2>1, StorePart
<1>9. ThreadTypes' /\ Quiet' /\ OneNumberEach' /\ OwnReplies'
  BY <1>1 DEF RequestInv, ThreadTypes, Quiet, OneNumberEach, OwnReplies
<1>10. OneInFlight'
  <2>1. SUFFICES ASSUME NEW n \in Index \ collided', backend_socks'[n] # NoConnection
                 PROVE  \E x : x = sockets'[backend_socks'[n]] /\ Carrying(x, n)'
    BY InFlightAfter
  <2>2. PICK k \in 1 .. l : k = backend_socks[n] /\ k = backend_socks'[n]
    BY <1>1, <2>1, ConnectionOf DEF l
  <2>3. Carrying(sockets[k], n)
    BY <1>1, <2>1, <2>2 DEF RequestInv, OneInFlight
  <2>4. PICK x : x = f[k]
    OBVIOUS
  <2>5. x = sockets'[backend_socks'[n]]
    BY <1>3, <2>2, <2>4
  <2>6. Carrying(x, n)
    BY <1>5, <2>3, <2>4, Zenon
  <2>7. \A d \in Conn : Waits(d, n) => Waits(d, n)'
    BY <1>1 DEF Waits
  <2> QED
    BY <2>5, <2>6, <2>7, StillCarrying
<1> QED
  BY <1>8, <1>9, <1>10 DEF RequestInv

-----------------------------------------------------------------------------
(* The theorems.                                                           *)

LEMMA InitRequestInv == Init => RequestInv
<1> SUFFICES ASSUME Init PROVE RequestInv
  OBVIOUS
<1>1. /\ setup \in Setup /\ store = setup.store
      /\ pc = [c \in Conn |-> IF c \in DOMAIN setup.requests THEN "queued"
                                                             ELSE "gone"]
      /\ number = [c \in Conn |-> 0]
      /\ todo = [c \in Conn |-> <<>>]
      /\ awaiting = [c \in Conn |-> Idle]
      /\ response = [c \in Conn |-> Silence]
      /\ backend_socks = [i \in Index |-> NoConnection]
      /\ sockets = <<>>
  BY DEF Init
<1>2. \A c \in Conn : /\ pc[c] # "running" /\ todo[c] = <<>>
                      /\ awaiting[c] = Idle /\ response[c] = Silence
  BY <1>1
<1>3. Silence.of = "none"
  BY DEF Silence
<1>4. ThreadTypes
  <2>1. 0 \in Index
    BY FiniteSets DEF Index
  <2>2. number \in [Conn -> Index] /\ DOMAIN todo = Conn
        /\ DOMAIN awaiting = Conn /\ DOMAIN response = Conn
    BY <1>1, <2>1
  <2> QED
    BY <1>2, <2>2, EmptySequence DEF ThreadTypes
<1>5. StoreTypes
  <2>1. IsFiniteSet(DOMAIN store)
    BY <1>1, FrontendAssumption, Zenon
  <2>2. /\ Sequence(sockets) /\ Len(sockets) = 0
        /\ \A k \in 1 .. Len(sockets) : FALSE
    BY <1>1, EmptySequence
  <2>3. backend_socks \in [Index -> 0 .. Len(sockets)]
    BY <1>1, <2>2 DEF NoConnection
  <2> QED
    BY <2>1, <2>2, <2>3 DEF StoreTypes
<1>6. Quiet /\ OwnReplies
  BY <1>2, <1>3 DEF Quiet, OwnReplies
<1>7. OneNumberEach
  BY <1>2 DEF OneNumberEach
<1>8. OneConnectionEach /\ OneInFlight
  BY <1>1 DEF OneConnectionEach, OneInFlight, NoConnection
<1> QED
  BY <1>4, <1>5, <1>6, <1>7, <1>8 DEF RequestInv

LEMMA NextKeepsRequestInv ==
  ASSUME LoopInv, RequestInv, [Next]_vars
  PROVE  RequestInv'
<1>1. ASSUME UNCHANGED <<threadVars, storeVars, collided>>, UNCHANGED pc
      PROVE  RequestInv'
  BY <1>1, LifeKeepsRequestInv
<1>2. ASSUME UNCHANGED <<threadVars, storeVars, collided>>,
             NEW c \in Conn, NEW to, pc' = [pc EXCEPT ![c] = to],
             to # "running", todo[c] = <<>>, awaiting[c] = Idle,
             \/ to \notin {"queued", "accepted", "created"}
             \/ pc[c] \in {"queued", "accepted", "created"}
      PROVE  RequestInv'
  <2>1. \A d \in Conn : d # c => pc'[d] = pc[d]
    BY <1>2 DEF LoopInv, LoopTypes
  <2>2. pc'[c] = to
    BY <1>2 DEF LoopInv, LoopTypes
  <2> QED
    BY <1>2, <2>1, <2>2, LifeKeepsRequestInv
<1>3. ASSUME NEW c \in Conn, pc[c] # "running"
      PROVE  todo[c] = <<>> /\ awaiting[c] = Idle
  BY <1>3 DEF RequestInv, Quiet
<1>4. CASE MainStep
  <2>1. ASSUME NEW c \in Conn, Accept(c) PROVE RequestInv'
    BY <1>2, <1>3, <2>1 DEF Accept
  <2>2. CASE RecordSlot
    <3>1. PICK c \in Conn : c = main.conn /\ pc[c] = "accepted"
      BY <2>2 DEF RecordSlot, LoopInv, Accepting
    <3>2. PICK to \in {"left", "created"} : pc' = [pc EXCEPT ![c] = to]
      BY <2>2, <3>1 DEF RecordSlot
    <3>3. UNCHANGED <<threadVars, storeVars, collided>>
      BY <2>2 DEF RecordSlot
    <3> QED
      BY <1>2, <1>3, <3>1, <3>2, <3>3
  <2>3. CASE CountRead \/ CountWrite
    BY <1>1, <2>3 DEF CountRead, CountWrite
  <2> QED
    BY <1>4, <2>1, <2>2, <2>3 DEF MainStep
<1>5. ASSUME NEW c \in Conn,
             ClearSlot(c) \/ UncountRead(c) \/ UncountWrite(c) \/ Close(c)
      PROVE  RequestInv'
  <2>1. PICK to \in {"cleared", "uncounting", "gone", "closed"} :
           pc' = [pc EXCEPT ![c] = to]
    BY <1>5 DEF ClearSlot, UncountRead, UncountWrite, Close, Goes
  <2>2. UNCHANGED <<threadVars, storeVars, collided>>
    BY <1>5 DEF ClearSlot, UncountRead, UncountWrite, Close
  <2>3. pc[c] # "running" \/ (todo[c] = <<>> /\ awaiting[c] = Idle)
    BY <1>5 DEF ClearSlot, UncountRead, UncountWrite, Close, Goes, Resting
  <2> QED
    BY <1>2, <1>3, <2>1, <2>2, <2>3
<1>6. ASSUME NEW c \in Conn, Die(c) PROVE RequestInv'
  BY <1>1, <1>6 DEF Die
<1>7. ASSUME NEW c \in Conn, RequestStep(c) PROVE RequestInv'
  BY <1>7, BeginKeepsRequestInv, ConnectKeepsRequestInv, SendKeepsRequestInv,
     ReadKeepsRequestInv DEF RequestStep
<1>8. CASE StoreStep \/ ServerDies
  BY <1>8, ServeKeepsRequestInv, DeathKeepsRequestInv DEF StoreStep
<1>9. CASE UNCHANGED vars
  BY <1>1, <1>9 DEF vars
<1> QED
  BY <1>4, <1>5, <1>6, <1>7, <1>8, <1>9, StartKeepsRequestInv,
     FailKeepsRequestInv DEF Next, ThreadStep

\* The invariant of the main loop and that of the requests hold together.
THEOREM Invariance == Spec => [](LoopInv /\ RequestInv /\ setup \in Setup)
<1>1. Init => LoopInv /\ RequestInv /\ setup \in Setup
  BY InitLoopInv, InitRequestInv DEF Init
<1>2. LoopInv /\ RequestInv /\ setup \in Setup /\ [Next]_vars
         => (LoopInv /\ RequestInv /\ setup \in Setup)'
  <2>1. [Next]_vars => UNCHANGED setup
    <3>1. MainStep \/ StoreStep \/ ServerDies => UNCHANGED setup
      BY DEF MainStep, Accept, RecordSlot, CountRead, CountWrite, StoreStep,
             Serve, ServerDies
    <3>2. \A c \in Conn : RequestStep(c) \/ ReadFails(c) => UNCHANGED setup
      BY DEF RequestStep, Begin, ConnectToBackend, SendCommand, ReadResponse,
             ReadFails
    <3>3. \A c \in Conn : ThreadStep(c) \/ Close(c) \/ Die(c) => UNCHANGED setup
      BY <3>2 DEF ThreadStep, ThreadStart, ClearSlot, UncountRead, UncountWrite,
                  Close, Die
    <3> QED
      BY <3>1, <3>2, <3>3 DEF Next, vars
  <2> QED
    BY <2>1, NextKeepsLoopInv, NextKeepsRequestInv
<1> QED
  BY <1>1, <1>2, PTL DEF Spec

\* The variables keep their types: num_client stays an index of backend_socks
\* as it is modelled, and a descriptor that is in use is one of those there are.
THEOREM TypeCorrect == Spec => []TypeOK
<1>1. LoopInv /\ RequestInv /\ setup \in Setup => TypeOK
  <2> SUFFICES ASSUME LoopInv, RequestInv, setup \in Setup
               PROVE  TypeOK
    OBVIOUS
  <2>1. num_client \in Index
    BY CounterIsIndex
  <2>2. \A c \in Conn : Open(c) => fd[c] \in 1 .. Cardinality(Conn)
    BY FiniteSets DEF LoopInv, LoopTypes
  <2> QED
    BY <2>1, <2>2
       DEF TypeOK, LoopInv, LoopTypes, RequestInv, ThreadTypes, StoreTypes
<1> QED
  BY <1>1, Invariance, PTL

\* A thread reads the replies to its own commands unless two threads that ran at
\* a time have had its number: whatever the store, the main loop and the other
\* threads do, whatever fails, and however the connections are replaced.
THEOREM RepliesAreOwn == Spec => []OwnReplies
<1>1. RequestInv => OwnReplies
  BY DEF RequestInv
<1> QED
  BY <1>1, Invariance, PTL
=============================================================================
