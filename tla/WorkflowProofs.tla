--------------------------- MODULE WorkflowProofs ---------------------------
(***************************************************************************)
(* Proofs about Workflow: get_step_order, for definitions of any size.     *)
(***************************************************************************)
EXTENDS Workflow, FiniteSetTheorems, WellFoundedInduction, TLAPS

(* Kahn's algorithm counts, for each step, the edges into it that have not
   been followed: those whose source has not been placed, or was placed last
   and still has the edge to do. *)
Placed(n) == \E k \in DOMAIN order : order[k] = n
Queued(n) == \E k \in DOMAIN queue : queue[k] = n
Unfollowed(n) ==
    {i \in DOMAIN edges : edges[i].to = n /\ (~ Placed(edges[i].from) \/ i \in todo)}

Sorting == pc \in {"seed", "sort"}

Fresh ==
    pc \in {"schema", "steps", "edges", "search"} =>
        /\ order = <<>> /\ queue = <<>> /\ seed = 0
        /\ pc # "search" => todo = {}

Counting == Sorting => \A n \in Ids : in_degree[n] = Cardinality(Unfollowed(n))

TodoPlaced == Sorting => \A i \in todo : Placed(edges[i].from)

(* A step is queued or placed once, and only when nothing is left to count. *)
Ready ==
    Sorting =>
        /\ \A n \in Ids : Queued(n) \/ Placed(n) => in_degree[n] = 0
        /\ \A k, l \in DOMAIN queue : k # l => queue[k] # queue[l]
        /\ \A n \in Ids : ~ (Queued(n) /\ Placed(n))

Seeding ==
    pc = "seed" =>
        /\ order = <<>> /\ todo = {}
        /\ \A n \in Ids : Queued(n) => \E j \in 1 .. seed : steps[j] = n

(* Whoever is not queued or placed is still waiting for an edge. *)
Waiting ==
    /\ pc = "seed" => \A j \in 1 .. seed : in_degree[steps[j]] = 0 => Queued(steps[j])
    /\ pc = "sort" => \A j \in 1 .. Len(steps) :
                          in_degree[steps[j]] = 0 => Queued(steps[j]) \/ Placed(steps[j])

(* What is queued or placed is a step of the definition. *)
OnlySteps ==
    /\ pc \in {"steps", "edges", "search", "seed", "sort"} => EdgesKnown
    /\ \A n \in Ids : Queued(n) \/ Placed(n) => n \in StepIds

KahnInv ==
    /\ TypeOK /\ Fresh /\ Counting /\ TodoPlaced /\ Ready /\ Seeding
    /\ Waiting /\ OnlySteps /\ OrderTopological

-----------------------------------------------------------------------------
(* The members of a sequence with one more at its end, and of its tail. *)
LEMMA MembersOfAppend ==
    ASSUME NEW S, NEW s \in Seq(S), NEW x \in S, NEW m
    PROVE  (\E k \in DOMAIN Append(s, x) : Append(s, x)[k] = m)
              <=> (\E k \in DOMAIN s : s[k] = m) \/ m = x
<1>1. /\ DOMAIN s = 1 .. Len(s) /\ DOMAIN Append(s, x) = 1 .. Len(s) + 1
      /\ Len(s) \in Nat /\ Append(s, x)[Len(s) + 1] = x
      /\ \A k \in 1 .. Len(s) : Append(s, x)[k] = s[k]
  OBVIOUS
<1>2. \A k \in 1 .. Len(s) + 1 : k \in 1 .. Len(s) \/ k = Len(s) + 1 BY <1>1
<1>3. Len(s) + 1 \in 1 .. Len(s) + 1 /\ \A k \in 1 .. Len(s) : k \in 1 .. Len(s) + 1 BY <1>1
<1> QED BY <1>1, <1>2, <1>3

(* The domain and the elements of a sequence without its head. *)
LEMMA TailIsShift ==
    ASSUME NEW S, NEW s \in Seq(S), s # <<>>
    PROVE  /\ Tail(s) \in Seq(S) /\ Head(s) \in S
           /\ DOMAIN s = 1 .. Len(s) /\ Len(s) \in Nat \ {0} /\ Head(s) = s[1]
           /\ DOMAIN Tail(s) = 1 .. Len(s) - 1
           /\ \A k \in 1 .. Len(s) - 1 : Tail(s)[k] = s[k + 1]
  OBVIOUS

(* The ends of an edge are ids. *)
LEMMA EdgeEnds ==
    ASSUME TypeOK, NEW i \in DOMAIN edges
    PROVE  edges[i].from \in Ids /\ edges[i].to \in Ids
<1>1. edges[i] \in Edge BY DEF TypeOK
<1> QED BY <1>1 DEF Edge

(* The edges into a step that are still unfollowed are finitely many, and
   none when their number is zero. *)
LEMMA UnfollowedFinite ==
    ASSUME TypeOK, NEW n
    PROVE  /\ IsFiniteSet(Unfollowed(n))
           /\ Cardinality(Unfollowed(n)) \in Nat
           /\ Cardinality(Unfollowed(n)) = 0 <=> Unfollowed(n) = {}
<1>1. IsFiniteSet(DOMAIN edges)
  <2>1. Len(edges) \in Nat /\ DOMAIN edges = 1 .. Len(edges) BY DEF TypeOK
  <2> QED BY <2>1, FS_Interval
<1>2. Unfollowed(n) \in SUBSET DOMAIN edges BY DEF Unfollowed
<1>3. IsFiniteSet(Unfollowed(n)) BY <1>1, <1>2, FS_Subset
<1> QED BY <1>3, FS_CardinalityType, FS_EmptySet

(* Placing the head of the queue, with all of its edges to do, leaves what is
   unfollowed as it was. *)
LEMMA PopKeepsUnfollowed ==
    ASSUME KahnInv, Pop
    PROVE  /\ \A m \in Ids : Placed(m)' <=> Placed(m) \/ m = Head(queue)
           /\ \A m \in Ids : Queued(m) <=> Queued(m)' \/ m = Head(queue)
           /\ \A m \in Ids : m = Head(queue) => ~ Queued(m)'
           /\ \A n \in Ids : Unfollowed(n)' = Unfollowed(n)
<1>1. Head(queue) \in Ids /\ order \in Seq(Ids) /\ queue \in Seq(Ids) /\ queue # <<>>
  BY DEF KahnInv, TypeOK, Pop
<1>2. \A m \in Ids : Placed(m)' <=> Placed(m) \/ m = Head(queue)
  <2>1. order' = Append(order, Head(queue)) BY DEF Pop
  <2>2. \A m : (\E k \in DOMAIN order' : order'[k] = m)
                  <=> (\E k \in DOMAIN order : order[k] = m) \/ m = Head(queue)
    BY <1>1, <2>1, MembersOfAppend
  <2> QED BY <2>2 DEF Placed
<1>3. \A m \in Ids : Queued(m) <=> Queued(m)' \/ m = Head(queue)
  <2>1. queue' = Tail(queue) BY DEF Pop
  <2>2. /\ Len(queue') = Len(queue) - 1
        /\ \A k \in 1 .. Len(queue) - 1 : queue'[k] = queue[k + 1]
        /\ queue' \in Seq(Ids)
    BY <1>1, <2>1
  <2>3. ASSUME NEW m \in Ids, Queued(m), m # Head(queue) PROVE Queued(m)'
    <3>1. PICK k \in 1 .. Len(queue) : queue[k] = m BY <1>1, <2>3 DEF Queued
    <3>2. k # 1 BY <1>1, <2>3, <3>1
    <3>3. k - 1 \in 1 .. Len(queue') /\ queue'[k - 1] = m BY <1>1, <2>2, <3>1, <3>2
    <3> QED BY <2>2, <3>3 DEF Queued
  <2>4. ASSUME NEW m \in Ids, Queued(m)' PROVE Queued(m)
    <3>1. PICK k \in 1 .. Len(queue') : queue'[k] = m BY <2>2, <2>4 DEF Queued
    <3>2. k + 1 \in 1 .. Len(queue) /\ queue[k + 1] = m BY <1>1, <2>2, <3>1
    <3> QED BY <1>1, <3>2 DEF Queued
  <2>5. Queued(Head(queue))
    <3>1. 1 \in 1 .. Len(queue) /\ queue[1] = Head(queue) BY <1>1
    <3> QED BY <1>1, <3>1 DEF Queued
  <2> QED BY <2>3, <2>4, <2>5
<1>4. ASSUME NEW m \in Ids, m = Head(queue), Queued(m)' PROVE FALSE
  <2>1. \A k, l \in DOMAIN queue : k # l => queue[k] # queue[l]
    BY DEF KahnInv, Ready, Sorting, Pop
  <2>2. queue' = Tail(queue) BY DEF Pop
  <2>3. PICK k \in DOMAIN queue' : queue'[k] = m BY <1>4 DEF Queued
  <2>4. k \in 1 .. Len(queue) - 1 /\ queue[k + 1] = queue[1]
    BY <1>1, <1>4, <2>2, <2>3, TailIsShift
  <2> QED BY <1>1, <2>1, <2>4
<1>5. ASSUME NEW n \in Ids PROVE Unfollowed(n)' = Unfollowed(n)
  <2>1. Queued(Head(queue)) BY <1>1, <1>3
  <2>2. ~ Placed(Head(queue)) BY <1>1, <2>1 DEF KahnInv, Ready, Sorting, Pop
  <2>3. /\ todo = {} /\ edges' = edges
        /\ todo' = {i \in DOMAIN edges : edges[i].from = Head(queue)}
    BY DEF Pop, EdgesFrom, definition
  <2>4. \A i \in DOMAIN edges : edges[i].from \in Ids BY EdgeEnds DEF KahnInv
  <2>5. ASSUME NEW i \in DOMAIN edges
        PROVE  (~ Placed(edges[i].from) \/ i \in todo)
                  <=> (~ Placed(edges[i].from)' \/ i \in todo')
    <3>1. Placed(edges[i].from)' <=> Placed(edges[i].from) \/ edges[i].from = Head(queue)
      BY <1>2, <2>3, <2>4
    <3> QED BY <2>2, <2>3, <3>1
  <2> QED BY <2>3, <2>5 DEF Unfollowed
<1> QED BY <1>2, <1>3, <1>4, <1>5

(* Following an edge takes it, and only it, out of what is unfollowed. *)
LEMMA FollowTakesOne ==
    ASSUME KahnInv, Sorting, NEW i \in todo, todo' = todo \ {i},
           UNCHANGED <<order, edges>>
    PROVE  /\ i \in DOMAIN edges /\ edges[i].to \in Ids
           /\ i \in Unfollowed(edges[i].to)
           /\ \A n \in Ids : Unfollowed(n)' =
                 IF n = edges[i].to THEN Unfollowed(n) \ {i} ELSE Unfollowed(n)
<1>1. i \in DOMAIN edges /\ edges[i].to \in Ids /\ edges[i].from \in Ids
  BY EdgeEnds DEF KahnInv, TypeOK
<1>2. Placed(edges[i].from) BY DEF KahnInv, TodoPlaced
<1>3. \A m : Placed(m)' <=> Placed(m) BY DEF Placed
<1>4. i \in Unfollowed(edges[i].to) BY <1>1 DEF Unfollowed
<1>5. ASSUME NEW n \in Ids
      PROVE  Unfollowed(n)' = IF n = edges[i].to THEN Unfollowed(n) \ {i} ELSE Unfollowed(n)
  BY <1>1, <1>2, <1>3 DEF Unfollowed
<1> QED BY <1>1, <1>4, <1>5

-----------------------------------------------------------------------------
(* A step outside get_step_order's loops keeps what is said of them. *)
LEMMA Unmoved ==
    ASSUME KahnInv, UNCHANGED <<steps, edges, queue, order>>
    PROVE  /\ \A n : Queued(n)' <=> Queued(n)
           /\ \A n : Placed(n)' <=> Placed(n)
           /\ OrderTopological'
           /\ EdgesKnown' <=> EdgesKnown
           /\ \A n \in Ids : Queued(n)' \/ Placed(n)' => n \in StepIds'
<1>1. \A n : (Queued(n)' <=> Queued(n)) /\ (Placed(n)' <=> Placed(n))
  BY DEF Queued, Placed
<1>2. OrderTopological' BY DEF KahnInv, OrderTopological, Precedes
<1>3. EdgesKnown' <=> EdgesKnown BY DEF EdgesKnown, StepIds
<1>4. \A n \in Ids : Queued(n)' \/ Placed(n)' => n \in StepIds'
  BY <1>1 DEF KahnInv, OnlySteps, StepIds
<1> QED BY <1>1, <1>2, <1>3, <1>4

(* Edges have ends, and their ends are steps. *)
LEMMA StepsNotEmpty ==
    ASSUME TypeOK, EdgesKnown, edges # <<>>
    PROVE  1 \in DOMAIN steps /\ steps[1] \in Ids
<1>1. 1 \in DOMAIN edges BY DEF TypeOK
<1>2. edges[1].from \in StepIds BY <1>1 DEF EdgesKnown
<1>3. DOMAIN steps # {} BY <1>2 DEF StepIds, Range
<1>4. 1 \in DOMAIN steps BY <1>3 DEF TypeOK
<1> QED BY <1>4 DEF TypeOK

(* A step outside get_step_order keeps the facts about it. *)
LEMMA OutsideSort ==
    ASSUME KahnInv, UNCHANGED <<steps, edges, queue, order, seed>>, TypeOK',
           pc' \notin {"seed", "sort"},
           pc' \in {"schema", "steps", "edges", "search"} =>
              /\ pc \in {"schema", "steps", "edges", "search"}
              /\ pc' # "search" => todo' = {},
           pc' \in {"steps", "edges", "search"} => EdgesKnown
    PROVE  KahnInv'
<1>1. Fresh' BY DEF KahnInv, Fresh
<1>2. Counting' /\ TodoPlaced' /\ Ready' /\ Seeding' /\ Waiting'
  BY DEF Counting, TodoPlaced, Ready, Seeding, Waiting, Sorting
<1>3. OnlySteps' /\ OrderTopological' BY Unmoved DEF OnlySteps
<1> QED BY <1>1, <1>2, <1>3 DEF KahnInv

(* The steps before get_step_order and after it. *)
LEMMA KahnAround ==
    ASSUME KahnInv,
           \/ ModelValidate \/ ValidateSteps \/ ConfigRaises \/ ValidateEdges
           \/ Visit \/ Extend \/ SortEnds \/ Answer
    PROVE  KahnInv'
<1>0. TypeOK /\ Fresh /\ OnlySteps BY DEF KahnInv
<1> USE DEF definition, searchVars, orderVars
<1>1. CASE ModelValidate
  <2>1. TypeOK' BY <1>0, <1>1 DEF ModelValidate, TypeOK, Errors
  <2> QED BY <1>0, <1>1, <2>1, OutsideSort DEF ModelValidate, SchemaAccepts, Fresh
<1>2. CASE ValidateSteps
  <2>1. TypeOK' BY <1>0, <1>2 DEF ValidateSteps, TypeOK, Errors
  <2> QED BY <1>0, <1>2, <2>1, OutsideSort DEF ValidateSteps, Fresh, OnlySteps
<1>3. CASE ConfigRaises
  <2>1. TypeOK' BY <1>0, <1>3 DEF ConfigRaises, TypeOK, Errors
  <2> QED BY <1>0, <1>3, <2>1, OutsideSort DEF ConfigRaises, Fresh
<1>4. CASE ValidateEdges
  <2>1. EdgesKnown BY <1>0, <1>4 DEF OnlySteps, ValidateEdges
  <2>2. edges # <<>> => steps[1] \in Ids BY <1>0, <2>1, StepsNotEmpty
  <2>3. TypeOK' BY <1>0, <1>4, <2>2 DEF ValidateEdges, TypeOK, Errors
  <2> QED BY <1>0, <1>4, <2>1, <2>3, OutsideSort DEF ValidateEdges, Fresh
<1>5. CASE Visit
  <2>1. Head(frontier) \in Ids /\ Tail(frontier) \in Seq(Ids)
    BY <1>0, <1>5 DEF TypeOK, Visit
  <2>2. TypeOK' BY <1>0, <1>5, <2>1 DEF Visit, EdgesFrom, TypeOK
  <2> QED BY <1>0, <1>5, <2>2, OutsideSort DEF Visit, Fresh, OnlySteps
<1>6. CASE Extend
  <2>1. PICK i \in todo : frontier' = Append(frontier, edges[i].to) /\ todo' = todo \ {i}
    BY <1>6 DEF Extend
  <2>2. edges[i].to \in Ids BY <1>0, <2>1, EdgeEnds DEF TypeOK
  <2>3. TypeOK' BY <1>0, <1>6, <2>1, <2>2 DEF Extend, TypeOK
  <2> QED BY <1>0, <1>6, <2>3, OutsideSort DEF Extend, Fresh, OnlySteps
<1>7. CASE SortEnds
  <2>1. TypeOK' BY <1>0, <1>7 DEF SortEnds, TypeOK, Errors
  <2> QED BY <1>0, <1>7, <2>1, OutsideSort DEF SortEnds
<1>8. CASE Answer
  <2>1. PICK o \in Operations :
            answer' = IF errors = {} THEN Accepting[o] ELSE Refusing[o]
    BY <1>8 DEF Answer
  <2>2. answer' \in Answers BY <2>1 DEF Operations, Accepting, Refusing, Answers
  <2>3. TypeOK' BY <1>0, <1>8, <2>2 DEF Answer, TypeOK
  <2> QED BY <1>0, <1>8, <2>3, OutsideSort DEF Answer
<1> QED BY <1>1, <1>2, <1>3, <1>4, <1>5, <1>6, <1>7, <1>8

(* in_degree starts with every edge unfollowed. *)
LEMMA KahnSearchEnds ==
    ASSUME KahnInv, SearchEnds
    PROVE  KahnInv'
<1>0. TypeOK /\ Fresh /\ OnlySteps BY DEF KahnInv
<1>1. /\ pc = "search" /\ pc' = "seed" /\ todo = {} /\ order = <<>> /\ queue = <<>> /\ seed = 0
      /\ UNCHANGED <<steps, edges, todo, order, queue, seed>>
      /\ in_degree' = [n \in Ids |-> Cardinality({i \in DOMAIN edges : edges[i].to = n})]
  BY <1>0 DEF SearchEnds, Fresh, definition
<1>2. \A n : ~ Queued(n)' /\ ~ Placed(n)' BY <1>1 DEF Queued, Placed
<1>3. ASSUME NEW n \in Ids PROVE Unfollowed(n)' = {i \in DOMAIN edges : edges[i].to = n}
  <2>1. \A i \in DOMAIN edges : ~ Placed(edges[i].from)' BY <1>1 DEF Placed
  <2> QED BY <1>1, <2>1 DEF Unfollowed
<1>4. Counting' BY <1>1, <1>3 DEF Counting
<1>5. in_degree' \in [Ids -> Nat]
  <2>1. ASSUME NEW n \in Ids
        PROVE  Cardinality({i \in DOMAIN edges : edges[i].to = n}) \in Nat
    <3>1. Len(edges) \in Nat /\ DOMAIN edges = 1 .. Len(edges) BY <1>0 DEF TypeOK
    <3>2. IsFiniteSet(DOMAIN edges) BY <3>1, FS_Interval
    <3>3. {i \in DOMAIN edges : edges[i].to = n} \in SUBSET DOMAIN edges OBVIOUS
    <3>4. IsFiniteSet({i \in DOMAIN edges : edges[i].to = n}) BY <3>2, <3>3, FS_Subset
    <3> QED BY <3>4, FS_CardinalityType
  <2> QED BY <1>1, <2>1
<1>6. TypeOK' BY <1>0, <1>5 DEF SearchEnds, TypeOK, Errors, definition, searchVars
<1>7. Fresh' /\ TodoPlaced' /\ Seeding' /\ Waiting' /\ Ready'
  BY <1>1, <1>2 DEF Fresh, TodoPlaced, Seeding, Waiting, Ready
<1>8. OnlySteps' /\ OrderTopological' BY <1>0, <1>1, Unmoved DEF OnlySteps
<1> QED BY <1>4, <1>6, <1>7, <1>8 DEF KahnInv

(* A step enters the initial queue at its first place in the definition. *)
LEMMA KahnSeedStep ==
    ASSUME KahnInv, SeedStep
    PROVE  KahnInv'
<1> DEFINE n0 == steps[seed + 1]
<1>0. /\ TypeOK /\ Counting /\ Ready /\ Seeding /\ Waiting /\ OnlySteps /\ OrderTopological
      /\ pc = "seed" /\ pc' = "seed" /\ order = <<>> /\ todo = {}
      /\ UNCHANGED <<steps, edges, todo, order, in_degree, pc>>
      /\ seed' = seed + 1 /\ seed \in Nat /\ seed + 1 \in 1 .. Len(steps)
      /\ Len(steps) \in Nat /\ DOMAIN steps = 1 .. Len(steps)
  BY DEF KahnInv, Seeding, SeedStep, definition, TypeOK
<1>1. n0 \in Ids /\ n0 \in StepIds BY <1>0 DEF TypeOK, StepIds, Range
<1>2. queue \in Seq(Ids) BY <1>0 DEF TypeOK
<1>3. \A m : Placed(m)' <=> Placed(m) BY <1>0 DEF Placed
<1>4. \A m : ~ Placed(m)' BY <1>0 DEF Placed
<1>5. \A n : Unfollowed(n)' = Unfollowed(n) BY <1>0, <1>3 DEF Unfollowed
<1>6. Counting' /\ TodoPlaced' /\ Fresh'
  BY <1>0, <1>5 DEF Counting, TodoPlaced, Fresh, Sorting
<1>7. OrderTopological' BY <1>0 DEF OrderTopological
<1>8. EdgesKnown' BY <1>0 DEF OnlySteps, EdgesKnown, StepIds
<1>9. CASE in_degree[n0] = 0 /\ \A k \in 1 .. seed : steps[k] # n0
  <2>1. queue' = Append(queue, n0) BY <1>9 DEF SeedStep
  <2>2. \A m : Queued(m)' <=> Queued(m) \/ m = n0
    <3>1. \A m : (\E k \in DOMAIN queue' : queue'[k] = m)
                    <=> (\E k \in DOMAIN queue : queue[k] = m) \/ m = n0
      BY <1>1, <1>2, <2>1, MembersOfAppend
    <3> QED BY <3>1 DEF Queued
  <2>3. ~ Queued(n0) BY <1>0, <1>1, <1>9 DEF Seeding
  <2>4. \A k, l \in DOMAIN queue' : k # l => queue'[k] # queue'[l]
    <3>1. \A k, l \in DOMAIN queue : k # l => queue[k] # queue[l] BY <1>0 DEF Ready, Sorting
    <3>2. \A k \in DOMAIN queue : queue[k] # n0 BY <2>3 DEF Queued
    <3>3. /\ DOMAIN queue' = 1 .. Len(queue) + 1 /\ DOMAIN queue = 1 .. Len(queue)
          /\ Len(queue) \in Nat /\ queue'[Len(queue) + 1] = n0
          /\ \A k \in 1 .. Len(queue) : queue'[k] = queue[k]
      BY <1>1, <1>2, <2>1
    <3> QED BY <3>1, <3>2, <3>3
  <2>5. Ready' BY <1>0, <1>4, <1>9, <2>2, <2>4 DEF Ready, Sorting
  <2>6. Seeding' BY <1>0, <2>2 DEF Seeding
  <2>7. Waiting' BY <1>0, <2>2 DEF Waiting
  <2>8. OnlySteps' BY <1>0, <1>1, <1>4, <1>8, <2>2 DEF OnlySteps, StepIds
  <2>9. TypeOK'
    <3>1. queue' \in Seq(Ids) BY <1>1, <1>2, <2>1
    <3> QED BY <1>0, <3>1 DEF SeedStep, TypeOK, definition, searchVars
  <2> QED BY <1>6, <1>7, <2>5, <2>6, <2>7, <2>8, <2>9 DEF KahnInv
<1>10. CASE ~ (in_degree[n0] = 0 /\ \A k \in 1 .. seed : steps[k] # n0)
  <2>1. queue' = queue BY <1>10 DEF SeedStep
  <2>2. \A m : Queued(m)' <=> Queued(m) BY <2>1 DEF Queued
  <2>3. Ready' BY <1>0, <1>3, <2>1, <2>2 DEF Ready, Sorting
  <2>4. Seeding' BY <1>0, <2>2 DEF Seeding
  <2>5. Waiting'
    <3> SUFFICES ASSUME NEW j \in 1 .. seed + 1, in_degree[steps[j]] = 0
                 PROVE  Queued(steps[j])
      BY <1>0, <2>2 DEF Waiting
    <3>1. CASE j \in 1 .. seed BY <1>0, <3>1 DEF Waiting
    <3>2. CASE j = seed + 1
      <4>1. PICK k \in 1 .. seed : steps[k] = n0 BY <1>10, <3>2
      <4> QED BY <1>0, <3>2, <4>1 DEF Waiting
    <3> QED BY <1>0, <3>1, <3>2
  <2>6. OnlySteps' BY <1>0, <1>3, <1>8, <2>2 DEF OnlySteps, StepIds
  <2>7. TypeOK' BY <1>0, <2>1 DEF SeedStep, TypeOK, definition, searchVars
  <2> QED BY <1>6, <1>7, <2>3, <2>4, <2>5, <2>6, <2>7 DEF KahnInv
<1> QED BY <1>9, <1>10

(* The initial queue is complete: every step without an edge into it is in
   it. *)
LEMMA KahnSeedEnds ==
    ASSUME KahnInv, SeedEnds
    PROVE  KahnInv'
<1>0. /\ TypeOK /\ Counting /\ Ready /\ Seeding /\ Waiting /\ OnlySteps
      /\ pc = "seed" /\ pc' = "sort" /\ seed = Len(steps)
      /\ UNCHANGED <<steps, edges, todo, order, in_degree, queue, seed>>
  BY DEF KahnInv, SeedEnds, definition, orderVars
<1>1. /\ \A m : (Queued(m)' <=> Queued(m)) /\ (Placed(m)' <=> Placed(m))
      /\ OrderTopological' /\ (EdgesKnown' <=> EdgesKnown)
      /\ \A n \in Ids : Queued(n)' \/ Placed(n)' => n \in StepIds'
  BY <1>0, Unmoved
<1>2. \A n : Unfollowed(n)' = Unfollowed(n) BY <1>0, <1>1 DEF Unfollowed
<1>3. TypeOK' BY <1>0 DEF SeedEnds, TypeOK, searchVars
<1>4. Fresh' /\ Counting' /\ TodoPlaced' /\ Ready' /\ Seeding'
  BY <1>0, <1>1, <1>2 DEF Fresh, Counting, TodoPlaced, Ready, Seeding, Sorting
<1>5. Waiting' BY <1>0, <1>1 DEF Waiting
<1>6. OnlySteps' BY <1>0, <1>1 DEF OnlySteps
<1> QED BY <1>1, <1>3, <1>4, <1>5, <1>6 DEF KahnInv

(* The step that is placed has no unfollowed edge: all it depends on is placed
   before it. *)
LEMMA KahnPop ==
    ASSUME KahnInv, Pop
    PROVE  KahnInv'
<1> DEFINE n0 == Head(queue)
<1>0. /\ TypeOK /\ Counting /\ Ready /\ Waiting /\ OnlySteps /\ OrderTopological
      /\ pc = "sort" /\ pc' = "sort" /\ todo = {} /\ queue # <<>>
      /\ order' = Append(order, n0) /\ queue' = Tail(queue) /\ todo' = EdgesFrom(n0)
      /\ UNCHANGED <<steps, edges, in_degree, seed>>
  BY DEF KahnInv, Pop, definition
<1>1. /\ n0 \in Ids /\ queue' \in Seq(Ids) /\ order' \in Seq(Ids) /\ order \in Seq(Ids)
      /\ DOMAIN queue = 1 .. Len(queue) /\ Len(queue) \in Nat \ {0}
      /\ DOMAIN queue' = 1 .. Len(queue) - 1
      /\ \A k \in 1 .. Len(queue) - 1 : queue'[k] = queue[k + 1]
  BY <1>0, TailIsShift DEF TypeOK
<1>2. /\ \A m \in Ids : Placed(m)' <=> Placed(m) \/ m = n0
      /\ \A m \in Ids : Queued(m) <=> Queued(m)' \/ m = n0
      /\ \A m \in Ids : m = n0 => ~ Queued(m)'
      /\ \A n \in Ids : Unfollowed(n)' = Unfollowed(n)
  BY PopKeepsUnfollowed
<1>3. TypeOK'
  <2>1. todo' \subseteq DOMAIN edges BY <1>0 DEF EdgesFrom
  <2> QED BY <1>0, <1>1, <2>1 DEF Pop, TypeOK, definition, searchVars
<1>4. Counting' BY <1>0, <1>2 DEF Counting, Sorting
<1>5. TodoPlaced' BY <1>0, <1>1, <1>2 DEF TodoPlaced, EdgesFrom
<1>6. Ready'
  <2>1. \A k, l \in DOMAIN queue' : k # l => queue'[k] # queue'[l]
    <3>1. \A k, l \in DOMAIN queue : k # l => queue[k] # queue[l] BY <1>0 DEF Ready, Sorting
    <3> SUFFICES ASSUME NEW k \in DOMAIN queue', NEW l \in DOMAIN queue', k # l
                 PROVE  queue'[k] # queue'[l]
      OBVIOUS
    <3>2. k + 1 \in DOMAIN queue /\ l + 1 \in DOMAIN queue /\ k + 1 # l + 1 BY <1>1
    <3>3. queue[k + 1] # queue[l + 1] BY <3>1, <3>2
    <3> QED BY <1>1, <3>3
  <2>2. \A n \in Ids : Queued(n)' \/ Placed(n)' => in_degree'[n] = 0
    BY <1>0, <1>2 DEF Ready, Sorting
  <2>3. \A n \in Ids : ~ (Queued(n)' /\ Placed(n)')
    BY <1>0, <1>2 DEF Ready, Sorting
  <2> QED BY <2>1, <2>2, <2>3 DEF Ready
<1>7. Fresh' /\ Seeding' BY <1>0 DEF Fresh, Seeding
<1>8. Waiting'
  <2>1. \A j \in 1 .. Len(steps) : steps[j] \in Ids BY <1>0 DEF TypeOK
  <2> QED BY <1>0, <1>2, <2>1 DEF Waiting
<1>9. OnlySteps' BY <1>0, <1>2 DEF OnlySteps, EdgesKnown, StepIds
<1>10. OrderTopological'
  <2>1. /\ DOMAIN order = 1 .. Len(order) /\ DOMAIN order' = 1 .. Len(order) + 1
        /\ Len(order) \in Nat /\ order'[Len(order) + 1] = n0
        /\ \A k \in 1 .. Len(order) : order'[k] = order[k]
    BY <1>0, <1>1
  <2>2. \A m, n : Precedes(m, n)' <=> Precedes(m, n) BY <1>0 DEF Precedes
  <2>3. Queued(n0) BY <1>1, <1>2
  <2>4. ~ Placed(n0) /\ in_degree[n0] = 0 BY <1>0, <1>1, <2>3 DEF Ready, Sorting
  <2>5. Unfollowed(n0) = {} BY <1>0, <1>1, <2>4, UnfollowedFinite DEF Counting, Sorting
  <2>6. ASSUME NEW m \in Ids, Precedes(m, n0) PROVE Placed(m)
    BY <2>5, <2>6 DEF Precedes, Unfollowed
  <2>7. ASSUME NEW q \in DOMAIN order'
        PROVE  /\ \A p \in 1 .. q - 1 : order'[p] # order'[q]
               /\ \A m \in Ids : Precedes(m, order'[q]) =>
                     \E p \in 1 .. q - 1 : order'[p] = m
    <3>1. CASE q \in 1 .. Len(order)
      <4>1. \A p \in 1 .. q - 1 : order'[p] = order[p] BY <2>1, <3>1
      <4>2. order'[q] = order[q] /\ q \in DOMAIN order BY <2>1, <3>1
      <4> QED BY <1>0, <4>1, <4>2 DEF OrderTopological
    <3>2. CASE q = Len(order) + 1
      <4>1. q - 1 = Len(order) /\ order'[q] = n0 BY <2>1, <3>2
      <4>2. \A p \in 1 .. Len(order) : order'[p] # n0 BY <2>1, <2>4 DEF Placed
      <4>3. ASSUME NEW m \in Ids, Precedes(m, n0)
            PROVE  \E p \in 1 .. Len(order) : order'[p] = m
        BY <2>1, <2>6, <4>3 DEF Placed
      <4> QED BY <4>1, <4>2, <4>3
    <3> QED BY <2>1, <3>1, <3>2
  <2> QED BY <2>2, <2>7 DEF OrderTopological
<1> QED BY <1>3, <1>4, <1>5, <1>6, <1>7, <1>8, <1>9, <1>10 DEF KahnInv

(* A step is queued when its last edge is followed: until then its count is
   positive, so it was neither queued nor placed. *)
LEMMA KahnFollow ==
    ASSUME KahnInv, Follow
    PROVE  KahnInv'
<1>0. /\ TypeOK /\ Counting /\ Ready /\ Waiting /\ OnlySteps /\ OrderTopological /\ TodoPlaced
      /\ pc = "sort" /\ pc' = "sort" /\ Sorting
      /\ UNCHANGED <<steps, edges, order, seed>>
  BY DEF KahnInv, Follow, definition, Sorting
<1>1. PICK i \in todo :
          /\ in_degree' = [in_degree EXCEPT ![edges[i].to] = @ - 1]
          /\ queue' = IF in_degree'[edges[i].to] = 0
                      THEN Append(queue, edges[i].to) ELSE queue
          /\ todo' = todo \ {i}
  BY DEF Follow
<1> DEFINE n0 == edges[i].to
<1>2. /\ i \in DOMAIN edges /\ n0 \in Ids /\ i \in Unfollowed(n0)
      /\ \A n \in Ids : Unfollowed(n)' = IF n = n0 THEN Unfollowed(n) \ {i} ELSE Unfollowed(n)
  BY <1>0, <1>1, FollowTakesOne
<1>3. \A n \in Ids : in_degree[n] \in Nat /\ in_degree[n] = Cardinality(Unfollowed(n))
  BY <1>0 DEF TypeOK, Counting
<1>4. in_degree[n0] \in Nat \ {0}
  BY <1>0, <1>2, <1>3, UnfollowedFinite
<1>5. /\ in_degree' \in [Ids -> Nat] /\ in_degree'[n0] = in_degree[n0] - 1
      /\ \A n \in Ids : n # n0 => in_degree'[n] = in_degree[n]
  BY <1>0, <1>1, <1>2, <1>4 DEF TypeOK
<1>6. Counting'
  <2>1. Cardinality(Unfollowed(n0) \ {i}) = Cardinality(Unfollowed(n0)) - 1
    BY <1>0, <1>2, UnfollowedFinite, FS_RemoveElement
  <2>2. \A n \in Ids : in_degree'[n] = Cardinality(Unfollowed(n)')
    BY <1>2, <1>3, <1>5, <2>1
  <2> QED BY <2>2 DEF Counting
<1>7. ~ Queued(n0) /\ ~ Placed(n0) BY <1>0, <1>2, <1>4 DEF Ready
<1>8. \A m : Placed(m)' <=> Placed(m) BY <1>0 DEF Placed
<1>9. \A m \in Ids : Queued(m)' <=> Queued(m) \/ (m = n0 /\ in_degree'[n0] = 0)
  <2>1. CASE in_degree'[n0] = 0
    <3>1. queue' = Append(queue, n0) /\ queue \in Seq(Ids) BY <1>0, <1>1, <2>1 DEF TypeOK
    <3>2. \A m : (\E k \in DOMAIN queue' : queue'[k] = m)
                    <=> (\E k \in DOMAIN queue : queue[k] = m) \/ m = n0
      BY <1>2, <3>1, MembersOfAppend
    <3> QED BY <2>1, <3>2 DEF Queued
  <2>2. CASE in_degree'[n0] # 0 BY <1>1, <2>2 DEF Queued
  <2> QED BY <2>1, <2>2
<1>10. \A k, l \in DOMAIN queue' : k # l => queue'[k] # queue'[l]
  <2>1. \A k, l \in DOMAIN queue : k # l => queue[k] # queue[l] BY <1>0 DEF Ready
  <2>2. CASE in_degree'[n0] = 0
    <3>1. queue' = Append(queue, n0) /\ queue \in Seq(Ids) BY <1>0, <1>1, <2>2 DEF TypeOK
    <3>2. \A k \in DOMAIN queue : queue[k] # n0 BY <1>7 DEF Queued
    <3>3. /\ DOMAIN queue' = 1 .. Len(queue) + 1 /\ DOMAIN queue = 1 .. Len(queue)
          /\ Len(queue) \in Nat /\ queue'[Len(queue) + 1] = n0
          /\ \A k \in 1 .. Len(queue) : queue'[k] = queue[k]
      BY <1>2, <3>1
    <3> QED BY <2>1, <3>2, <3>3
  <2>3. CASE in_degree'[n0] # 0 BY <1>1, <2>1, <2>3
  <2> QED BY <2>2, <2>3
<1>11. Ready'
  <2>1. \A n \in Ids : Queued(n)' \/ Placed(n)' => in_degree'[n] = 0
    BY <1>0, <1>5, <1>7, <1>8, <1>9 DEF Ready
  <2>2. \A n \in Ids : ~ (Queued(n)' /\ Placed(n)') BY <1>0, <1>7, <1>8, <1>9 DEF Ready
  <2> QED BY <1>10, <2>1, <2>2 DEF Ready
<1>12. Waiting'
  <2>1. \A j \in 1 .. Len(steps) : steps[j] \in Ids BY <1>0 DEF TypeOK
  <2>2. ASSUME NEW j \in 1 .. Len(steps), in_degree'[steps[j]] = 0
        PROVE  Queued(steps[j])' \/ Placed(steps[j])'
    <3>1. CASE steps[j] = n0
      <4>1. Queued(n0)' BY <1>0, <1>2, <1>9, <2>2, <3>1
      <4> QED BY <1>0, <3>1, <4>1 DEF Queued
    <3>2. CASE steps[j] # n0
      <4>1. Queued(steps[j]) \/ Placed(steps[j]) BY <1>0, <1>5, <2>1, <2>2, <3>2 DEF Waiting
      <4> QED BY <1>0, <1>8, <1>9, <2>1, <4>1
    <3> QED BY <3>1, <3>2
  <2> QED BY <1>0, <2>2 DEF Waiting
<1>13. OnlySteps'
  <2>1. EdgesKnown BY <1>0 DEF OnlySteps
  <2>2. n0 \in StepIds BY <1>2, <2>1 DEF EdgesKnown
  <2>3. EdgesKnown' /\ StepIds' = StepIds BY <1>0, <2>1 DEF EdgesKnown, StepIds
  <2> QED BY <1>0, <1>8, <1>9, <2>2, <2>3 DEF OnlySteps
<1>14. OrderTopological' BY <1>0 DEF OrderTopological, Precedes
<1>15. TodoPlaced' BY <1>0, <1>1, <1>8 DEF TodoPlaced
<1>16. Fresh' /\ Seeding' BY <1>0 DEF Fresh, Seeding
<1>17. TypeOK'
  <2>1. queue' \in Seq(Ids) BY <1>0, <1>1, <1>2 DEF TypeOK
  <2>2. todo' \subseteq DOMAIN edges BY <1>0, <1>1 DEF TypeOK
  <2> QED BY <1>0, <1>5, <2>1, <2>2 DEF Follow, TypeOK, definition, searchVars
<1> QED BY <1>6, <1>11, <1>12, <1>13, <1>14, <1>15, <1>16, <1>17 DEF KahnInv

(* Every action preserves the invariant of the sort. *)
LEMMA KahnInductive == KahnInv /\ [Next]_vars => KahnInv'
<1> SUFFICES ASSUME KahnInv, [Next]_vars PROVE KahnInv' OBVIOUS
<1>1. CASE \/ ModelValidate \/ ValidateSteps \/ ConfigRaises \/ ValidateEdges
           \/ Visit \/ Extend \/ SortEnds \/ Answer
  BY <1>1, KahnAround
<1>2. CASE SearchEnds BY <1>2, KahnSearchEnds
<1>3. CASE SeedStep BY <1>3, KahnSeedStep
<1>4. CASE SeedEnds BY <1>4, KahnSeedEnds
<1>5. CASE Pop BY <1>5, KahnPop
<1>6. CASE Follow BY <1>6, KahnFollow
<1>7. CASE UNCHANGED vars
  <2>1. /\ UNCHANGED <<steps, edges, pc, frontier, reachable, todo, in_degree, seed>>
        /\ UNCHANGED <<queue, order, errors, answer>>
    BY <1>7 DEF vars
  <2>2. TypeOK' BY <2>1 DEF KahnInv, TypeOK
  <2>3. \A n : (Queued(n)' <=> Queued(n)) /\ (Placed(n)' <=> Placed(n))
    BY <2>1 DEF Queued, Placed
  <2>4. \A n : Unfollowed(n)' = Unfollowed(n) BY <2>1, <2>3 DEF Unfollowed
  <2>5. Fresh' /\ Counting' /\ TodoPlaced' /\ Ready' /\ Seeding' /\ Waiting'
    BY <2>1, <2>3, <2>4
    DEF KahnInv, Fresh, Counting, TodoPlaced, Ready, Seeding, Waiting, Sorting
  <2>6. OnlySteps' /\ OrderTopological' BY <2>1, Unmoved DEF KahnInv, OnlySteps
  <2> QED BY <2>2, <2>5, <2>6 DEF KahnInv
<1> QED BY <1>1, <1>2, <1>3, <1>4, <1>5, <1>6, <1>7 DEF Next, Validation, Returned

(* Nothing is queued or placed initially. *)
LEMMA KahnInitially == Init => KahnInv
<1> SUFFICES ASSUME Init PROVE KahnInv OBVIOUS
<1>1. \A S, n, f : f \in [1 .. n -> S] /\ n \in Nat => f \in Seq(S) OBVIOUS
<1>2. steps \in Seq(Ids) /\ edges \in Seq(Edge)
  BY <1>1, WorkflowAssumption DEF Init, SeqUpTo
<1>3. TypeOK BY <1>2 DEF Init, TypeOK, Answers
<1>4. \A n : ~ Queued(n) /\ ~ Placed(n) BY DEF Init, Queued, Placed
<1>5. OrderTopological BY DEF Init, OrderTopological
<1> QED BY <1>3, <1>4, <1>5
        DEF Init, KahnInv, Fresh, Counting, TodoPlaced, Ready, Seeding, Waiting, OnlySteps, Sorting

(* Type correctness of the validation; in particular get_step_order's counts
   never go below zero. *)
THEOREM TypeCorrect == Spec => []TypeOK
<1>1. KahnInv => TypeOK BY DEF KahnInv
<1> QED BY <1>1, KahnInitially, KahnInductive, PTL DEF Spec

(* get_step_order places no step before one it depends on, nor twice, for
   definitions of any size and shape. *)
THEOREM OrderIsTopological == Spec => []OrderTopological
<1>1. KahnInv => OrderTopological BY DEF KahnInv
<1> QED BY <1>1, KahnInitially, KahnInductive, PTL DEF Spec

-----------------------------------------------------------------------------
(* Why CyclesExactly holds: when the queue runs empty, the steps that were not
   placed all wait for each other, and the steps that were placed are on no
   cycle. *)

(* The order is an injection of its places into the steps, and the definition
   a surjection of its places onto them. *)
LEMMA OrderInjects ==
    ASSUME KahnInv
    PROVE  /\ Len(order) \in Nat /\ Len(steps) \in Nat
           /\ IsFiniteSet(StepIds)
           /\ order \in Injection(1 .. Len(order), StepIds)
           /\ steps \in Surjection(1 .. Len(steps), StepIds)
           /\ Duplicates <=> steps \notin Injection(1 .. Len(steps), StepIds)
           /\ Cardinality(1 .. Len(order)) = Len(order)
           /\ Cardinality(1 .. Len(steps)) = Len(steps)
<1>0. /\ TypeOK /\ OnlySteps /\ OrderTopological
      /\ order \in Seq(Ids) /\ steps \in Seq(Ids)
  BY DEF KahnInv, TypeOK
<1>1. /\ Len(order) \in Nat /\ DOMAIN order = 1 .. Len(order) /\ order \in [1 .. Len(order) -> Ids]
      /\ Len(steps) \in Nat /\ DOMAIN steps = 1 .. Len(steps) /\ steps \in [1 .. Len(steps) -> Ids]
  BY <1>0
<1>2. \A k \in 1 .. Len(order) : order[k] \in StepIds
  BY <1>0, <1>1 DEF OnlySteps, Placed
<1>3. \A k, l \in 1 .. Len(order) : order[k] = order[l] => k = l
  <2> SUFFICES ASSUME NEW k \in 1 .. Len(order), NEW l \in 1 .. Len(order), k < l
               PROVE  order[k] # order[l]
    BY <1>1
  <2>1. k \in 1 .. l - 1 BY <1>1
  <2> QED BY <1>0, <1>1, <2>1 DEF OrderTopological
<1>4. order \in Injection(1 .. Len(order), StepIds)
  BY <1>1, <1>2, <1>3 DEF Injection, IsInjective
<1>5. steps \in Surjection(1 .. Len(steps), StepIds)
  BY <1>1 DEF Surjection, StepIds, Range
<1>6. Duplicates <=> steps \notin Injection(1 .. Len(steps), StepIds)
  <2>1. steps \in [1 .. Len(steps) -> StepIds] BY <1>5 DEF Surjection
  <2> QED BY <1>1, <2>1 DEF Duplicates, Injection, IsInjective
<1>7. IsFiniteSet(1 .. Len(steps)) /\ IsFiniteSet(1 .. Len(order)) BY <1>1, FS_Interval
<1>8. IsFiniteSet(StepIds) BY <1>5, <1>7, FS_Surjection
<1>9. ASSUME NEW n \in Nat PROVE Cardinality(1 .. n) = n
  <2>1. Cardinality(1 .. n) = IF 1 > n THEN 0 ELSE n - 1 + 1 BY FS_Interval
  <2> QED BY <2>1
<1> QED BY <1>1, <1>4, <1>5, <1>6, <1>8, <1>9

(* The first of a set of placed steps has no predecessor in the set. *)
LEMMA PlacedHasFirst ==
    ASSUME KahnInv, NEW S \in SUBSET StepIds, S # {}, \A n \in S : Placed(n)
    PROVE  \E n \in S : \A m \in S : ~ Precedes(m, n)
<1> DEFINE T == {k \in DOMAIN order : order[k] \in S}
<1>0. order \in Seq(Ids) /\ steps \in Seq(Ids) BY DEF KahnInv, TypeOK
<1>1. T # {} /\ T \subseteq Nat BY <1>0 DEF Placed
<1>2. PICK q \in T : \A k \in T : ~ (<<k, q>> \in OpToRel(<, Nat))
  BY <1>1, NatLessThanWellFounded, WFMin
<1>3. \A k \in T : ~ (k < q) BY <1>1, <1>2 DEF OpToRel
<1>4. ASSUME NEW m \in S, Precedes(m, order[q]) PROVE FALSE
  <2>1. m \in Ids BY <1>0 DEF StepIds, Range
  <2>2. PICK k \in 1 .. q - 1 : order[k] = m
    BY <1>4, <2>1 DEF KahnInv, OrderTopological
  <2>3. k \in T /\ k < q BY <1>0, <2>2
  <2> QED BY <1>3, <2>3
<1> QED BY <1>4

(* When the queue is empty, the steps that were not placed form a cycle. *)
LEMMA UnplacedIsCyclic ==
    ASSUME KahnInv, pc = "sort", todo = {}, queue = <<>>,
           NEW u \in StepIds, ~ Placed(u)
    PROVE  Cyclic
<1> DEFINE U == {n \in StepIds : ~ Placed(n)}
<1>1. U \in (SUBSET StepIds) \ {{}} OBVIOUS
<1>2. ASSUME NEW n \in U PROVE \E m \in U : Precedes(m, n)
  <2>0. TypeOK /\ Sorting BY DEF KahnInv, Sorting
  <2>1. PICK j \in 1 .. Len(steps) : steps[j] = n BY <2>0 DEF TypeOK, StepIds, Range
  <2>2. n \in Ids BY <2>0, <2>1 DEF TypeOK
  <2>3. ~ Queued(n) BY DEF Queued
  <2>4. in_degree[n] # 0 BY <2>1, <2>3 DEF KahnInv, Waiting
  <2>5. Unfollowed(n) # {} BY <2>0, <2>2, <2>4, UnfollowedFinite DEF KahnInv, Counting
  <2>6. PICK i \in DOMAIN edges : edges[i].to = n /\ ~ Placed(edges[i].from)
    BY <2>5 DEF Unfollowed
  <2>7. edges[i].from \in StepIds BY <2>6 DEF KahnInv, OnlySteps, EdgesKnown
  <2> QED BY <2>6, <2>7 DEF Precedes
<1> QED BY <1>1, <1>2 DEF Cyclic

(* What the comparison of lengths at the end of get_step_order tells. *)
LEMMA ShortIsCyclic ==
    ASSUME KahnInv, pc = "sort", todo = {}, queue = <<>>
    PROVE  Len(order) # Len(steps) <=> Cyclic \/ Duplicates
<1>0. /\ Len(order) \in Nat /\ Len(steps) \in Nat /\ IsFiniteSet(StepIds)
      /\ order \in Injection(1 .. Len(order), StepIds)
      /\ steps \in Surjection(1 .. Len(steps), StepIds)
      /\ Duplicates <=> steps \notin Injection(1 .. Len(steps), StepIds)
      /\ Cardinality(1 .. Len(order)) = Len(order)
      /\ Cardinality(1 .. Len(steps)) = Len(steps)
  BY OrderInjects
<1>1. IsFiniteSet(1 .. Len(steps)) BY <1>0, FS_Interval
<1>2. /\ Len(order) <= Cardinality(StepIds)
      /\ Len(order) = Cardinality(StepIds) <=> order \in Surjection(1 .. Len(order), StepIds)
  BY <1>0, FS_Injection
<1>3. /\ Cardinality(StepIds) <= Len(steps)
      /\ Cardinality(StepIds) = Len(steps) <=> ~ Duplicates
  BY <1>0, <1>1, FS_Surjection
<1>4. Cardinality(StepIds) \in Nat BY <1>0, FS_CardinalityType
<1>5. order \in Surjection(1 .. Len(order), StepIds) <=> \A n \in StepIds : Placed(n)
  <2>1. order \in Seq(Ids) /\ DOMAIN order = 1 .. Len(order) BY DEF KahnInv, TypeOK
  <2>2. order \in [1 .. Len(order) -> StepIds] BY <1>0 DEF Injection
  <2> QED BY <2>1, <2>2 DEF Surjection, Placed
<1>6. (\A n \in StepIds : Placed(n)) => ~ Cyclic
  <2> SUFFICES ASSUME \A n \in StepIds : Placed(n), Cyclic PROVE FALSE OBVIOUS
  <2>1. PICK S \in (SUBSET StepIds) \ {{}} : \A n \in S : \E m \in S : Precedes(m, n)
    BY DEF Cyclic
  <2> QED BY <2>1, PlacedHasFirst
<1>7. ~ (\A n \in StepIds : Placed(n)) => Cyclic BY UnplacedIsCyclic
<1> QED BY <1>0, <1>2, <1>3, <1>4, <1>5, <1>6, <1>7

-----------------------------------------------------------------------------
(* Why UnreachableExactly holds: the search keeps, of every closed set of
   steps that holds the first one, only members; and when it ends, what it has
   marked is closed. *)

Pending(n) == \E k \in DOMAIN frontier : frontier[k] = n

Closed(S) ==
    /\ steps[1] \in S
    /\ \A m \in S, n \in StepIds : Precedes(m, n) => n \in S

Unsearched ==
    pc \in {"schema", "steps", "edges"} => frontier = <<>> /\ reachable = {}

SearchInv ==
    pc = "search" =>
        /\ edges # <<>> => steps[1] \in reachable \/ Pending(steps[1])
        /\ \A i \in todo : edges[i].from \in reachable
        /\ \A i \in DOMAIN edges : edges[i].from \in reachable =>
              edges[i].to \in reachable \/ Pending(edges[i].to) \/ i \in todo
        /\ \A S \in SUBSET StepIds : Closed(S) =>
              \A n \in Ids : n \in reachable \/ Pending(n) => n \in S

CyclesRight == "cycles" \in errors <=> Cyclic \/ Duplicates
UnreachableRight == "unreachable" \in errors <=> edges # <<>> /\ ~ Connected

(* What has been reported at each position. *)
Reported ==
    /\ pc \in {"schema", "steps", "edges", "search"} =>
          errors \cap {"schema", "config_raised", "unreachable", "cycles"} = {}
    /\ pc \in {"seed", "sort"} =>
          /\ errors \cap {"schema", "config_raised", "cycles"} = {}
          /\ UnreachableRight
    /\ pc \in {"answer", "end"} /\ errors \cap {"schema", "config_raised"} = {} =>
          CyclesRight /\ UnreachableRight

ReportInv == KahnInv /\ Unsearched /\ SearchInv /\ Reported

(* The steps are a closed set. *)
LEMMA StepsClosed ==
    ASSUME EdgesKnown, TypeOK, edges # <<>>
    PROVE  Closed(StepIds) /\ StepIds \subseteq Ids /\ steps[1] \in Ids
<1>1. 1 \in DOMAIN steps /\ DOMAIN steps = 1 .. Len(steps) BY StepsNotEmpty DEF TypeOK
<1>2. steps[1] \in StepIds BY <1>1 DEF StepIds, Range
<1>3. \A k \in DOMAIN steps : steps[k] \in Ids BY <1>1 DEF TypeOK
<1>4. StepIds \subseteq Ids BY <1>3 DEF StepIds, Range
<1> QED BY <1>2, <1>4 DEF Closed

(* When the search ends, every step is marked exactly if all are reachable. *)
LEMMA MarkedIsConnected ==
    ASSUME ReportInv, pc = "search", todo = {}, frontier = <<>>, edges # <<>>
    PROVE  StepIds \subseteq reachable <=> Connected
<1>0. TypeOK /\ EdgesKnown BY DEF ReportInv, KahnInv, OnlySteps
<1>1. \A n : ~ Pending(n) BY DEF Pending
<1>2. Closed(StepIds) /\ StepIds \subseteq Ids /\ reachable \subseteq Ids
  BY <1>0, StepsClosed DEF TypeOK
<1>3. reachable \subseteq StepIds BY <1>2 DEF ReportInv, SearchInv
<1>4. Closed(reachable)
  <2>1. steps[1] \in reachable BY <1>1 DEF ReportInv, SearchInv
  <2>2. \A i \in DOMAIN edges : edges[i].from \in reachable => edges[i].to \in reachable
    BY <1>1 DEF ReportInv, SearchInv
  <2> QED BY <2>1, <2>2 DEF Closed, Precedes
<1>5. \A S \in SUBSET StepIds : Closed(S) => reachable \subseteq S
  BY <1>2 DEF ReportInv, SearchInv
<1>6. Connected <=> \A S \in SUBSET StepIds : Closed(S) => S = StepIds
  BY DEF Connected, Closed
<1> QED BY <1>3, <1>4, <1>5, <1>6

(* The definition does not change, nor do the references. *)
LEMMA ReferencesFixed ==
    ASSUME UNCHANGED <<steps, edges>>
    PROVE  /\ (Cyclic \/ Duplicates)' <=> Cyclic \/ Duplicates
           /\ (edges # <<>> /\ ~ Connected)' <=> edges # <<>> /\ ~ Connected
           /\ StepIds' = StepIds
           /\ \A S : Closed(S)' <=> Closed(S)
  BY DEF Cyclic, Duplicates, Connected, StepIds, Precedes, Closed

(* The search takes the next pending step. *)
LEMMA SearchVisit ==
    ASSUME ReportInv, Visit
    PROVE  SearchInv'
<1> DEFINE n0 == Head(frontier)
<1>0. /\ TypeOK /\ SearchInv /\ pc = "search" /\ todo = {} /\ frontier # <<>>
      /\ UNCHANGED <<steps, edges>> /\ frontier' = Tail(frontier) /\ frontier \in Seq(Ids)
  BY DEF ReportInv, KahnInv, Visit, definition, TypeOK
<1>1. /\ n0 \in Ids /\ DOMAIN frontier = 1 .. Len(frontier) /\ n0 = frontier[1]
      /\ Len(frontier) \in Nat \ {0} /\ DOMAIN frontier' = 1 .. Len(frontier) - 1
      /\ \A k \in 1 .. Len(frontier) - 1 : frontier'[k] = frontier[k + 1]
  BY <1>0, TailIsShift
<1>2. \A n : Pending(n) <=> Pending(n)' \/ n = n0
  <2>1. ASSUME NEW n, Pending(n), n # n0 PROVE Pending(n)'
    <3>1. PICK k \in 1 .. Len(frontier) : frontier[k] = n BY <1>1, <2>1 DEF Pending
    <3>2. k - 1 \in 1 .. Len(frontier) - 1 /\ frontier'[k - 1] = n BY <1>1, <2>1, <3>1
    <3> QED BY <1>1, <3>2 DEF Pending
  <2>2. ASSUME NEW n, Pending(n)' PROVE Pending(n)
    <3>1. PICK k \in 1 .. Len(frontier) - 1 : frontier'[k] = n BY <1>1, <2>2 DEF Pending
    <3>2. k + 1 \in 1 .. Len(frontier) /\ frontier[k + 1] = n BY <1>1, <3>1
    <3> QED BY <1>1, <3>2 DEF Pending
  <2>3. Pending(n0) BY <1>1 DEF Pending
  <2> QED BY <2>1, <2>2, <2>3
<1>3. /\ n0 \in reachable'
      /\ reachable \subseteq reachable' /\ reachable' \subseteq reachable \cup {n0}
      /\ n0 \notin reachable => todo' = EdgesFrom(n0)
      /\ n0 \in reachable => todo' = {} /\ reachable' = reachable
  BY <1>0 DEF Visit
<1>4. \A i \in todo' : edges[i].from \in reachable' BY <1>3 DEF EdgesFrom
<1>5. ASSUME NEW i \in DOMAIN edges, edges[i].from \in reachable'
      PROVE  edges[i].to \in reachable' \/ (\E n : n = edges[i].to /\ Pending(n)') \/ i \in todo'
  <2>1. CASE edges[i].from \in reachable BY <1>0, <1>2, <1>3, <2>1 DEF SearchInv
  <2>2. CASE edges[i].from \notin reachable BY <1>3, <1>5, <2>2 DEF EdgesFrom
  <2> QED BY <2>1, <2>2
<1>6. ASSUME NEW S \in SUBSET StepIds, Closed(S), NEW n \in Ids, n \in reachable' \/ Pending(n)'
      PROVE  n \in S
  BY <1>0, <1>2, <1>3, <1>6 DEF SearchInv
<1>7. edges # <<>> => steps[1] \in reachable' \/ (\E n : n = steps[1] /\ Pending(n)')
  BY <1>0, <1>2, <1>3 DEF SearchInv
<1>8. /\ edges' # <<>> => steps'[1] \in reachable' \/ Pending(steps[1])'
      /\ \A i \in DOMAIN edges' : edges'[i].from \in reachable' =>
            edges'[i].to \in reachable' \/ Pending(edges[i].to)' \/ i \in todo'
  BY <1>0, <1>5, <1>7 DEF Pending
<1> QED BY <1>0, <1>4, <1>6, <1>8, ReferencesFixed DEF SearchInv

(* The search follows one edge of the step it visits. *)
LEMMA SearchExtend ==
    ASSUME ReportInv, Extend
    PROVE  SearchInv'
<1>0. /\ TypeOK /\ SearchInv /\ pc = "search" /\ EdgesKnown
      /\ UNCHANGED <<steps, edges, reachable>> /\ frontier \in Seq(Ids)
  BY DEF ReportInv, KahnInv, OnlySteps, Extend, definition, TypeOK
<1>1. PICK i \in todo : frontier' = Append(frontier, edges[i].to) /\ todo' = todo \ {i}
  BY DEF Extend
<1> DEFINE n0 == edges[i].to
<1>2. /\ i \in DOMAIN edges /\ n0 \in Ids /\ n0 \in StepIds
      /\ edges[i].from \in reachable /\ edges[i].from \in Ids
  BY <1>0, <1>1, EdgeEnds DEF TypeOK, SearchInv, EdgesKnown
<1>3. \A n : Pending(n)' <=> Pending(n) \/ n = n0
  <2>1. \A n : (\E k \in DOMAIN frontier' : frontier'[k] = n)
                  <=> (\E k \in DOMAIN frontier : frontier[k] = n) \/ n = n0
    BY <1>0, <1>1, <1>2, MembersOfAppend
  <2> QED BY <2>1 DEF Pending
<1>4. ASSUME NEW S \in SUBSET StepIds, Closed(S), NEW n \in Ids, n \in reachable' \/ Pending(n)'
      PROVE  n \in S
  <2>1. edges[i].from \in S BY <1>0, <1>2, <1>4 DEF SearchInv
  <2>2. Precedes(edges[i].from, n0) BY <1>2 DEF Precedes
  <2>3. n0 \in S BY <1>2, <1>4, <2>1, <2>2 DEF Closed
  <2> QED BY <1>0, <1>3, <1>4, <2>3 DEF SearchInv
<1>5. ASSUME NEW k \in DOMAIN edges, edges[k].from \in reachable
      PROVE  edges[k].to \in reachable \/ (\E n : n = edges[k].to /\ Pending(n)') \/ k \in todo'
  BY <1>0, <1>1, <1>3, <1>5 DEF SearchInv
<1>6. edges # <<>> => steps[1] \in reachable \/ (\E n : n = steps[1] /\ Pending(n)')
  BY <1>0, <1>3 DEF SearchInv
<1>7. /\ edges' # <<>> => steps'[1] \in reachable' \/ Pending(steps[1])'
      /\ \A k \in DOMAIN edges' : edges'[k].from \in reachable' =>
            edges'[k].to \in reachable' \/ Pending(edges[k].to)' \/ k \in todo'
  BY <1>0, <1>5, <1>6 DEF Pending
<1>8. \A k \in todo' : edges'[k].from \in reachable' BY <1>0, <1>1 DEF SearchInv
<1> QED BY <1>0, <1>4, <1>7, <1>8, ReferencesFixed DEF SearchInv

(* The search begins with the first step, if there are edges at all. *)
LEMMA SearchStarts ==
    ASSUME ReportInv, ValidateEdges
    PROVE  SearchInv'
<1>0. /\ TypeOK /\ EdgesKnown /\ UNCHANGED <<steps, edges, todo, reachable>>
      /\ todo = {} /\ reachable = {}
      /\ frontier' = IF edges # <<>> THEN <<steps[1]>> ELSE <<>>
  BY DEF ReportInv, KahnInv, OnlySteps, Fresh, Unsearched, ValidateEdges, definition, orderVars
<1>1. \A n : Pending(n)' <=> edges # <<>> /\ n = steps[1]
  <2>1. DOMAIN <<steps[1]>> = {1} /\ <<steps[1]>>[1] = steps[1] OBVIOUS
  <2>2. DOMAIN << >> = {} OBVIOUS
  <2> QED BY <1>0, <2>1, <2>2 DEF Pending
<1>2. ASSUME NEW S \in SUBSET StepIds, Closed(S), NEW n \in Ids, n \in reachable' \/ Pending(n)'
      PROVE  n \in S
  BY <1>0, <1>1, <1>2 DEF Closed
<1>3. edges # <<>> => \E n : n = steps[1] /\ Pending(n)' BY <1>1
<1>4. edges' # <<>> => Pending(steps[1])' BY <1>0, <1>3 DEF Pending
<1> QED BY <1>0, <1>2, <1>4, ReferencesFixed DEF SearchInv

(* The search and the reports, one step per action. *)
LEMMA ReportInductive == ReportInv /\ [Next]_vars => ReportInv'
<1> SUFFICES ASSUME ReportInv, [Next]_vars PROVE Unsearched' /\ SearchInv' /\ Reported'
  BY KahnInductive DEF ReportInv
<1>0. KahnInv /\ TypeOK /\ Unsearched /\ SearchInv /\ Reported BY DEF ReportInv, KahnInv
<1> USE DEF definition, searchVars, orderVars
<1>1. CASE ModelValidate
  <2>1. Unsearched' /\ SearchInv' BY <1>0, <1>1 DEF ModelValidate, Unsearched, SearchInv
  <2>2. Reported' BY <1>1 DEF ModelValidate, Reported
  <2> QED BY <2>1, <2>2
<1>2. CASE ValidateSteps
  <2>1. Unsearched' /\ SearchInv' BY <1>0, <1>2 DEF ValidateSteps, Unsearched, SearchInv
  <2>2. Reported' BY <1>0, <1>2 DEF ValidateSteps, Reported
  <2> QED BY <2>1, <2>2
<1>3. CASE ConfigRaises
  <2>1. Unsearched' /\ SearchInv' BY <1>3 DEF ConfigRaises, Unsearched, SearchInv
  <2>2. Reported' BY <1>3 DEF ConfigRaises, Reported
  <2> QED BY <2>1, <2>2
<1>4. CASE ValidateEdges
  <2>1. Unsearched' BY <1>4 DEF ValidateEdges, Unsearched
  <2>2. Reported' BY <1>0, <1>4 DEF ValidateEdges, Reported
  <2> QED BY <1>4, <2>1, <2>2, SearchStarts
<1>5. CASE Visit
  <2>1. Unsearched' /\ Reported' BY <1>0, <1>5 DEF Visit, Unsearched, Reported
  <2> QED BY <1>5, <2>1, SearchVisit
<1>6. CASE Extend
  <2>1. Unsearched' /\ Reported' BY <1>0, <1>6 DEF Extend, Unsearched, Reported
  <2> QED BY <1>6, <2>1, SearchExtend
<1>7. CASE SearchEnds
  <2>1. Unsearched' /\ SearchInv' BY <1>7 DEF SearchEnds, Unsearched, SearchInv
  <2>2. /\ pc = "search" /\ pc' = "seed" /\ todo = {} /\ frontier = <<>> /\ UNCHANGED <<steps, edges>>
        /\ errors' = errors \cup (IF edges # <<>> /\ ~ StepIds \subseteq reachable
                                  THEN {"unreachable"} ELSE {})
    BY <1>7 DEF SearchEnds
  <2>3. "unreachable" \in errors' <=> edges # <<>> /\ ~ Connected
    BY <1>0, <2>2, MarkedIsConnected DEF Reported
  <2>4. UnreachableRight' BY <2>2, <2>3, ReferencesFixed DEF UnreachableRight
  <2>5. errors' \cap {"schema", "config_raised", "cycles"} = {} BY <1>0, <2>2 DEF Reported
  <2> QED BY <2>1, <2>2, <2>4, <2>5 DEF Reported
<1>8. CASE SeedStep \/ SeedEnds \/ Pop \/ Follow
  <2>1. /\ pc \in {"seed", "sort"} /\ pc' \in {"seed", "sort"}
        /\ UNCHANGED <<steps, edges, errors>>
    BY <1>8 DEF SeedStep, SeedEnds, Pop, Follow
  <2>2. Unsearched' /\ SearchInv' BY <2>1 DEF Unsearched, SearchInv
  <2>3. UnreachableRight' BY <1>0, <2>1, ReferencesFixed DEF Reported, UnreachableRight
  <2> QED BY <1>0, <2>1, <2>2, <2>3 DEF Reported
<1>9. CASE SortEnds
  <2>1. /\ pc = "sort" /\ pc' = "answer" /\ todo = {} /\ queue = <<>> /\ UNCHANGED <<steps, edges>>
        /\ errors' = errors \cup (IF Len(order) # Len(steps) THEN {"cycles"} ELSE {})
    BY <1>9 DEF SortEnds
  <2>2. Unsearched' /\ SearchInv' BY <2>1 DEF Unsearched, SearchInv
  <2>3. "cycles" \in errors' <=> Cyclic \/ Duplicates
    BY <1>0, <2>1, ShortIsCyclic DEF Reported
  <2>4. CyclesRight' BY <2>1, <2>3, ReferencesFixed DEF CyclesRight
  <2>5. "unreachable" \in errors' <=> edges # <<>> /\ ~ Connected
    BY <1>0, <2>1 DEF Reported, UnreachableRight
  <2>6. UnreachableRight' BY <2>1, <2>5, ReferencesFixed DEF UnreachableRight
  <2> QED BY <2>1, <2>2, <2>4, <2>6 DEF Reported
<1>10. CASE Answer
  <2>1. pc = "answer" /\ pc' = "end" /\ UNCHANGED <<steps, edges, errors>> BY <1>10 DEF Answer
  <2>2. Unsearched' /\ SearchInv' BY <2>1 DEF Unsearched, SearchInv
  <2>3. (CyclesRight' <=> CyclesRight) /\ (UnreachableRight' <=> UnreachableRight)
    BY <2>1, ReferencesFixed DEF CyclesRight, UnreachableRight
  <2> QED BY <1>0, <2>1, <2>2, <2>3 DEF Reported
<1>11. CASE UNCHANGED vars
  <2>1. UNCHANGED <<steps, edges, pc, frontier, reachable, todo, errors>> BY <1>11 DEF vars
  <2>2. Unsearched' BY <1>0, <2>1 DEF Unsearched
  <2>3. \A n : Pending(n)' <=> Pending(n) BY <2>1 DEF Pending
  <2>4. SearchInv'
    <3>1. CASE pc # "search" BY <2>1, <3>1 DEF SearchInv
    <3>2. CASE pc = "search"
      <4>1. /\ edges' # <<>> => steps'[1] \in reachable' \/ Pending(steps[1])'
            /\ \A i \in DOMAIN edges' : edges'[i].from \in reachable' =>
                  edges'[i].to \in reachable' \/ Pending(edges[i].to)' \/ i \in todo'
            /\ \A i \in todo' : edges'[i].from \in reachable'
        BY <1>0, <2>1, <3>2 DEF SearchInv, Pending
      <4>2. \A S \in SUBSET StepIds : Closed(S) =>
               \A n \in Ids : n \in reachable' \/ Pending(n)' => n \in S
        BY <1>0, <2>1, <2>3, <3>2 DEF SearchInv
      <4> QED BY <2>1, <4>1, <4>2, ReferencesFixed DEF SearchInv
    <3> QED BY <3>1, <3>2
  <2>5. (CyclesRight' <=> CyclesRight) /\ (UnreachableRight' <=> UnreachableRight)
    BY <2>1, ReferencesFixed DEF CyclesRight, UnreachableRight
  <2>6. Reported' BY <1>0, <2>1, <2>5 DEF Reported
  <2> QED BY <2>2, <2>4, <2>6
<1> QED BY <1>1, <1>2, <1>3, <1>4, <1>5, <1>6, <1>7, <1>8, <1>9, <1>10, <1>11
        DEF Next, Validation, Returned

(* Nothing is reported or searched initially. *)
LEMMA ReportInitially == Init => ReportInv
  BY KahnInitially DEF Init, ReportInv, Unsearched, SearchInv, Reported

(* The validator reports "Workflow contains cycles" exactly for definitions
   with a cycle or a repeated step id, whatever their size. *)
THEOREM CyclesReportedExactly == Spec => []CyclesExactly
<1>1. ReportInv => CyclesExactly
  BY DEF ReportInv, Reported, CyclesExactly, Checked, CyclesRight
<1> QED BY <1>1, ReportInitially, ReportInductive, PTL DEF Spec

(* The validator reports unreachable steps exactly when there are edges and
   some step cannot be reached from the first one. *)
THEOREM UnreachableReportedExactly == Spec => []UnreachableExactly
<1>1. ReportInv => UnreachableExactly
  BY DEF ReportInv, Reported, UnreachableExactly, Checked, UnreachableRight
<1> QED BY <1>1, ReportInitially, ReportInductive, PTL DEF Spec

-----------------------------------------------------------------------------
(* Why AcceptedIsRunnable holds.  Without edges and without repeated ids the
   initial queue is the definition, and the sort only moves it over. *)

FullLength == pc \in {"answer", "end"} /\ errors = {} => Len(order) = Len(steps)

SeedAsWritten == Len(queue) = seed /\ \A k \in 1 .. seed : queue[k] = steps[k]

SortAsWritten ==
    /\ Len(order) + Len(queue) = Len(steps)
    /\ \A k \in 1 .. Len(order) : order[k] = steps[k]
    /\ \A k \in 1 .. Len(queue) : queue[k] = steps[Len(order) + k]

WrittenOrder ==
    edges = <<>> /\ ~ Duplicates =>
        /\ pc = "seed" => SeedAsWritten
        /\ pc = "sort" => SortAsWritten
        /\ pc \in {"answer", "end"} /\ errors = {} => order = steps

RunInv == ReportInv /\ FullLength /\ WrittenOrder

(* Without edges nothing is to follow and every count is zero. *)
LEMMA NoEdges ==
    ASSUME KahnInv, Sorting, edges = <<>>
    PROVE  todo = {} /\ \A n \in Ids : in_degree[n] = 0
<1>1. TypeOK /\ DOMAIN edges = {} BY DEF KahnInv
<1>2. todo = {} BY <1>1 DEF TypeOK
<1>3. \A n \in Ids : Unfollowed(n) = {} BY <1>1 DEF Unfollowed
<1> QED BY <1>1, <1>2, <1>3, FS_EmptySet DEF KahnInv, Counting

(* Without edges, the steps are queued as written. *)
LEMMA WrittenSeedStep ==
    ASSUME RunInv, SeedStep
    PROVE  WrittenOrder'
<1>0. /\ KahnInv /\ TypeOK /\ Sorting /\ WrittenOrder
      /\ pc = "seed" /\ pc' = "seed" /\ UNCHANGED <<steps, edges>>
      /\ seed' = seed + 1 /\ seed \in Nat /\ seed + 1 \in 1 .. Len(steps)
      /\ queue \in Seq(Ids) /\ DOMAIN steps = 1 .. Len(steps) /\ Len(steps) \in Nat
  BY DEF RunInv, ReportInv, KahnInv, TypeOK, SeedStep, definition, Sorting
<1> SUFFICES ASSUME edges = <<>>, ~ Duplicates PROVE SeedAsWritten'
  BY <1>0 DEF WrittenOrder, Duplicates
<1>1. SeedAsWritten BY <1>0 DEF WrittenOrder
<1>2. steps[seed + 1] \in Ids BY <1>0 DEF TypeOK
<1>3. in_degree[steps[seed + 1]] = 0 BY <1>0, <1>2, NoEdges
<1>4. \A k \in 1 .. seed : steps[k] # steps[seed + 1] BY <1>0 DEF Duplicates
<1>5. queue' = Append(queue, steps[seed + 1]) BY <1>3, <1>4 DEF SeedStep
<1>6. /\ Len(queue') = seed + 1 /\ queue'[seed + 1] = steps[seed + 1]
      /\ \A k \in 1 .. seed : queue'[k] = queue[k]
  BY <1>0, <1>1, <1>2, <1>5 DEF SeedAsWritten
<1> QED BY <1>0, <1>1, <1>6 DEF SeedAsWritten

(* Without edges, the steps are placed as queued. *)
LEMMA WrittenPop ==
    ASSUME RunInv, Pop
    PROVE  WrittenOrder'
<1>0. /\ WrittenOrder /\ pc = "sort" /\ pc' = "sort" /\ UNCHANGED <<steps, edges>>
      /\ queue \in Seq(Ids) /\ order \in Seq(Ids) /\ queue # <<>>
      /\ queue' = Tail(queue) /\ order' = Append(order, Head(queue))
      /\ Len(steps) \in Nat /\ Len(order) \in Nat
  BY DEF RunInv, ReportInv, KahnInv, TypeOK, Pop, definition
<1> SUFFICES ASSUME edges = <<>>, ~ Duplicates PROVE SortAsWritten'
  BY <1>0 DEF WrittenOrder, Duplicates
<1>1. SortAsWritten BY <1>0 DEF WrittenOrder
<1>2. /\ Head(queue) \in Ids /\ Len(queue) \in Nat \ {0} /\ Head(queue) = queue[1]
      /\ Len(queue') = Len(queue) - 1
      /\ \A k \in 1 .. Len(queue) - 1 : queue'[k] = queue[k + 1]
  BY <1>0, TailIsShift
<1>3. /\ Len(order') = Len(order) + 1 /\ order'[Len(order) + 1] = queue[1]
      /\ \A k \in 1 .. Len(order) : order'[k] = order[k]
  BY <1>0, <1>2
<1>4. Len(order') + Len(queue') = Len(steps') BY <1>0, <1>1, <1>2, <1>3 DEF SortAsWritten
<1>5. \A k \in 1 .. Len(order') : order'[k] = steps'[k]
  <2>1. queue[1] = steps[Len(order) + 1] BY <1>1, <1>2 DEF SortAsWritten
  <2> QED BY <1>0, <1>1, <1>3, <2>1 DEF SortAsWritten
<1>6. ASSUME NEW k \in 1 .. Len(queue') PROVE queue'[k] = steps'[Len(order') + k]
  <2>1. k + 1 \in 1 .. Len(queue) /\ queue'[k] = queue[k + 1] BY <1>2
  <2>2. queue[k + 1] = steps[Len(order) + (k + 1)] BY <1>1, <2>1 DEF SortAsWritten
  <2>3. Len(order) + (k + 1) = Len(order') + k BY <1>0, <1>2, <1>3
  <2> QED BY <1>0, <2>1, <2>2, <2>3
<1> QED BY <1>4, <1>5, <1>6 DEF SortAsWritten

(* Without edges, the order is the list of steps. *)
LEMMA WrittenSortEnds ==
    ASSUME RunInv, SortEnds
    PROVE  WrittenOrder' /\ FullLength'
<1>0. /\ WrittenOrder /\ pc = "sort" /\ pc' = "answer" /\ queue = <<>>
      /\ UNCHANGED <<steps, edges, order>> /\ order \in Seq(Ids) /\ steps \in Seq(Ids)
      /\ errors' = errors \cup (IF Len(order) # Len(steps) THEN {"cycles"} ELSE {})
  BY DEF RunInv, ReportInv, KahnInv, TypeOK, SortEnds, definition, orderVars
<1>1. FullLength' BY <1>0 DEF FullLength
<1>2. ASSUME edges = <<>>, ~ Duplicates PROVE order = steps
  <2>1. SortAsWritten BY <1>0, <1>2 DEF WrittenOrder
  <2>2. Len(order) = Len(steps) /\ \A k \in 1 .. Len(order) : order[k] = steps[k]
    BY <1>0, <2>1 DEF SortAsWritten
  <2> QED BY <1>0, <2>2
<1> QED BY <1>0, <1>1, <1>2 DEF WrittenOrder, Duplicates

(* Every action preserves the invariant behind AcceptedIsRunnable. *)
LEMMA RunInductive == RunInv /\ [Next]_vars => RunInv'
<1> SUFFICES ASSUME RunInv, [Next]_vars PROVE FullLength' /\ WrittenOrder'
  BY ReportInductive DEF RunInv
<1>0. KahnInv /\ TypeOK /\ FullLength /\ WrittenOrder BY DEF RunInv, ReportInv, KahnInv
<1> USE DEF definition, searchVars, orderVars
<1>1. CASE ModelValidate \/ ValidateSteps \/ ConfigRaises \/ ValidateEdges \/ Visit \/ Extend
  <2>1. pc' \notin {"seed", "sort", "end"} /\ (pc' = "answer" => errors' # {})
    BY <1>1 DEF ModelValidate, ValidateSteps, ConfigRaises, ValidateEdges, Visit, Extend
  <2> QED BY <2>1 DEF FullLength, WrittenOrder
<1>2. CASE SearchEnds
  <2>1. /\ pc' = "seed" /\ queue' = <<>> /\ seed' = 0
    BY <1>0, <1>2 DEF SearchEnds, KahnInv, Fresh
  <2>2. SeedAsWritten' BY <2>1 DEF SeedAsWritten
  <2> QED BY <2>1, <2>2 DEF FullLength, WrittenOrder
<1>3. CASE SeedStep
  <2>1. FullLength' BY <1>3 DEF SeedStep, FullLength
  <2> QED BY <1>3, <2>1, WrittenSeedStep
<1>4. CASE SeedEnds
  <2>1. /\ pc = "seed" /\ pc' = "sort" /\ seed = Len(steps) /\ order = <<>>
        /\ UNCHANGED <<steps, edges, queue, order>> /\ Len(steps) \in Nat
    BY <1>0, <1>4 DEF SeedEnds, KahnInv, Seeding, TypeOK
  <2>2. SeedAsWritten => SortAsWritten' BY <2>1 DEF SeedAsWritten, SortAsWritten
  <2> QED BY <1>0, <2>1, <2>2 DEF FullLength, WrittenOrder, Duplicates
<1>5. CASE Pop
  <2>1. FullLength' BY <1>5 DEF Pop, FullLength
  <2> QED BY <1>5, <2>1, WrittenPop
<1>6. CASE Follow
  <2>1. pc = "sort" /\ pc' = "sort" /\ todo # {} /\ UNCHANGED <<steps, edges>>
    BY <1>6 DEF Follow
  <2>2. edges # <<>> BY <1>0, <2>1, NoEdges DEF Sorting
  <2> QED BY <2>1, <2>2 DEF FullLength, WrittenOrder
<1>7. CASE SortEnds BY <1>7, WrittenSortEnds
<1>8. CASE Answer
  BY <1>0, <1>8 DEF Answer, FullLength, WrittenOrder, Duplicates
<1>9. CASE UNCHANGED vars
  BY <1>0, <1>9 DEF vars, FullLength, WrittenOrder, Duplicates, SeedAsWritten, SortAsWritten
<1> QED BY <1>1, <1>2, <1>3, <1>4, <1>5, <1>6, <1>7, <1>8, <1>9
        DEF Next, Validation, Returned

(* With edges, only the first step can be first in the order: the steps other
   than the one placed first are closed under the edges. *)
LEMMA FirstIsFirst ==
    ASSUME KahnInv, Connected, order # <<>>, steps # <<>>
    PROVE  order[1] = steps[1]
<1> DEFINE S == StepIds \ {order[1]}
<1>0. /\ order \in Seq(Ids) /\ steps \in Seq(Ids) /\ 1 \in DOMAIN order /\ 1 \in DOMAIN steps
      /\ OrderTopological
  BY DEF KahnInv, TypeOK
<1>1. order[1] \in StepIds /\ steps[1] \in StepIds
  BY <1>0 DEF KahnInv, OnlySteps, Placed, StepIds, Range
<1>2. \A m \in Ids : ~ Precedes(m, order[1]) BY <1>0 DEF OrderTopological
<1>3. StepIds \subseteq Ids BY <1>0 DEF StepIds, Range
<1>4. \A m \in S, n \in StepIds : Precedes(m, n) => n \in S BY <1>2, <1>3
<1>5. S \in SUBSET StepIds /\ S # StepIds BY <1>1
<1> QED BY <1>1, <1>4, <1>5 DEF Connected

(* An accepted definition has an order that holds each of its steps once and
   begins with the first one, for definitions of any size; without edges the
   order is the one written down. *)
THEOREM AcceptedRuns == Spec => []AcceptedIsRunnable
<1>1. ASSUME RunInv, pc = "end", errors = {}
      PROVE  /\ Len(order) = Len(steps) /\ Range(order) = StepIds
             /\ steps # <<>> => order[1] = steps[1]
             /\ edges = <<>> => order = steps
  <2>0. KahnInv /\ CyclesRight /\ UnreachableRight
    BY <1>1 DEF RunInv, ReportInv, Reported
  <2>1. ~ Duplicates /\ (edges # <<>> => Connected)
    BY <1>1, <2>0 DEF CyclesRight, UnreachableRight
  <2>2. Len(order) = Len(steps) BY <1>1 DEF RunInv, FullLength
  <2>3. edges = <<>> => order = steps BY <1>1, <2>1 DEF RunInv, WrittenOrder
  <2>4. Range(order) = StepIds
    <3>1. /\ order \in Injection(1 .. Len(order), StepIds) /\ IsFiniteSet(StepIds)
          /\ steps \in Surjection(1 .. Len(steps), StepIds)
          /\ steps \in Injection(1 .. Len(steps), StepIds)
          /\ IsFiniteSet(1 .. Len(steps))
      BY <2>0, <2>1, OrderInjects, FS_Interval
    <3>2. Cardinality(StepIds) = Cardinality(1 .. Len(order)) BY <2>2, <3>1, FS_Surjection
    <3>3. order \in Surjection(1 .. Len(order), StepIds) BY <3>1, <3>2, FS_Injection
    <3>4. DOMAIN order = 1 .. Len(order) BY <2>0 DEF KahnInv, TypeOK
    <3> QED BY <3>3, <3>4 DEF Surjection, Range
  <2>5. ASSUME steps # <<>> PROVE order[1] = steps[1]
    <3>1. order # <<>> BY <2>0, <2>2, <2>5 DEF KahnInv, TypeOK
    <3> QED BY <2>0, <2>1, <2>3, <2>5, <3>1, FirstIsFirst
  <2> QED BY <2>2, <2>3, <2>4, <2>5
<1>2. RunInv => AcceptedIsRunnable BY <1>1 DEF AcceptedIsRunnable
<1>3. Init => RunInv
  BY ReportInitially DEF Init, RunInv, FullLength, WrittenOrder
<1> QED BY <1>2, <1>3, RunInductive, PTL DEF Spec

=============================================================================
