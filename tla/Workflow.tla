------------------------------ MODULE Workflow ------------------------------
(***************************************************************************)
(* Workflow definitions: what the schema lets through                      *)
(* (app/domain/workflows/schemas.py), what the validator reports           *)
(* (validator.py) and what the service answers (service.py), for one       *)
(* definition.  The two loops of the validator - the breadth-first search  *)
(* for unreachable steps and Kahn's algorithm in get_step_order - are      *)
(* stepped through, one action per iteration.                              *)
(*                                                                         *)
(* A definition is the sequence of its step ids (repetitions allowed: the  *)
(* schema does not forbid them) and the sequence of its edges.  What the   *)
(* registry and the nodes' validate_config say of the steps is a choice.   *)
(***************************************************************************)
EXTENDS Integers, Sequences, FiniteSets, Functions

CONSTANTS
    Ids,        \* step ids
    MaxSteps,   \* bound: steps of a definition
    MaxEdges    \* bound: edges of a definition

Edge == [from : Ids, to : Ids]
Operations == {"create", "validate", "dry_run"}
Errors == {"schema", "config_raised", "duplicate_id", "node", "self_loop",
           "unreachable", "cycles"}
Answers == {"none", "draft", "raised", "valid", "invalid", "success", "refused"}

ASSUME WorkflowAssumption == MaxSteps \in Nat /\ MaxEdges \in Nat

VARIABLES
    steps,      \* workflow.steps: their ids
    edges,      \* workflow.edges
    pc,         \* position in the validation
    frontier,   \* queue of _get_reachable_steps
    reachable,  \* the steps it has visited
    todo,       \* the indices of current's edges not yet followed, in both loops
    in_degree,  \* of get_step_order
    seed,       \* the steps already scanned for its initial queue
    queue,      \* its queue
    order,      \* its result
    errors,     \* the errors reported
    answer      \* what the service returned

definition == <<steps, edges>>
searchVars == <<frontier, reachable>>
orderVars == <<in_degree, seed, queue, todo, order>>
vars == <<steps, edges, pc, frontier, reachable, in_degree, seed, queue,
          todo, order, errors, answer>>

SeqUpTo(S, n) == UNION {[1 .. k -> S] : k \in 0 .. n}

StepIds == Range(steps)

(* Type invariant. *)
TypeOK ==
    /\ steps \in Seq(Ids) /\ edges \in Seq(Edge)
    /\ pc \in {"schema", "steps", "edges", "search", "seed", "sort", "answer", "end"}
    /\ frontier \in Seq(Ids) /\ reachable \subseteq Ids
    /\ in_degree \in [Ids -> Nat]
    /\ seed \in 0 .. Len(steps)
    /\ queue \in Seq(Ids) /\ order \in Seq(Ids)
    /\ todo \subseteq DOMAIN edges
    /\ errors \subseteq Errors
    /\ answer \in Answers

Init ==
    /\ steps \in SeqUpTo(Ids, MaxSteps)
    /\ edges \in SeqUpTo(Edge, MaxEdges)
    /\ pc = "schema"
    /\ frontier = <<>> /\ reachable = {}
    /\ in_degree = [n \in Ids |-> 0]
    /\ seed = 0 /\ queue = <<>> /\ todo = {} /\ order = <<>>
    /\ errors = {}
    /\ answer = "none"

-----------------------------------------------------------------------------
(* validate_edge_references *)
EdgesKnown ==
    \A i \in DOMAIN edges : edges[i].from \in StepIds /\ edges[i].to \in StepIds

(* validate_steps_not_empty runs only when the input has the key "steps":
   pydantic does not validate a default, and the default is the empty list. *)
SchemaAccepts(given) == (given => steps # <<>>) /\ EdgesKnown

(* WorkflowDefinition.model_validate *)
ModelValidate ==
    /\ pc = "schema"
    /\ \E given \in BOOLEAN :
          /\ steps # <<>> => given
          /\ errors' = IF SchemaAccepts(given) THEN {} ELSE {"schema"}
          /\ pc' = IF SchemaAccepts(given) THEN "steps" ELSE "answer"
    /\ UNCHANGED <<definition, searchVars, orderVars, answer>>

Duplicates == \E i, k \in DOMAIN steps : i # k /\ steps[i] = steps[k]

(* _validate_steps: a repeated id, and whatever the registry and the node of
   each step find ("node": unknown implementation or invalid config). *)
ValidateSteps ==
    /\ pc = "steps"
    /\ \E reported \in SUBSET {"node"} :
          /\ steps = <<>> => reported = {}
          /\ errors' = errors \cup reported
                       \cup (IF Duplicates THEN {"duplicate_id"} ELSE {})
    /\ pc' = "edges"
    /\ UNCHANGED <<definition, searchVars, orderVars, answer>>

(* A node's validate_config compares values of any type, and may raise: the
   exception leaves the validator. *)
ConfigRaises ==
    /\ pc = "steps" /\ steps # <<>>
    /\ errors' = {"config_raised"}
    /\ pc' = "answer"
    /\ UNCHANGED <<definition, searchVars, orderVars, answer>>

SelfLoop == \E i \in DOMAIN edges : edges[i].from = edges[i].to

(* _validate_edges.  Its tests for unknown steps repeat the schema's. *)
ValidateEdges ==
    /\ pc = "edges"
    /\ errors' = errors \cup (IF SelfLoop THEN {"self_loop"} ELSE {})
    /\ pc' = "search"
    /\ frontier' = IF edges # <<>> THEN <<steps[1]>> ELSE <<>>
    /\ UNCHANGED <<definition, reachable, orderVars, answer>>

EdgesFrom(n) == {i \in DOMAIN edges : edges[i].from = n}

(* Mutant: the first step is not marked. *)
VisitSkipsFirst ==
    /\ pc = "search" /\ todo = {} /\ frontier # <<>>
    /\ LET current == Head(frontier) IN
          IF current \in reachable
          THEN UNCHANGED <<reachable, todo>>
          ELSE /\ reachable' = reachable \cup ({current} \ {steps[1]})
               /\ todo' = EdgesFrom(current)
    /\ frontier' = Tail(frontier)
    /\ UNCHANGED <<definition, pc, in_degree, seed, queue, order, errors, answer>>

(* Mutant: a step seen before is not taken off the queue. *)
VisitKeepsHead ==
    /\ pc = "search" /\ todo = {} /\ frontier # <<>>
    /\ LET current == Head(frontier) IN
          IF current \in reachable
          THEN UNCHANGED <<frontier, reachable, todo>>
          ELSE /\ reachable' = reachable \cup {current}
               /\ frontier' = Tail(frontier)
               /\ todo' = EdgesFrom(current)
    /\ UNCHANGED <<definition, pc, in_degree, seed, queue, order, errors, answer>>

(* One iteration of _get_reachable_steps ... *)
Visit ==
    /\ pc = "search" /\ todo = {} /\ frontier # <<>>
    /\ LET current == Head(frontier) IN
          IF current \in reachable
          THEN UNCHANGED <<reachable, todo>>
          ELSE /\ reachable' = reachable \cup {current}
               /\ todo' = EdgesFrom(current)
    /\ frontier' = Tail(frontier)
    /\ UNCHANGED <<definition, pc, in_degree, seed, queue, order, errors, answer>>

(* ... and queue.extend(graph.get(current, [])), in the order of the edges. *)
Extend ==
    /\ pc = "search"
    /\ \E i \in todo :
          /\ \A k \in todo : i <= k
          /\ frontier' = Append(frontier, edges[i].to)
          /\ todo' = todo \ {i}
    /\ UNCHANGED <<definition, pc, reachable, in_degree, seed, queue, order, errors, answer>>

(* Mutant: parallel edges count once. *)
SearchEndsCountsSources ==
    /\ pc = "search" /\ todo = {} /\ frontier = <<>>
    /\ errors' = errors \cup (IF edges # <<>> /\ ~ StepIds \subseteq reachable
                              THEN {"unreachable"} ELSE {})
    /\ in_degree' = [n \in Ids |-> Cardinality({m \in Ids :
                        \E i \in DOMAIN edges : edges[i] = [from |-> m, to |-> n]})]
    /\ pc' = "seed"
    /\ UNCHANGED <<definition, searchVars, seed, queue, todo, order, answer>>

(* The search is over, or was skipped because there are no edges;
   get_step_order counts the edges into each step.  Without steps the code
   returns before both; the loops over nothing come to the same. *)
SearchEnds ==
    /\ pc = "search" /\ todo = {} /\ frontier = <<>>
    /\ errors' = errors \cup (IF edges # <<>> /\ ~ StepIds \subseteq reachable
                              THEN {"unreachable"} ELSE {})
    /\ in_degree' = [n \in Ids |-> Cardinality({i \in DOMAIN edges : edges[i].to = n})]
    /\ pc' = "seed"
    /\ UNCHANGED <<definition, searchVars, seed, queue, todo, order, answer>>

(* The comprehension that fills the queue runs over a dict: each id once, at
   its first place. *)
SeedStep ==
    /\ pc = "seed" /\ seed < Len(steps)
    /\ LET n == steps[seed + 1] IN
          queue' = IF in_degree[n] = 0 /\ \A k \in 1 .. seed : steps[k] # n
                   THEN Append(queue, n) ELSE queue
    /\ seed' = seed + 1
    /\ UNCHANGED <<definition, pc, searchVars, in_degree, todo, order, errors, answer>>

SeedEnds ==
    /\ pc = "seed" /\ seed = Len(steps)
    /\ pc' = "sort"
    /\ UNCHANGED <<definition, searchVars, orderVars, errors, answer>>

(* Mutant: queue.pop() takes the last step. *)
PopLast ==
    /\ pc = "sort" /\ todo = {} /\ queue # <<>>
    /\ LET current == queue[Len(queue)] IN
          /\ order' = Append(order, current)
          /\ todo' = EdgesFrom(current)
    /\ queue' = SubSeq(queue, 1, Len(queue) - 1)
    /\ UNCHANGED <<definition, pc, searchVars, in_degree, seed, errors, answer>>

(* current = queue.pop(0); order.append(current) *)
Pop ==
    /\ pc = "sort" /\ todo = {} /\ queue # <<>>
    /\ order' = Append(order, Head(queue))
    /\ queue' = Tail(queue)
    /\ todo' = EdgesFrom(Head(queue))
    /\ UNCHANGED <<definition, pc, searchVars, in_degree, seed, errors, answer>>

(* Mutant: a step is queued as soon as one of its edges is followed. *)
FollowEager ==
    /\ pc = "sort"
    /\ \E i \in todo :
          /\ \A k \in todo : i <= k
          /\ in_degree' = [in_degree EXCEPT ![edges[i].to] = @ - 1]
          /\ queue' = IF \A k \in DOMAIN queue : queue[k] # edges[i].to
                      THEN Append(queue, edges[i].to) ELSE queue
          /\ todo' = todo \ {i}
    /\ UNCHANGED <<definition, pc, searchVars, seed, order, errors, answer>>

(* Mutant: the neighbour's degree is tested before it is decremented. *)
FollowStale ==
    /\ pc = "sort"
    /\ \E i \in todo :
          /\ \A k \in todo : i <= k
          /\ in_degree' = [in_degree EXCEPT ![edges[i].to] = @ - 1]
          /\ queue' = IF in_degree[edges[i].to] = 0
                      THEN Append(queue, edges[i].to) ELSE queue
          /\ todo' = todo \ {i}
    /\ UNCHANGED <<definition, pc, searchVars, seed, order, errors, answer>>

(* `for neighbor in graph[current]', in the order of the edges. *)
Follow ==
    /\ pc = "sort"
    /\ \E i \in todo :
          /\ \A k \in todo : i <= k
          /\ in_degree' = [in_degree EXCEPT ![edges[i].to] = @ - 1]
          /\ queue' = IF in_degree'[edges[i].to] = 0
                      THEN Append(queue, edges[i].to) ELSE queue
          /\ todo' = todo \ {i}
    /\ UNCHANGED <<definition, pc, searchVars, seed, order, errors, answer>>

(* `if len(order) != len(self.steps)': reported as a cycle, also when an id
   is repeated. *)
SortEnds ==
    /\ pc = "sort" /\ todo = {} /\ queue = <<>>
    /\ errors' = errors \cup (IF Len(order) # Len(steps) THEN {"cycles"} ELSE {})
    /\ pc' = "answer"
    /\ UNCHANGED <<definition, searchVars, orderVars, answer>>

(* create_workflow, validate_workflow and get_workflow_dry_run_result share
   all of the above; what each answers without errors, and with. *)
Accepting == [create |-> "draft", validate |-> "valid", dry_run |-> "success"]
Refusing == [create |-> "raised", validate |-> "invalid", dry_run |-> "refused"]

Answer ==
    /\ pc = "answer"
    /\ \E op \in Operations :
          answer' = IF errors = {} THEN Accepting[op] ELSE Refusing[op]
    /\ pc' = "end"
    /\ UNCHANGED <<definition, searchVars, orderVars, errors>>

Returned == pc = "end" /\ UNCHANGED vars

-----------------------------------------------------------------------------
Validation ==
    \/ ModelValidate \/ ValidateSteps \/ ConfigRaises \/ ValidateEdges
    \/ Visit \/ Extend \/ SearchEnds
    \/ SeedStep \/ SeedEnds \/ Pop \/ Follow \/ SortEnds
    \/ Answer

Next == Validation \/ Returned

Spec == Init /\ [][Next]_vars

(* The calls are plain Python: they run on until they return. *)
FairSpec == Spec /\ WF_vars(Validation)

-----------------------------------------------------------------------------
(* Properties.  The references are stated on sets, without any search. *)

Precedes(m, n) == \E i \in DOMAIN edges : edges[i].from = m /\ edges[i].to = n

(* In a set of steps each of which has a predecessor in the set, some steps
   form a cycle. *)
Cyclic ==
    \E S \in (SUBSET StepIds) \ {{}} : \A n \in S : \E m \in S : Precedes(m, n)

(* The steps reachable from the first one: the least set that holds it and is
   closed under the edges. *)
Connected ==
    \A S \in SUBSET StepIds :
        /\ steps[1] \in S
        /\ \A m \in S, n \in StepIds : Precedes(m, n) => n \in S
        => S = StepIds

Checked == pc = "end" /\ errors \cap {"schema", "config_raised"} = {}

(* get_step_order never places a step before one it depends on, nor twice,
   at any point of the algorithm and whatever the definition holds: parallel
   edges, self-loops, cycles, repeated ids. *)
OrderTopological ==
    \A q \in DOMAIN order :
        /\ \A p \in 1 .. q - 1 : order[p] # order[q]
        /\ \A m \in Ids : Precedes(m, order[q]) => \E p \in 1 .. q - 1 : order[p] = m

(* "Workflow contains cycles" is reported exactly for definitions with a
   cycle or a repeated id. *)
CyclesExactly == Checked => ("cycles" \in errors <=> Cyclic \/ Duplicates)

(* Unreachable steps are reported exactly when there are edges and some step
   cannot be reached from the first one. *)
UnreachableExactly ==
    Checked => ("unreachable" \in errors <=> edges # <<>> /\ ~ Connected)

(* An accepted definition has an order that holds each of its steps once and
   begins with the first one - with edges because every other step depends on
   it, without edges because the order is the one written down. *)
AcceptedIsRunnable ==
    pc = "end" /\ errors = {} =>
        /\ Len(order) = Len(steps) /\ Range(order) = StepIds
        /\ steps # <<>> => order[1] = steps[1]
        /\ edges = <<>> => order = steps

(* What the schema's validator is for, "Ensure workflow has at least one step"
   (schemas.py, validate_steps_not_empty): no operation accepts a definition
   without steps. *)
AcceptedHasSteps == answer \in {"draft", "valid", "success"} => steps # <<>>

(* The service answers every call: both loops end. *)
Answered == <>(answer # "none")

=============================================================================
