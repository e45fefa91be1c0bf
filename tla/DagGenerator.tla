----------------------------- MODULE DagGenerator -----------------------------
(***************************************************************************)
(* src/functions/dag_generator.py: generate_dag builds a random DAG over  *)
(* a function list, computes its length, and generate_arg_map draws the   *)
(* argument keys of each function of that DAG.                             *)
(*                                                                         *)
(* The program is sequential; each step below is one iteration of one of  *)
(* its loops, and every random choice (random.choice, random.random() <=  *)
(* 0.4, random.randint) is a nondeterministic choice among its outcomes.  *)
(* A draw of a key already chosen is an iteration that changes nothing,   *)
(* i.e. a stuttering step.                                                 *)
(***************************************************************************)
EXTENDS Naturals, Integers, Sequences, FiniteSets, SequencesExt, Functions, Graphs

CONSTANTS
    FunctionList,   \* func_list (line 86): distinct function names
    KeySpace        \* key_space argument of generate_arg_map

VARIABLES
    pc,             \* which loop the program is in
    available,      \* available_functions
    functions,      \* functions (list, in order of choice)
    connections,    \* connections: list of <<source, sink>>
    to_generate,    \* the stack to_generate of generate_dag
    sink,           \* sink being expanded
    tries,          \* iterations left of 'for _ in range(2)'
    max_length,     \* third result of generate_dag
    fidx,           \* index of the function generate_arg_map is on
    needed,         \* to_generate of generate_arg_map
    keys_chosen,    \* keys_chosen (= the keys of refs) of that function
    arg_map,        \* func -> its refs, as the sequence of their keys
    keys_read       \* set(keys_read)

vars == <<pc, available, functions, connections, to_generate, sink, tries,
          max_length, fidx, needed, keys_chosen, arg_map, keys_read>>

-----------------------------------------------------------------------------
(* Conversions                                                             *)

\* str(n) as its sequence of decimal digits.
RECURSIVE Digits(_)
Digits(n) == IF n < 10 THEN <<n>> ELSE Digits(n \div 10) \o <<n % 10>>

\* str(key).zfill(len(str(key_space)) + 1), line 74.
KeyString(n) ==
    LET s == Digits(n)
        w == Len(Digits(KeySpace)) + 1
    IN [i \in 1 .. (w - Len(s)) |-> 0] \o s

-----------------------------------------------------------------------------
(* The length computation, lines 37-54                                     *)

\* One pass of the inner 'for conn in connections' (lines 45-49) from
\* index j: each connection leaving the current sink moves the sink to its
\* target and adds one to the length.
RECURSIVE ScanPass(_, _, _)
ScanPass(cs, j, acc) ==
    IF j > Len(cs) THEN acc
    ELSE ScanPass(cs, j + 1,
                  IF cs[j][1] = acc.sink
                  THEN [sink |-> cs[j][2], len |-> acc.len + 1, found |-> TRUE]
                  ELSE acc)

\* 'while has_conn' (lines 43-49).
RECURSIVE WalkToEnd(_, _)
WalkToEnd(cs, acc) ==
    LET r == ScanPass(cs, 1, [acc EXCEPT !.found = FALSE])
    IN IF r.found THEN WalkToEnd(cs, r) ELSE r.len

\* Mutant: length[func_source] starts at 0 instead of 1 (line 40).
SourceLengthFromZero(cs, i) ==
    WalkToEnd(cs, [sink |-> cs[i][2], len |-> 0, found |-> TRUE])

\* length[func_source] for the i-th connection (lines 39-49).
SourceLength(cs, i) ==
    WalkToEnd(cs, [sink |-> cs[i][2], len |-> 1, found |-> TRUE])

\* The dict 'length': a later connection from the same source overwrites.
LengthMap(cs) ==
    [f \in {cs[i][1] : i \in 1 .. Len(cs)} |->
        SourceLength(cs, Max({i \in 1 .. Len(cs) : cs[i][1] = f}))]

\* max_length (lines 51-54).
MaxLength(cs) == Max({1} \cup Range(LengthMap(cs)))

\* Mutant: counting connections out of func instead of into it.
NumParentsOutgoing(cs, func) == Cardinality({i \in 1 .. Len(cs) : cs[i][1] = func})

\* Lines 63-66: the number of connections into func.
NumParents(cs, func) == Cardinality({i \in 1 .. Len(cs) : cs[i][2] = func})

-----------------------------------------------------------------------------
(* generate_dag, lines 13-56                                               *)

Init ==
    /\ pc = "start"
    /\ available = FunctionList
    /\ functions = <<>>
    /\ connections = <<>>
    /\ to_generate = <<>>
    /\ sink = "none"
    /\ tries = 0
    /\ max_length = 0
    /\ fidx = 0
    /\ needed = 0
    /\ keys_chosen = <<>>
    /\ arg_map = [f \in {} |-> <<>>]
    /\ keys_read = {}

argmap_vars == <<max_length, fidx, needed, keys_chosen, arg_map, keys_read>>

\* Lines 14-23: end_func = random.choice(available_functions).
PickEndFunc ==
    /\ pc = "start"
    /\ \E e \in available :
          /\ functions' = <<e>>
          /\ to_generate' = <<e>>
          /\ available' = available \ {e}
    /\ pc' = "pop"
    /\ UNCHANGED <<connections, sink, tries, argmap_vars>>

\* Mutant: 'for _ in range(3)', three tries per sink.
PopSinkThreeTries ==
    /\ pc = "pop"
    /\ IF to_generate = <<>>
       THEN /\ pc' = "length"
            /\ UNCHANGED <<to_generate, sink, tries>>
       ELSE /\ sink' = Last(to_generate)
            /\ to_generate' = Front(to_generate)
            /\ tries' = 3
            /\ pc' = "try"
    /\ UNCHANGED <<available, functions, connections, argmap_vars>>

\* Lines 25-27: pop the next sink, or leave the loop when the stack is empty.
PopSink ==
    /\ pc = "pop"
    /\ IF to_generate = <<>>
       THEN /\ pc' = "length"
            /\ UNCHANGED <<to_generate, sink, tries>>
       ELSE /\ sink' = Last(to_generate)
            /\ to_generate' = Front(to_generate)
            /\ tries' = 2
            /\ pc' = "try"
    /\ UNCHANGED <<available, functions, connections, argmap_vars>>

AfterTry == pc' = IF tries = 1 THEN "pop" ELSE "try"

\* Mutant: the connection appended as (sink, source).
AddSourceReversed ==
    /\ pc = "try"
    /\ \E src \in available :
          /\ functions' = Append(functions, src)
          /\ to_generate' = Append(to_generate, src)
          /\ available' = available \ {src}
          /\ connections' = Append(connections, <<sink, src>>)
    /\ tries' = tries - 1
    /\ AfterTry
    /\ UNCHANGED <<sink, argmap_vars>>

\* Lines 28-35: random.random() <= 0.4 and a function is left: a source is
\* chosen, pushed and connected to the sink.
AddSource ==
    /\ pc = "try"
    /\ \E src \in available :
          /\ functions' = Append(functions, src)
          /\ to_generate' = Append(to_generate, src)
          /\ available' = available \ {src}
          /\ connections' = Append(connections, <<src, sink>>)
    /\ tries' = tries - 1
    /\ AfterTry
    /\ UNCHANGED <<sink, argmap_vars>>

\* Line 28 false: this iteration adds nothing.
SkipSource ==
    /\ pc = "try"
    /\ tries' = tries - 1
    /\ AfterTry
    /\ UNCHANGED <<available, functions, connections, to_generate, sink, argmap_vars>>

\* Lines 37-56: compute max_length and return; the result is handed to
\* generate_arg_map(functions, connections, key_space).
ComputeLength ==
    /\ pc = "length"
    /\ max_length' = MaxLength(connections)
    /\ fidx' = 1
    /\ pc' = "func"
    /\ UNCHANGED <<available, functions, connections, to_generate, sink, tries,
                   needed, keys_chosen, arg_map, keys_read>>

-----------------------------------------------------------------------------
(* generate_arg_map, lines 58-84                                           *)

gen_vars == <<available, functions, connections, to_generate, sink, tries, max_length>>

\* Lines 62-70: the next function, with 2 - num_parents keys to draw; past
\* the last function the program returns.
NextFunc ==
    /\ pc = "func"
    /\ IF fidx > Len(functions)
       THEN /\ pc' = "done"
            /\ UNCHANGED <<needed, keys_chosen>>
       ELSE /\ needed' = 2 - NumParents(connections, functions[fidx])
            /\ keys_chosen' = <<>>
            /\ pc' = "draw"
    /\ UNCHANGED <<gen_vars, fidx, arg_map, keys_read>>

\* Mutant: randint(0, key_space - 1), one key fewer.
DrawKeyNarrow ==
    /\ pc = "draw"
    /\ needed # 0
    /\ \E n \in 0 .. KeySpace - 1 :
          LET key == KeyString(n) IN
          IF \E i \in 1 .. Len(keys_chosen) : keys_chosen[i] = key
          THEN UNCHANGED <<needed, keys_chosen, keys_read>>
          ELSE /\ keys_chosen' = Append(keys_chosen, key)
               /\ needed' = needed - 1
               /\ keys_read' = keys_read \cup {key}
    /\ UNCHANGED <<gen_vars, pc, fidx, arg_map>>

\* Lines 71-80: one randint draw; a new key is recorded and counted, a key
\* already chosen leaves everything as it was.
DrawKey ==
    /\ pc = "draw"
    /\ needed # 0
    /\ \E n \in 0 .. KeySpace :
          LET key == KeyString(n) IN
          IF \E i \in 1 .. Len(keys_chosen) : keys_chosen[i] = key
          THEN UNCHANGED <<needed, keys_chosen, keys_read>>
          ELSE /\ keys_chosen' = Append(keys_chosen, key)
               /\ needed' = needed - 1
               /\ keys_read' = keys_read \cup {key}
    /\ UNCHANGED <<gen_vars, pc, fidx, arg_map>>

\* Line 82: the loop ends when to_generate reaches 0.
StoreRefs ==
    /\ pc = "draw"
    /\ needed = 0
    /\ arg_map' = (functions[fidx] :> keys_chosen) @@ arg_map
    /\ fidx' = fidx + 1
    /\ pc' = "func"
    /\ UNCHANGED <<gen_vars, needed, keys_chosen, keys_read>>

Next ==
    \/ PickEndFunc
    \/ PopSink
    \/ AddSource
    \/ SkipSource
    \/ ComputeLength
    \/ NextFunc
    \/ DrawKey
    \/ StoreRefs

\* A sequential program: it keeps taking steps while it can.
Spec == Init /\ [][Next]_vars /\ WF_vars(Next)

-----------------------------------------------------------------------------
(* Properties                                                              *)

Phases == {"start", "pop", "try", "length", "func", "draw", "done"}
Keys == {KeyString(n) : n \in 0 .. KeySpace}

TypeOK ==
    /\ pc \in Phases
    /\ available \subseteq FunctionList
    /\ functions \in Seq(FunctionList) /\ Len(functions) <= Cardinality(FunctionList)
    /\ connections \in Seq(FunctionList \X FunctionList)
    /\ to_generate \in Seq(FunctionList)
    /\ tries \in 0 .. 2
    /\ max_length \in Nat
    /\ needed \in Int
    /\ keys_chosen \in Seq(Keys)
    /\ DOMAIN arg_map \subseteq FunctionList /\ \A f \in DOMAIN arg_map : arg_map[f] \in Seq(Keys)
    /\ keys_read \subseteq Keys

DagGraph == [node |-> Range(functions), edge |-> Range(connections)]
Generated == pc \in {"func", "draw", "done"}

\* Reference: the number of edges of the longest path leaving n.
RECURSIVE LongestFrom(_, _)
LongestFrom(G, n) ==
    IF Successors(G, n) = {} THEN 0
    ELSE 1 + Max({LongestFrom(G, m) : m \in Successors(G, n)})

ReferenceLength(G) == Max({1} \cup {LongestFrom(G, n) : n \in G.node})

\* Follows the outgoing connections from n for at most k steps and tells
\* whether root is met.
RECURSIVE LeadsTo(_, _, _, _)
LeadsTo(G, n, root, k) ==
    \/ n = root
    \/ k > 0 /\ \E m \in Successors(G, n) : LeadsTo(G, m, root, k - 1)

\* At every step of generate_dag the functions chosen so far are distinct
\* and their connections form a tree whose edges lead to end_func: no
\* edge leaves end_func, every other function has exactly one outgoing
\* connection, and each reaches end_func.
GeneratedDagIsTree ==
    functions # <<>> =>
        LET G == DagGraph
            root == functions[1]
        IN /\ IsInjective(functions)
           /\ \A e \in G.edge : e[1] # root /\ e[1] \in G.node /\ e[2] \in G.node
           /\ \A n \in G.node \ {root} : OutDegree(G, n) = 1
           /\ \A n \in G.node : LeadsTo(G, n, root, Cardinality(G.node))

\* The length logged as "DAG length" (lines 37-54) is the number of edges
\* of the longest path of the generated DAG, and 1 for a single function.
MaxLengthIsLongestPath == Generated => max_length = ReferenceLength(DagGraph)

\* generate_arg_map gives every function exactly two inputs, its parents'
\* outputs plus distinct keys, and returns as keys_read every key it drew.
ArgMapGivesTwoInputs ==
    pc = "done" =>
        /\ DOMAIN arg_map = Range(functions)
        /\ \A f \in DOMAIN arg_map :
              /\ Len(arg_map[f]) + InDegree(DagGraph, f) = 2
              /\ IsInjective(arg_map[f])
        /\ keys_read = UNION {Range(arg_map[f]) : f \in DOMAIN arg_map}

\* generate_dag followed by generate_arg_map always returns: no function
\* needs more distinct keys than key_space offers, nor a negative number.
GeneratorTerminates == <>(pc = "done")

=============================================================================
