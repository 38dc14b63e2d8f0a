--------------------------- MODULE ReuseDistance ---------------------------
(* The reuse distance analysis of one thread: ReuseDistance                  *)
(* (reuse_distance.cpp) and line_ref_list_t (reuse_distance_impl.h).  The    *)
(* lines are kept in a doubly linked list, the latest reference first, and   *)
(* some of its nodes are also in a second doubly linked list, a skip list of *)
(* one layer, where each knows its depth.  A node is named by its tag.       *)
(* total_refs and distant_refs are written and never read: left out.         *)
EXTENDS Integers, Sequences, SequencesExt

CONSTANTS
    Tag,            \* the cache lines
    NULL,
    SkipDistance,   \* distance between skip nodes
    Threshold,      \* the reuse threshold
    MaxTime         \* bound: moves and insertions in one execution

(* ThreadData constructs it with 500 and 100.                                *)
ASSUME SkipAssumption == SkipDistance \in Nat /\ SkipDistance >= 2
ASSUME ThresholdAssumption == Threshold \in Nat \ {0}
ASSUME NullAssumption == NULL \notin Tag
ASSUME TimeAssumption == MaxTime \in Nat

VARIABLES
    cache_map,                          \* the tags that have a node
    head, gate, cur_time, unique_lines, \* line_ref_list_t
    prev, next, time_stamp,             \* the nodes
    prev_skip, next_skip, depth,        \* ... as nodes of the skip list
    result                              \* what lookup_distance returned

skips == <<prev_skip, next_skip, depth>>
vars  == <<cache_map, head, gate, cur_time, unique_lines, prev, next,
           time_stamp, skips, result>>

Node == Tag \cup {NULL}

Init ==
    /\ cache_map = {}
    /\ head = NULL
    /\ gate = NULL
    /\ cur_time = 0
    /\ unique_lines = 0
    /\ prev = [x \in Tag |-> NULL]
    /\ next = [x \in Tag |-> NULL]
    /\ time_stamp = [x \in Tag |-> 0]
    /\ prev_skip = [x \in Tag |-> NULL]
    /\ next_skip = [x \in Tag |-> NULL]
    /\ depth = [x \in Tag |-> -1]
    /\ result = -1

-----------------------------------------------------------------------------
(* The nodes a loop visits: from start along link, as long as it is within.  *)
Walk(start, link, within) ==
    LET from[x \in Node] ==
            IF x \in within THEN <<x>> \o from[link[x]] ELSE <<>>
    IN  from[start]

NoSkip == {x \in Tag : depth[x] = -1}

(* Where a walk that has visited seq along link stopped.                     *)
StopOf(seq, start, link) == IF seq = <<>> THEN start ELSE link[Last(seq)]

(* Write value to field of node x, if there is such a node.                  *)
Set(field, x, value) == IF x = NULL THEN field ELSE [field EXCEPT ![x] = value]

-----------------------------------------------------------------------------
ref_is_distant(ref) == gate # NULL /\ time_stamp[ref] < time_stamp[gate]

(* gate: a moved line that lies behind it, or is it, pushes it back by one.  *)
LeavesGateWhenDistant(ref) == ref_is_distant(ref)                \* faulty
LeavesGate(ref)            == ref_is_distant(ref) \/ ref = gate

(* Is it time for a new skip node, with front before the first one?          *)
CrowdedLate(front) == Len(front) > 2 * SkipDistance - 1          \* faulty
Crowded(front)     == Len(front) >= 2 * SkipDistance - 1

(* The depths once a line has been put in front of skip node node: it and    *)
(* the skip nodes behind it are one deeper.                                  *)
PushedWrongWay(node) ==                                          \* faulty
    [x \in Tag |-> depth[x] - IF x \in ToSet(Walk(node, next_skip, Tag))
                              THEN 1 ELSE 0]
PushedOnce(node) ==                                              \* faulty
    [x \in Tag |-> IF x = node THEN depth[x] + 1 ELSE depth[x]]
Pushed(node) ==
    [x \in Tag |-> depth[x] + IF x \in ToSet(Walk(node, next_skip, Tag))
                              THEN 1 ELSE 0]

(* add_to_front.  A skip node is made when 2 * SkipDistance - 1 nodes at the *)
(* front have none; the nodes behind are one deeper than before.             *)
AddToFront(ref) ==
    LET linked == [next EXCEPT ![ref] = head]
        back   == Set(prev, head, ref)
        first  == IF gate = NULL THEN ref ELSE gate
        front  == Walk(ref, linked, NoSkip)
        node   == StopOf(front, ref, linked)
        skip   == front[SkipDistance]
    IN  /\ next' = linked
        /\ prev' = back
        /\ head' = ref
        /\ gate' = IF unique_lines > Threshold THEN back[first] ELSE first
        /\ unique_lines' = unique_lines + 1
        /\ time_stamp' = [time_stamp EXCEPT ![ref] = cur_time]
        /\ cur_time' = cur_time + 1
        /\ IF Crowded(front)
           THEN /\ depth' = [Pushed(node) EXCEPT ![skip] = SkipDistance - 1]
                /\ prev_skip' = Set(prev_skip, node, skip)
                /\ next_skip' = [next_skip EXCEPT ![skip] = node]
           ELSE depth' = Pushed(node) /\ UNCHANGED <<prev_skip, next_skip>>

(* Faulty: the neighbours' links are not set, or the depth is not reset.     *)
MoveSkipFieldsOneWay(f, src) ==
    LET dst == prev[src]
    IN  [prev_skip |-> [f.prev_skip EXCEPT ![dst] = f.prev_skip[src],
                                           ![src] = NULL],
         next_skip |-> [f.next_skip EXCEPT ![dst] = f.next_skip[src],
                                           ![src] = NULL],
         depth     |-> [f.depth EXCEPT ![dst] = f.depth[src], ![src] = -1]]
MoveSkipFieldsKeepsDepth(f, src) ==
    LET dst == prev[src]
        p   == f.prev_skip[src]
        n   == f.next_skip[src]
    IN  [prev_skip |-> [Set([f.prev_skip EXCEPT ![dst] = p], n, dst)
                           EXCEPT ![src] = NULL],
         next_skip |-> [Set([f.next_skip EXCEPT ![dst] = n], p, dst)
                           EXCEPT ![src] = NULL],
         depth     |-> [f.depth EXCEPT ![dst] = f.depth[src]]]

(* move_skip_fields, on the three fields of all nodes at once.               *)
MoveSkipFields(f, src) ==
    LET dst == prev[src]
        p   == f.prev_skip[src]
        n   == f.next_skip[src]
    IN  [prev_skip |-> [Set([f.prev_skip EXCEPT ![dst] = p], n, dst)
                           EXCEPT ![src] = NULL],
         next_skip |-> [Set([f.next_skip EXCEPT ![dst] = n], p, dst)
                           EXCEPT ![src] = NULL],
         depth     |-> [f.depth EXCEPT ![dst] = f.depth[src], ![src] = -1]]

(* move_to_front.  The distance is the way to the next skip node towards the *)
(* front and its depth; that node and all before it are then handed to their *)
(* predecessors, which take their places when ref has left.                  *)
MoveToFront(ref) ==
    LET way   == Walk(ref, prev, NoSkip)
        skip  == StopOf(way, ref, prev)
        moved == FoldLeft(MoveSkipFields,
                          [prev_skip |-> prev_skip, next_skip |-> next_skip,
                           depth |-> depth],
                          Walk(skip, prev_skip, Tag))
    IN  /\ gate' = IF LeavesGate(ref) THEN prev[gate] ELSE gate
        /\ result' = Len(way) + IF skip = NULL THEN -1 ELSE depth[skip]
        /\ prev_skip' = moved.prev_skip
        /\ next_skip' = moved.next_skip
        /\ depth' = moved.depth
        /\ next' = [next EXCEPT ![prev[ref]] = next[ref], ![ref] = head]
        /\ prev' = [Set(prev, next[ref], prev[ref])
                       EXCEPT ![ref] = NULL, ![head] = ref]
        /\ head' = ref
        /\ time_stamp' = [time_stamp EXCEPT ![ref] = cur_time]
        /\ cur_time' = cur_time + 1
        /\ UNCHANGED unique_lines

(* lookup_distance.                                                          *)
LookupNew(tag) ==
    /\ tag \notin cache_map
    /\ cur_time < MaxTime
    /\ cache_map' = cache_map \cup {tag}
    /\ AddToFront(tag)
    /\ result' = -1

LookupHead(tag) ==
    /\ tag \in cache_map
    /\ tag = head
    /\ result' = 0
    /\ UNCHANGED <<cache_map, head, gate, cur_time, unique_lines, prev, next,
                   time_stamp, skips>>

LookupOld(tag) ==
    /\ tag \in cache_map
    /\ tag # head
    /\ cur_time < MaxTime
    /\ MoveToFront(tag)
    /\ UNCHANGED cache_map

Next == \E tag \in Tag : LookupNew(tag) \/ LookupHead(tag) \/ LookupOld(tag)

Spec == Init /\ [][Next]_vars

-----------------------------------------------------------------------------
(* Properties.                                                               *)

TypeOK ==
    /\ cache_map \subseteq Tag
    /\ {head, gate} \subseteq Node
    /\ cur_time \in 0 .. MaxTime
    /\ unique_lines \in Nat
    /\ {prev, next, prev_skip, next_skip} \subseteq [Tag -> Node]
    /\ time_stamp \in [Tag -> 0 .. MaxTime]
    /\ depth \in [Tag -> Nat \cup {-1}]
    /\ result \in Nat \cup {-1}

(* The list, from its head, and the places in it that have a skip node.      *)
List       == Walk(head, next, Tag)
SkipPlaces == {i \in 1 .. Len(List) : depth[List[i]] # -1}

(* The list is doubly linked and has the nodes of cache_map; the skip list   *)
(* is doubly linked through its skip nodes, in the list's order, and nothing *)
(* else (the assertions of print_list, and more): what add_to_front and      *)
(* move_to_front must keep when they relink both lists at once.              *)
LinksConsistent ==
    LET linked(places, p, n) == \A i \in places :
            LET before == {j \in places : j < i}
                after  == {j \in places : j > i}
            IN  /\ p[List[i]] = IF before = {} THEN NULL ELSE List[Max(before)]
                /\ n[List[i]] = IF after = {} THEN NULL ELSE List[Min(after)]
    IN  /\ ToSet(List) = cache_map
        /\ unique_lines = Len(List)
        /\ linked(1 .. Len(List), prev, next)
        /\ linked(SkipPlaces, prev_skip, next_skip)
        /\ \A x \in Tag \ {List[i] : i \in SkipPlaces} :
              prev_skip[x] = NULL /\ next_skip[x] = NULL

(* The depth a skip node stores is its distance from the head, although      *)
(* insertions push it back and moves hand it from node to node.              *)
DepthsTrue ==
    \A i \in 1 .. Len(List) : depth[List[i]] \in {-1, i - 1}

(* The places of the skip nodes depend on the length of the list only: every *)
(* SkipDistance nodes from the last one on, so that neither loop of          *)
(* add_to_front and move_to_front goes through 2 * SkipDistance nodes        *)
(* without meeting one: what the skip list is for.                           *)
SkipsSpaced ==
    LET n == Len(List)
    IN  {depth[List[i]] : i \in 1 .. n} \ {-1} =
            {d \in SkipDistance - 1 .. n - SkipDistance :
                (n - d) % SkipDistance = 0}

(* The gate is the earliest line within the threshold ("the gate points to   *)
(* the earliest referenced cache line within the threshold"), and a line is  *)
(* distant, by its time stamp, exactly when it lies behind it.               *)
GateAtThreshold ==
    \A i \in 1 .. Len(List) :
        /\ List[i] = gate <=> i = IF Len(List) > Threshold
                                  THEN Threshold + 1 ELSE Len(List)
        /\ ref_is_distant(List[i]) <=> i > Threshold + 1

(* The skip list changes nothing in what is computed: the analysis is an LRU *)
(* stack that answers each reference with the line's position.               *)
LRU == INSTANCE LRUStack WITH stack <- List, last <- result
Refinement == LRU!Spec
=============================================================================
