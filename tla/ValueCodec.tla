------------------------------ MODULE ValueCodec ------------------------------
(***************************************************************************)
(* The parameters of a query on their way into the engine and back out as   *)
(* the columns of a result row: Input of native/aphid_nif.zig builds native *)
(* values bottom-up with aphid_value_make of native/bridge.cpp, and Result  *)
(* of aphid_nif.zig reads them top-down with aphid_value_inspect and        *)
(* aphid_value_child.  Both charge every value to a budget of bytes, may be *)
(* cancelled at every charge, and report where a failure happened.          *)
(*                                                                         *)
(* A value is a set of paths: <<>> is the parameter map (or the row), <<k>> *)
(* its k-th value, p \o <<i>> the i-th child of p, keys and values of a map *)
(* being alternate children.  The recursion of both converters is the path  *)
(* `at` of the value they are in, its native frames are the prefixes of it. *)
(*                                                                         *)
(* External: the engine stores the values it is given and returns the same. *)
(* Inferring and building the type descriptor of a parameter is one step,   *)
(* with one charge; the path of an error in it, which counts in the type,   *)
(* is left out.                                                             *)
(***************************************************************************)
EXTENDS IntegerWords, Sequences, FiniteSets, FiniteSetsExt

CONSTANTS Inputs,    \* parameter maps that callers pass
          Budgets,   \* payload limits
          MaxDepth   \* nesting depth (32)

ASSUME DepthAssumption == MaxDepth \in Nat /\ Budgets \subseteq Nat

VARIABLES
  tree,      \* the parameters: what each path is
  dir,       \* "in" or "out"
  pc,        \* the next step of the converter
  at,        \* the value it is in
  next,      \* the next child of it
  path,      \* Input.path and Budget.path: an index for every depth
  pathLen,   \* path_len
  budget,    \* the limit of this call
  remaining, \* what is left of it
  home,      \* what owns the native value of each path
  stored,    \* what the engine holds for each integer
  got,       \* the integers returned
  fault      \* why the conversion failed

walk == <<at, next>>
where == <<path, pathLen>>
vars == <<tree, dir, pc, walk, where, budget, remaining, home, stored, got, fault>>

Last(p) == p[Len(p)]
Parent(p) == SubSeq(p, 1, Len(p) - 1)
IsPrefix(p, q) == Len(p) <= Len(q) /\ p = SubSeq(q, 1, Len(p))
Depth == Len(at) - 1

\* aphid_value_info.children, aphid_value_child; List length for an input.
ChildrenOf(p) == {q \in DOMAIN tree : q # <<>> /\ Parent(q) = p}
Children(p) == Cardinality(ChildrenOf(p))

\* Entries of a list, fields of a struct, pairs of a map.
Entries(p) == IF tree[p].kind = "map" THEN Children(p) \div 2 ELSE Children(p)
StartsEntry(p, i) == tree[p].kind = "map" => i % 2 = 0
EntryOf(p, i) == IF tree[p].kind = "map" THEN i \div 2 ELSE i

Containers == {"list", "struct", "map"}
Leaves == {"number", "text", "null", "bad"}

\* What callers pass: a map of parameters at the root, values below it, in their order.
IsInput(t) ==
  LET Below(p) == {q \in DOMAIN t : q # <<>> /\ Parent(q) = p}
  IN /\ DOMAIN t \subseteq Seq(Nat) /\ IsFiniteSet(DOMAIN t)
     /\ <<>> \in DOMAIN t /\ t[<<>>].kind = "params"
     /\ \A p \in DOMAIN t :
          /\ \A k \in 0..Len(p) : SubSeq(p, 1, k) \in DOMAIN t
          /\ Below(p) = {Append(p, i) : i \in 0..(Cardinality(Below(p)) - 1)}
          /\ p # <<>> => t[p].kind \in Containers \cup Leaves
          /\ t[p].kind \in Leaves => Below(p) = {}
          /\ t[p].kind = "map" => Cardinality(Below(p)) % 2 = 0
          /\ t[p].kind = "number" => t[p].type \in IntegerTypes /\ t[p].value \in Int
          /\ t[p].kind = "text" => t[p].size \in Nat

ASSUME InputsAssumption == \A t \in Inputs : IsInput(t)

\* Bytes charged in both directions: a value, its scalar, an entry of its container.
ValueCost == 8
NumberCost == 16
RowCost == 8
DescriptorCost == 8
NameCost == 1
ScalarCost(node) == CASE node.kind = "number" -> NumberCost
                      [] node.kind = "text" -> node.size
                      [] OTHER -> 0
EntryCost(node) == CASE node.kind = "struct" -> 8 + NameCost [] node.kind = "map" -> 8 [] OTHER -> 0

Homes == {"none", "slot", "inside", "params", "freed", "twice"}
Faults == {"none", "limit", "other", "depth", "integer", "conversion", "key", "refused"}
Steps == {"convert", "enter", "child", "add", "accepted", "row", "column", "done",
          "unwind", "failed"}

\* The type invariant.
TypeOK ==
  /\ tree \in Inputs /\ dir \in {"in", "out"} /\ pc \in Steps /\ fault \in Faults
  /\ at \in DOMAIN tree /\ next \in Nat
  /\ path \in [0..MaxDepth -> Nat] /\ pathLen \in 0..(MaxDepth + 1)
  /\ budget \in Nat /\ remaining \in 0..budget
  /\ home \in [DOMAIN tree -> Homes]
  /\ DOMAIN stored \subseteq DOMAIN tree /\ DOMAIN got \subseteq DOMAIN tree

Init ==
  /\ tree \in Inputs
  /\ dir = "in" /\ pc = "convert" /\ at = <<>> /\ next = 0
  /\ path = [d \in 0..MaxDepth |-> 0] /\ pathLen = 0
  /\ budget \in Budgets /\ remaining = budget
  /\ home = [p \in DOMAIN tree |-> "none"]
  /\ stored = <<>> /\ got = <<>> /\ fault = "none"

-----------------------------------------------------------------------------
(* Owning native values. *)

\* aphid_value_free of the values in S: a container frees what it owns.
Freed(S) ==
  [p \in DOMAIN tree |->
     IF p \in S \/ (home[p] = "inside" /\ \E q \in S : q # p /\ IsPrefix(q, p))
     THEN IF home[p] = "freed" THEN "twice" ELSE "freed"
     ELSE home[p]]

\* Fault: the slots of children that were taken over or freed are not cleared.
SlotsKept(p) == {q \in ChildrenOf(p) : home[q] # "none"}

\* The array of children of the frame that converts the container p.
Slots(p) == {q \in ChildrenOf(p) : home[q] = "slot"}

Fail(why) == pc' = "unwind" /\ fault' = why

\* charge(amount), which also looks at the cancellation flag.
Charge(amount) == amount <= remaining /\ remaining' = remaining - amount
ChargeFails(amount) ==
  /\ \/ amount > remaining /\ Fail("limit")
     \/ Fail("other")
  /\ UNCHANGED remaining

\* The value in `at` is complete: go on with the next child of its parent.
Complete ==
  /\ at' = Parent(at) /\ next' = Last(at) + 1
  /\ pc' = IF Len(at) > 1 THEN "child" ELSE IF dir = "in" THEN "add" ELSE "column"

-----------------------------------------------------------------------------
(* Input.convert *)

\* The parameter map is refused by its size, or the conversion begins.
Refuses(count) == count > remaining \div 16

TooManyParameters ==
  /\ pc = "convert" /\ next = 0 /\ Refuses(Children(<<>>))
  /\ Fail("limit")
  /\ UNCHANGED <<tree, dir, walk, where, budget, remaining, home, stored, got>>

\* Fault: a list that fits exactly is refused.
TooLongAtLimit(count, rest) == count >= rest \div 8

\* An input list must fit at 8 bytes an entry before its entries are looked at.
TooLong(count, rest) == count > rest \div 8

\* The lists of a parameter whose types are inferred: it is one, or is in one.
UntypedLists(i) ==
  {p \in DOMAIN tree : /\ p # <<>> /\ p[1] = i
                       /\ \A k \in 1..Len(p) : tree[SubSeq(p, 1, k)].kind = "list"}

\* The next parameter: its name, its type (infer and make_type), then its value.
Parameter ==
  /\ pc = "convert" /\ dir = "in" /\ (next = 0 => ~Refuses(Children(<<>>)))
  /\ next < Children(<<>>)
  /\ pathLen' = 0
  /\ \/ Charge(NameCost + DescriptorCost) /\ at' = <<next>> /\ next' = 0 /\ pc' = "enter"
        /\ UNCHANGED fault
     \/ ChargeFails(NameCost + DescriptorCost) /\ UNCHANGED walk
     \/ Fail("conversion") /\ UNCHANGED <<walk, remaining>>
     \/ /\ remaining >= NameCost
        /\ \E p \in UntypedLists(next) : TooLong(Entries(p), remaining - NameCost)
        /\ Fail("limit") /\ UNCHANGED <<walk, remaining>>
  /\ UNCHANGED <<tree, dir, path, budget, home, stored, got>>

\* aphid_params_add consumes the value, whether it takes it (a new name) or not.
ParameterAdded ==
  /\ pc = "add"
  /\ \/ home' = [home EXCEPT ![<<next - 1>>] = "params"] /\ pc' = "convert" /\ UNCHANGED fault
     \/ home' = Freed({<<next - 1>>}) /\ Fail("refused")
  /\ UNCHANGED <<tree, dir, walk, where, budget, remaining, stored, got>>

\* The parameters belong to the operation now; the query runs and returns a row of them.
Converted ==
  /\ pc = "convert" /\ next = Children(<<>>)
  /\ pc' = "accepted"
  /\ UNCHANGED <<tree, dir, walk, where, budget, remaining, home, stored, got, fault>>

-----------------------------------------------------------------------------
(* Input.encode and Result.encode: the value in `at`. *)

TooDeep ==
  /\ pc = "enter" /\ Depth > MaxDepth
  /\ Fail("depth")
  /\ UNCHANGED <<tree, dir, walk, where, budget, remaining, home, stored, got>>

Entered == pc = "enter" /\ Depth <= MaxDepth /\ pathLen' = Depth /\ UNCHANGED path
Node == tree[at]

EnterContainer ==
  /\ Entered /\ Node.kind \in Containers
  /\ \/ /\ Charge(ValueCost)
        /\ IF dir = "in" /\ TooLong(Entries(at), remaining')
           THEN Fail("limit") /\ UNCHANGED next
           ELSE next' = 0 /\ pc' = "child" /\ UNCHANGED fault
     \/ ChargeFails(ValueCost) /\ UNCHANGED next
  /\ UNCHANGED <<tree, dir, at, budget, home, stored, got>>

LeafCost == ValueCost + ScalarCost(Node)

LeafCharged(next1) == \/ Charge(LeafCost) /\ next1
                      \/ ChargeFails(LeafCost) /\ UNCHANGED <<walk, home, stored, got>>

\* aphid_value_make of a scalar, into the slot of the parent's frame.
NumberIn ==
  /\ Entered /\ dir = "in" /\ Node.kind = "number"
  /\ LeafCharged(
       IF Accepted(Node.type, Node.value)
       THEN /\ home' = [home EXCEPT ![at] = "slot"]
            /\ stored' = [p \in DOMAIN stored \cup {at} |->
                            IF p = at THEN Stored(Node.type, PairOf(Node.value)) ELSE stored[p]]
            /\ Complete /\ UNCHANGED <<got, fault>>
       ELSE Fail("integer") /\ UNCHANGED <<walk, home, stored, got>>)
  /\ UNCHANGED <<tree, dir, budget>>

\* Text and null; "bad" stands for every leaf that does not match its type.
LeafIn ==
  /\ Entered /\ dir = "in" /\ Node.kind \in Leaves \ {"number"}
  /\ LeafCharged(
       IF Node.kind # "bad"
       THEN home' = [home EXCEPT ![at] = "slot"] /\ Complete /\ UNCHANGED <<stored, got, fault>>
       ELSE Fail("conversion") /\ UNCHANGED <<walk, home, stored, got>>)
  /\ UNCHANGED <<tree, dir, budget>>

LeafOut ==
  /\ Entered /\ dir = "out" /\ Node.kind \in Leaves
  /\ LeafCharged(
       /\ got' = IF Node.kind = "number"
                 THEN [p \in DOMAIN got \cup {at} |->
                         IF p = at THEN Returned(Node.type, stored[at]) ELSE got[p]]
                 ELSE got
       /\ Complete /\ UNCHANGED <<home, stored, fault>>)
  /\ UNCHANGED <<tree, dir, budget>>

\* Where a failure in the entry is reported.
EntryPath == IF StartsEntry(at, next) THEN [path EXCEPT ![Depth] = EntryOf(at, next)] ELSE path

\* Fault: the length of the path is left to the child, as on output.
ChildOfStale ==
  /\ pc = "child" /\ next < Children(at)
  /\ path' = EntryPath /\ UNCHANGED pathLen
  /\ LET cost == IF StartsEntry(at, next) THEN EntryCost(Node) ELSE 0
     IN \/ Charge(cost) /\ at' = Append(at, next) /\ next' = 0 /\ pc' = "enter" /\ UNCHANGED fault
        \/ StartsEntry(at, next) /\ ChargeFails(cost) /\ UNCHANGED walk
  /\ UNCHANGED <<tree, dir, budget, home, stored, got>>

\* The next child; fields and pairs are charged first.  The path gets the index, and on
\* input its length too.
ChildOf ==
  /\ pc = "child" /\ next < Children(at)
  /\ path' = EntryPath
  /\ pathLen' = IF dir = "in" /\ StartsEntry(at, next) THEN Depth + 1 ELSE pathLen
  /\ LET cost == IF StartsEntry(at, next) THEN EntryCost(Node) ELSE 0
     IN \/ Charge(cost) /\ at' = Append(at, next) /\ next' = 0 /\ pc' = "enter" /\ UNCHANGED fault
        \/ StartsEntry(at, next) /\ EntryCost(Node) > 0 /\ ChargeFails(cost) /\ UNCHANGED walk
  /\ UNCHANGED <<tree, dir, budget, home, stored, got>>

ContainerOut ==
  /\ pc = "child" /\ dir = "out" /\ next = Children(at)
  /\ Complete
  /\ UNCHANGED <<tree, dir, where, budget, remaining, home, stored, got, fault>>

\* KeyEqual: two keys of one type are equal if all their parts are.
SameValue(p, q) ==
  /\ {SubSeq(r, Len(p) + 1, Len(r)) : r \in {x \in DOMAIN tree : IsPrefix(p, x)}}
       = {SubSeq(r, Len(q) + 1, Len(r)) : r \in {x \in DOMAIN tree : IsPrefix(q, x)}}
  /\ \A r \in DOMAIN tree : IsPrefix(p, r) => tree[r] = tree[q \o SubSeq(r, Len(p) + 1, Len(r))]

\* The pairs of a map up to the first one that aphid_value_make refuses.
GoodPair(i) ==
  LET key == Append(at, 2 * i)
  IN /\ tree[key].kind # "null"
     /\ \A j \in 0..(i - 1) : ~SameValue(key, Append(at, 2 * j))
KeysAreGood == Node.kind = "map" => \A i \in 0..(Entries(at) - 1) : GoodPair(i)

\* aphid_value_make of a container: it takes its children over.
ContainerIn ==
  /\ pc = "child" /\ dir = "in" /\ next = Children(at) /\ KeysAreGood
  /\ home' = [p \in DOMAIN tree |-> IF p = at THEN "slot"
                                    ELSE IF p \in ChildrenOf(at) THEN "inside" ELSE home[p]]
  /\ Complete
  /\ UNCHANGED <<tree, dir, where, budget, remaining, stored, got, fault>>

\* Or it throws, on a bad key or for want of memory, and frees all of them.
ContainerFails ==
  /\ pc = "child" /\ dir = "in" /\ next = Children(at)
  /\ home' = Freed(Slots(at))
  /\ Fail(IF KeysAreGood THEN "other" ELSE "key")
  /\ UNCHANGED <<tree, dir, walk, where, budget, remaining, stored, got>>

\* The error passes the frames of `at` and of all containers around it, each of which
\* frees its slots, and reaches convert, which frees the parameters.
Unwind ==
  /\ pc = "unwind" /\ dir = "in"
  /\ home' = Freed({p \in DOMAIN tree : home[p] = "params"}
                   \cup UNION {Slots(p) : p \in {q \in DOMAIN tree : IsPrefix(q, at)}})
  /\ pc' = "failed"
  /\ UNCHANGED <<tree, dir, walk, where, budget, remaining, stored, got, fault>>

-----------------------------------------------------------------------------
(* Result.encode_row: the columns of the row. *)

Row ==
  /\ pc = "accepted"
  /\ dir' = "out" /\ next' = 0 /\ pathLen' = 0
  /\ budget' \in Budgets
  /\ \/ budget' >= RowCost /\ remaining' = budget' - RowCost /\ pc' = "column" /\ UNCHANGED fault
     \/ budget' < RowCost /\ remaining' = budget' /\ Fail("limit")
     \/ remaining' = budget' /\ Fail("other")
  /\ UNCHANGED <<tree, at, path, home, stored, got>>

Column ==
  /\ pc = "column"
  /\ IF next < Children(<<>>)
     THEN at' = <<next>> /\ next' = 0 /\ pc' = "enter"
     ELSE pc' = "done" /\ UNCHANGED walk
  /\ UNCHANGED <<tree, dir, where, budget, remaining, home, stored, got, fault>>

OutputFails ==
  /\ pc = "unwind" /\ dir = "out"
  /\ pc' = "failed"
  /\ UNCHANGED <<tree, dir, walk, where, budget, remaining, home, stored, got, fault>>

-----------------------------------------------------------------------------
Next ==
  \/ TooManyParameters \/ Parameter \/ ParameterAdded \/ Converted
  \/ TooDeep \/ EnterContainer \/ NumberIn \/ LeafIn \/ LeafOut
  \/ ChildOf \/ ContainerOut \/ ContainerIn \/ ContainerFails
  \/ Unwind \/ Row \/ Column \/ OutputFails

Spec == Init /\ [][Next]_vars

-----------------------------------------------------------------------------
(* Properties. *)

\* Integers are refused only outside the range of their type, and those accepted come
\* back in the row as what they were.
NumbersSurvive ==
  LET numbers == {p \in DOMAIN tree : tree[p].kind = "number"}
  IN /\ fault = "integer" => ~InRange(tree[at].type, tree[at].value)
     /\ pc = "done" => \A p \in numbers :
          InRange(tree[p].type, tree[p].value) /\ got[p] = tree[p].value

\* Wherever a conversion fails, every native value made so far is freed once; if it
\* succeeds, none is, and each belongs to the parameters or to one container.
FreedExactlyOnce ==
  LET values == DOMAIN tree \ {<<>>}
  IN /\ \A p \in values : home[p] # "twice"
     /\ pc = "failed" /\ dir = "in" => \A p \in values : home[p] \in {"none", "freed"}
     /\ pc \in {"accepted", "done"} =>
          \A p \in values : home[p] = IF Len(p) = 1 THEN "params" ELSE "inside"

\* What a parameter map costs, by the accounting of docs/types.md.
CostOf(p) ==
  ValueCost + ScalarCost(tree[p]) + Entries(p) * EntryCost(tree[p])
  + IF Len(p) = 1 THEN NameCost + DescriptorCost ELSE 0
InputCost == MapThenSumSet(CostOf, DOMAIN tree \ {<<>>})

\* A parameter map is refused for its size only if all of it together exceeds the budget,
\* although lists and maps are refused by their length alone, before they are converted.
LimitIsRight ==
  dir = "in" =>
    /\ fault = "limit" => InputCost > budget
    /\ pc = "accepted" => InputCost = budget - remaining

\* Where a value is, in the terms of an error, and where the error says that it is.
Location(p) == [k \in 1..(Len(p) - 1) |-> EntryOf(SubSeq(p, 1, k), p[k + 1])]
Reported == [k \in 1..pathLen |-> path[k - 1]]
NamesIt == \E p \in DOMAIN tree : Len(p) > 0 /\ p[1] = at[1] /\ Location(p) = Reported

\* An error in a parameter or a column is reported at the value that failed, or inside or
\* around it, whatever the path says of values already converted; in a parameter, there is
\* a value there.
PathNamesFailure ==
  pc = "failed" /\ at # <<>> =>
    /\ IsPrefix(Location(at), Reported) \/ IsPrefix(Reported, Location(at))
    /\ dir = "in" => NamesIt
================================================================================
