------------------------------ MODULE MCValueCodec ------------------------------
(* Instances of ValueCodec for TLC: words of eight values. *)
EXTENDS ValueCodec, TLC

Signed(limit)   == [class |-> "signed", limit |-> limit, store |-> 0]
Unsigned(limit) == [class |-> "unsigned", limit |-> limit, store |-> 0]
Decimal(limit, store) == [class |-> "decimal", limit |-> limit, store |-> store]
Types == {Signed(1), Signed(2), Signed(4), Unsigned(2), Unsigned(8),
          [class |-> "int128", limit |-> 0, store |-> 0],
          [class |-> "uint128", limit |-> 0, store |-> 0],
          Decimal(3, 4), Decimal(10, 0)}

Number(t, v) == [kind |-> "number", type |-> t, value |-> v]
One  == Number(Signed(4), 1)
Two  == Number(Signed(4), 2)
Text == [kind |-> "text", size |-> 3]
Null == [kind |-> "null"]
Bad  == [kind |-> "bad"]

\* Trees of one value, of a list, struct or map of given children, and of parameters.
Leaf(x) == <<>> :> x
Branch(kind, children) ==
  [p \in {<<>>} \cup UNION {{<<i - 1>> \o q : q \in DOMAIN children[i]} : i \in DOMAIN children} |->
     IF p = <<>> THEN [kind |-> kind] ELSE children[Head(p) + 1][Tail(p)]]
Params(children) == Branch("params", children)
L(children) == Branch("list", children)
S(children) == Branch("struct", children)
M(children) == Branch("map", children)

Numbers == {Params(<<Leaf(Number(t, v))>>) : t \in Types, v \in (-34..-30) \cup (-6..10) \cup (30..33) \cup (60..65)}
Nested ==
  {Params(<<>>),
   Params(<<Leaf(Text), Leaf(Null), L(<<>>)>>),
   Params(<<L(<<Leaf(One), Leaf(Null), Leaf(Two)>>)>>),
   Params(<<L(<<L(<<Leaf(One)>>), L(<<Leaf(Two), Leaf(Bad)>>)>>)>>),
   Params(<<S(<<L(<<L(<<Leaf(One)>>)>>), Leaf(Two)>>)>>),
   Params(<<S(<<L(<<Leaf(Text), Leaf(One)>>), Leaf(Null)>>), Leaf(Two)>>),
   Params(<<M(<<Leaf(One), L(<<Leaf(Two)>>), Leaf(Two), Leaf(Null)>>)>>),
   Params(<<M(<<Leaf(One), Leaf(Text), Leaf(One), Leaf(Text)>>), Leaf(One)>>),
   Params(<<M(<<L(<<Leaf(One)>>), Leaf(Text), L(<<Leaf(One), Leaf(One)>>), Leaf(Null)>>)>>),
   Params(<<M(<<Leaf(Null), Leaf(Text)>>)>>),
   Params(<<L(<<L(<<L(<<L(<<Leaf(One)>>)>>)>>)>>)>>)}

AllInputs == Numbers \cup Nested
AllBudgets == 0..150
=============================================================================
