------------------------- MODULE ComponentWalkProofs --------------------------
(***************************************************************************)
(* What the component and NBT validators are left to read is always well   *)
(* formed, and no iteration of a loop goes by without a read, whatever the *)
(* protocol, the depth limit and the bound on counts: every row of every   *)
(* table is a layout of fields, calls, refusals and loops, each element    *)
(* begins with something that reads, and every name called is a function   *)
(* of the protocol.                                                        *)
(***************************************************************************)
EXTENDS ComponentValidatorProofs, WellFoundedInduction

-----------------------------------------------------------------------------
(* Layouts, named functions N being given. *)

\* What reads, refuses or enters a function, as against a loop that may do
\* nothing.
Heads == {"field", "call", "reject"}

\* A layout that begins with something that reads.
Reads(x) == Flat(x) # <<>> /\ Head(Flat(x)).op \in Heads

\* One node of a layout, its children drawn from L.
Node(N, L, x) ==
    /\ x.op \in Heads \cup {"loop"}
    /\ x.op = "field" =>
         /\ x.bad \subseteq Verdicts
         /\ \A i \in DOMAIN x.kids : Flat(x.kids[i]) \in Seq(L)
    /\ x.op = "call" => x.fn \in N
    /\ x.op = "reject" => x.code \in Verdicts
    /\ x.op = "loop" =>
         /\ x.left \in Nat
         /\ Flat(x.element) \in Seq(L)
         /\ Reads(x.element)
         /\ x.left > 0 => Loop(x.left - 1, x.element) \in L

\* A set of layouts that holds all their parts.
Closed(N, L) == \A x \in L : Node(N, L, x)

\* A node whose parts, all the way down, are nodes.
One(N, x) == \E L : Closed(N, L) /\ x \in L

\* A layout whose nodes are such nodes.
Good(N, x) == \E L : Closed(N, L) /\ Flat(x) \in Seq(L)

\* A layout that reads first; the same of a node.
Row(N, x) == Good(N, x) /\ Reads(x)
First(N, x) == One(N, x) /\ x.op \in Heads

\* Every layout of a table is one that reads first.
Rows(N, F) == \A f \in DOMAIN F : Row(N, F[f])

-----------------------------------------------------------------------------
(* Sets of layouts *)

\* A node keeps its form among more layouts.
LEMMA NodeOfMore ==
    ASSUME NEW N, NEW A, NEW B, A \subseteq B, NEW x, Node(N, A, x)
    PROVE  Node(N, B, x)
<1>1. \A s : s \in Seq(A) => s \in Seq(B)
  BY SeqOfMore
<1> QED BY <1>1 DEF Node

\* Closed sets together are closed.
LEMMA ClosedUnion ==
    ASSUME NEW N, NEW S, \A L \in S : Closed(N, L)
    PROVE  Closed(N, UNION S)
<1> SUFFICES ASSUME NEW x \in UNION S PROVE Node(N, UNION S, x)
  BY DEF Closed
<1>1. PICK L \in S : x \in L
  OBVIOUS
<1>2. Node(N, L, x) /\ L \subseteq UNION S
  BY <1>1 DEF Closed
<1> QED BY <1>2, NodeOfMore

\* A node whose parts are in a closed set is a node all the way down.
LEMMA OneMore ==
    ASSUME NEW N, NEW L, Closed(N, L), NEW x, Node(N, L, x)
    PROVE  One(N, x)
<1> DEFINE M == L \cup {x}
<1>1. \A y \in M : Node(N, L, y)
  BY DEF Closed
<1>2. \A y \in M : Node(N, M, y)
  BY <1>1, NodeOfMore
<1> HIDE DEF M
<1>3. Closed(N, M)
  BY <1>2 DEF Closed
<1>4. x \in M
  BY DEF M
<1> QED BY <1>3, <1>4 DEF One

\* One closed set serves a whole family of layouts.
LEMMA CommonSet ==
    ASSUME NEW N, NEW K, NEW f, \A i \in K : Good(N, f[i])
    PROVE  \E L : Closed(N, L) /\ \A i \in K : Flat(f[i]) \in Seq(L)
<1> DEFINE C(i) == CHOOSE L : Closed(N, L) /\ Flat(f[i]) \in Seq(L)
           L == UNION {C(i) : i \in K}
<1>1. \A i \in K : Closed(N, C(i)) /\ Flat(f[i]) \in Seq(C(i))
  BY DEF Good
<1>2. Closed(N, L)
  <2>1. \A A \in {C(i) : i \in K} : Closed(N, A)
    BY <1>1
  <2> QED BY <2>1, ClosedUnion
<1>3. \A i \in K : C(i) \subseteq L
  OBVIOUS
<1> HIDE DEF C, L
<1>4. \A i \in K : Flat(f[i]) \in Seq(L)
  BY <1>1, <1>3, SeqOfMore
<1> QED BY <1>2, <1>4

\* A node is a layout, one that reads first if it is no loop.
LEMMA OneIsGood ==
    ASSUME NEW N, NEW x
    PROVE  /\ One(N, x) => Good(N, x)
           /\ First(N, x) => One(N, x) /\ Row(N, x)
<1>1. ASSUME One(N, x) PROVE Good(N, x) /\ Flat(x) = <<x>>
  <2>1. PICK L : Closed(N, L) /\ x \in L
    BY <1>1 DEF One
  <2>2. x.op # "all"
    BY <2>1 DEF Closed, Node, Heads
  <2>3. Flat(x) = <<x>>
    BY <2>2 DEF Flat
  <2>4. <<x>> \in Seq(L)
    BY <2>1
  <2> QED BY <2>1, <2>3, <2>4 DEF Good
<1>2. ASSUME First(N, x) PROVE One(N, x) /\ Row(N, x)
  <2>1. One(N, x) /\ x.op \in Heads
    BY <1>2 DEF First
  <2>2. Good(N, x) /\ Flat(x) = <<x>>
    BY <2>1, <1>1
  <2>3. <<x>> # <<>> /\ Head(<<x>>) = x
    OBVIOUS
  <2>4. Reads(x)
    BY <2>1, <2>2, <2>3 DEF Reads
  <2> QED BY <2>1, <2>2, <2>4 DEF Row
<1> QED BY <1>1, <1>2

-----------------------------------------------------------------------------
(* The makers of layouts *)

\* A field whose ways on are layouts.
LEMMA FieldRule ==
    ASSUME NEW N, NEW bad, bad \subseteq Verdicts, NEW kids,
           \A i \in DOMAIN kids : Good(N, kids[i])
    PROVE  First(N, Field(bad, kids))
<1>1. PICK L : Closed(N, L) /\ \A i \in DOMAIN kids : Flat(kids[i]) \in Seq(L)
  BY CommonSet
<1>2. Node(N, L, Field(bad, kids))
  BY <1>1 DEF Node, Field, Heads
<1>3. One(N, Field(bad, kids))
  BY <1>1, <1>2, OneMore
<1> QED BY <1>3 DEF First, Field, Heads

\* A call of a function that has a name.
LEMMA CallRule ==
    ASSUME NEW N, NEW f \in N
    PROVE  First(N, Call(f))
<1>1. Node(N, {}, Call(f)) /\ Closed(N, {})
  BY DEF Node, Call, Heads, Closed
<1>2. One(N, Call(f))
  BY <1>1, OneMore
<1> QED BY <1>2 DEF First, Call, Heads

\* A refusal.
LEMMA RejectRule ==
    ASSUME NEW N, NEW code \in Verdicts
    PROVE  First(N, Reject(code))
<1>1. Node(N, {}, Reject(code)) /\ Closed(N, {})
  BY DEF Node, Reject, Heads, Closed
<1>2. One(N, Reject(code))
  BY <1>1, OneMore
<1> QED BY <1>2 DEF First, Reject, Heads

\* A loop over elements that read.
LEMMA LoopRule ==
    ASSUME NEW N, NEW x, Row(N, x), NEW c \in Nat
    PROVE  One(N, Loop(c, x))
<1>1. PICK L : Closed(N, L) /\ Flat(x) \in Seq(L)
  BY DEF Row, Good
<1> DEFINE M == L \cup {Loop(k, x) : k \in Nat}
<1>2. Flat(x) \in Seq(M)
  <2>1. L \subseteq M
    OBVIOUS
  <2> HIDE DEF M
  <2> QED BY <1>1, <2>1, SeqOfMore
<1>3. \A k \in Nat : Node(N, M, Loop(k, x))
  <2> SUFFICES ASSUME NEW k \in Nat PROVE Node(N, M, Loop(k, x))
    OBVIOUS
  <2>1. Loop(k, x) = [op |-> "loop", left |-> k, element |-> x]
    BY DEF Loop
  <2>2. k > 0 => Loop(k - 1, x) \in M
    OBVIOUS
  <2>3. Reads(x)
    BY DEF Row
  <2> HIDE DEF M
  <2> QED BY <1>2, <2>1, <2>2, <2>3 DEF Node, Heads
<1>4. \A y \in M : Node(N, M, y)
  <2>1. \A y \in L : Node(N, M, y)
    <3>1. \A y \in L : Node(N, L, y) /\ L \subseteq M
      BY <1>1 DEF Closed
    <3> HIDE DEF M
    <3> QED BY <3>1, NodeOfMore
  <2> QED BY <1>3, <2>1
<1>5. Loop(c, x) \in M
  OBVIOUS
<1> HIDE DEF M
<1>6. Closed(N, M)
  BY <1>4 DEF Closed
<1> QED BY <1>5, <1>6 DEF One

\* A sequence of nodes.
LEMMA AllRule ==
    ASSUME NEW N, NEW s, Len(s) \in Nat, s \in [1..Len(s) -> {s[i] : i \in 1..Len(s)}],
           \A i \in 1..Len(s) : One(N, s[i])
    PROVE  /\ Good(N, All(s))
           /\ Len(s) # 0 /\ First(N, s[1]) => Row(N, All(s))
<1> DEFINE C(i) == CHOOSE L : Closed(N, L) /\ s[i] \in L
           L == UNION {C(i) : i \in 1..Len(s)}
<1>1. \A i \in 1..Len(s) : Closed(N, C(i)) /\ s[i] \in C(i)
  BY DEF One
<1>2. Closed(N, L)
  <2>1. \A A \in {C(i) : i \in 1..Len(s)} : Closed(N, A)
    BY <1>1
  <2> QED BY <2>1, ClosedUnion
<1>3. \A i \in 1..Len(s) : s[i] \in L
  BY <1>1
<1> HIDE DEF C, L
<1>4. s \in [1..Len(s) -> L]
  BY <1>3
<1>5. s \in Seq(L)
  BY <1>4, SeqFromFunction
<1>6. Flat(All(s)) = s
  BY DEF Flat, All
<1>7. Good(N, All(s))
  BY <1>2, <1>5, <1>6 DEF Good
<1>8. ASSUME Len(s) # 0, First(N, s[1]) PROVE Row(N, All(s))
  <2>1. \A t \in Seq(L) : Len(t) # 0 => t # <<>> /\ Head(t) = t[1]
    OBVIOUS
  <2>2. s # <<>> /\ Head(s) = s[1]
    BY <1>5, <1>8, <2>1
  <2>3. Reads(All(s))
    BY <1>6, <1>8, <2>2 DEF Reads, First
  <2> QED BY <1>7, <2>3 DEF Row
<1> QED BY <1>7, <1>8

-----------------------------------------------------------------------------
(* Records read in order: a first node that reads, then any nodes. *)

\* A record of two parts.
LEMMA RowOfTwo ==
    ASSUME NEW N, NEW a, NEW b,
           First(N, a), One(N, b)
    PROVE  Row(N, All(<<a, b>>))
<1> DEFINE s == <<a, b>>
<1>1. Len(s) = 2 /\ s[1] = a /\ s \in [1..2 -> {s[i] : i \in 1..2}]
  OBVIOUS
<1>2. \A i \in 1..2 : One(N, s[i])
  <2>1. One(N, a)
    BY OneIsGood
  <2> QED BY <2>1
<1> HIDE DEF s
<1>3. Row(N, All(s))
  BY <1>1, <1>2, AllRule
<1> QED BY <1>3 DEF s

\* A record of three parts.
LEMMA RowOfThree ==
    ASSUME NEW N, NEW a, NEW b, NEW c,
           First(N, a), One(N, b), One(N, c)
    PROVE  Row(N, All(<<a, b, c>>))
<1> DEFINE s == <<a, b, c>>
<1>1. Len(s) = 3 /\ s[1] = a /\ s \in [1..3 -> {s[i] : i \in 1..3}]
  OBVIOUS
<1>2. \A i \in 1..3 : One(N, s[i])
  <2>1. One(N, a)
    BY OneIsGood
  <2> QED BY <2>1
<1> HIDE DEF s
<1>3. Row(N, All(s))
  BY <1>1, <1>2, AllRule
<1> QED BY <1>3 DEF s

\* A record of four parts.
LEMMA RowOfFour ==
    ASSUME NEW N, NEW a, NEW b, NEW c, NEW d,
           First(N, a), One(N, b), One(N, c), One(N, d)
    PROVE  Row(N, All(<<a, b, c, d>>))
<1> DEFINE s == <<a, b, c, d>>
<1>1. Len(s) = 4 /\ s[1] = a /\ s \in [1..4 -> {s[i] : i \in 1..4}]
  OBVIOUS
<1>2. \A i \in 1..4 : One(N, s[i])
  <2>1. One(N, a)
    BY OneIsGood
  <2> QED BY <2>1
<1> HIDE DEF s
<1>3. Row(N, All(s))
  BY <1>1, <1>2, AllRule
<1> QED BY <1>3 DEF s

\* A record of five parts.
LEMMA RowOfFive ==
    ASSUME NEW N, NEW a, NEW b, NEW c, NEW d, NEW e,
           First(N, a), One(N, b), One(N, c), One(N, d), One(N, e)
    PROVE  Row(N, All(<<a, b, c, d, e>>))
<1> DEFINE s == <<a, b, c, d, e>>
<1>1. Len(s) = 5 /\ s[1] = a /\ s \in [1..5 -> {s[i] : i \in 1..5}]
  OBVIOUS
<1>2. \A i \in 1..5 : One(N, s[i])
  <2>1. One(N, a)
    BY OneIsGood
  <2> QED BY <2>1
<1> HIDE DEF s
<1>3. Row(N, All(s))
  BY <1>1, <1>2, AllRule
<1> QED BY <1>3 DEF s

\* A record of six parts.
LEMMA RowOfSix ==
    ASSUME NEW N, NEW a, NEW b, NEW c, NEW d, NEW e, NEW f,
           First(N, a), One(N, b), One(N, c), One(N, d), One(N, e), One(N, f)
    PROVE  Row(N, All(<<a, b, c, d, e, f>>))
<1> DEFINE s == <<a, b, c, d, e, f>>
<1>1. Len(s) = 6 /\ s[1] = a /\ s \in [1..6 -> {s[i] : i \in 1..6}]
  OBVIOUS
<1>2. \A i \in 1..6 : One(N, s[i])
  <2>1. One(N, a)
    BY OneIsGood
  <2> QED BY <2>1
<1> HIDE DEF s
<1>3. Row(N, All(s))
  BY <1>1, <1>2, AllRule
<1> QED BY <1>3 DEF s

\* A record of seven parts.
LEMMA RowOfSeven ==
    ASSUME NEW N, NEW a, NEW b, NEW c, NEW d, NEW e, NEW f, NEW g,
           First(N, a), One(N, b), One(N, c), One(N, d), One(N, e), One(N, f), One(N, g)
    PROVE  Row(N, All(<<a, b, c, d, e, f, g>>))
<1> DEFINE s == <<a, b, c, d, e, f, g>>
<1>1. Len(s) = 7 /\ s[1] = a /\ s \in [1..7 -> {s[i] : i \in 1..7}]
  OBVIOUS
<1>2. \A i \in 1..7 : One(N, s[i])
  <2>1. One(N, a)
    BY OneIsGood
  <2> QED BY <2>1
<1> HIDE DEF s
<1>3. Row(N, All(s))
  BY <1>1, <1>2, AllRule
<1> QED BY <1>3 DEF s

\* A record of eight parts.
LEMMA RowOfEight ==
    ASSUME NEW N, NEW a, NEW b, NEW c, NEW d, NEW e, NEW f, NEW g, NEW h,
           First(N, a), One(N, b), One(N, c), One(N, d), One(N, e), One(N, f),
           One(N, g), One(N, h)
    PROVE  Row(N, All(<<a, b, c, d, e, f, g, h>>))
<1> DEFINE s == <<a, b, c, d, e, f, g, h>>
<1>1. Len(s) = 8 /\ s[1] = a /\ s \in [1..8 -> {s[i] : i \in 1..8}]
  OBVIOUS
<1>2. \A i \in 1..8 : One(N, s[i])
  <2>1. One(N, a)
    BY OneIsGood
  <2> QED BY <2>1
<1> HIDE DEF s
<1>3. Row(N, All(s))
  BY <1>1, <1>2, AllRule
<1> QED BY <1>3 DEF s

\* A record of nine parts.
LEMMA RowOfNine ==
    ASSUME NEW N, NEW a, NEW b, NEW c, NEW d, NEW e, NEW f, NEW g, NEW h, NEW o,
           First(N, a), One(N, b), One(N, c), One(N, d), One(N, e), One(N, f),
           One(N, g), One(N, h), One(N, o)
    PROVE  Row(N, All(<<a, b, c, d, e, f, g, h, o>>))
<1> DEFINE s == <<a, b, c, d, e, f, g, h, o>>
<1>1. Len(s) = 9 /\ s[1] = a /\ s \in [1..9 -> {s[i] : i \in 1..9}]
  OBVIOUS
<1>2. \A i \in 1..9 : One(N, s[i])
  <2>1. One(N, a)
    BY OneIsGood
  <2> QED BY <2>1
<1> HIDE DEF s
<1>3. Row(N, All(s))
  BY <1>1, <1>2, AllRule
<1> QED BY <1>3 DEF s

\* A record of eleven parts.
LEMMA RowOfEleven ==
    ASSUME NEW N, NEW a, NEW b, NEW c, NEW d, NEW e, NEW f, NEW g, NEW h, NEW o, NEW p, NEW q,
           First(N, a), One(N, b), One(N, c), One(N, d), One(N, e), One(N, f),
           One(N, g), One(N, h), One(N, o), One(N, p), One(N, q)
    PROVE  Row(N, All(<<a, b, c, d, e, f, g, h, o, p, q>>))
<1> DEFINE s == <<a, b, c, d, e, f, g, h, o, p, q>>
<1>1. Len(s) = 11 /\ s[1] = a /\ s \in [1..11 -> {s[i] : i \in 1..11}]
  OBVIOUS
<1>2. \A i \in 1..11 : One(N, s[i])
  <2>1. One(N, a)
    BY OneIsGood
  <2> QED BY <2>1
<1> HIDE DEF s
<1>3. Row(N, All(s))
  BY <1>1, <1>2, AllRule
<1> QED BY <1>3 DEF s

-----------------------------------------------------------------------------
(* The layouts every table is made of *)

\* A value that selects what follows: a choice of layouts.
LEMMA SwitchRule ==
    ASSUME NEW N, NEW kids, \A i \in DOMAIN kids : Good(N, kids[i])
    PROVE  First(N, Switch(kids))
<1>1. BadVarInt \cup {Invalid} \subseteq Verdicts
  BY DEF Verdicts
<1> QED BY <1>1, FieldRule DEF Switch

\* Nothing to read.
LEMMA UnitRule == ASSUME NEW N PROVE Good(N, Unit)
<1>1. Flat(Unit) = <<>> /\ <<>> \in Seq({})
  BY DEF Flat, Unit, All
<1>2. Closed(N, {})
  BY DEF Closed
<1> QED BY <1>1, <1>2 DEF Good

\* A value that says nothing of what follows.
LEMMA SingleRule ==
    ASSUME NEW N, NEW bad, bad \subseteq Verdicts
    PROVE  First(N, Field(bad, <<Unit>>))
<1>1. \A i \in DOMAIN <<Unit>> : <<Unit>>[i] = Unit
  OBVIOUS
<1> QED BY <1>1, UnitRule, FieldRule

\* A value with two ways on.
LEMMA PairRule ==
    ASSUME NEW N, NEW bad, bad \subseteq Verdicts, NEW x, NEW y, Good(N, x), Good(N, y)
    PROVE  First(N, Field(bad, <<x, y>>))
<1>1. \A i \in DOMAIN <<x, y>> : <<x, y>>[i] = x \/ <<x, y>>[i] = y
  OBVIOUS
<1> QED BY <1>1, FieldRule

\* The errors of the fields are answers of the validator.
LEMMA ErrorsAreVerdicts ==
    /\ {} \subseteq Verdicts /\ {Invalid} \subseteq Verdicts /\ BadVarInt \subseteq Verdicts
    /\ {"NBT_LENGTH"} \subseteq Verdicts /\ {"INVALID_BOOLEAN"} \subseteq Verdicts
    /\ {"NBT_LENGTH", Invalid} \subseteq Verdicts
    /\ {Invalid, "NBT_DEPTH", "NBT_LENGTH"} \subseteq Verdicts
    /\ {Invalid, "ZLIB", "NBT_LENGTH"} \subseteq Verdicts
    /\ BadVarInt \cup {Invalid} \subseteq Verdicts
    /\ BadVarInt \cup {"INVALID_LENGTH"} \subseteq Verdicts
    /\ BadVarInt \cup {"INVALID_LENGTH", "STRING_TOO_LARGE"} \subseteq Verdicts
    /\ BadVarInt \cup {Invalid, "INVALID_LENGTH"} \subseteq Verdicts
    /\ BadVarInt \cup {"INVALID_LENGTH", Invalid} \subseteq Verdicts
  BY DEF Verdicts

\* An array: as many elements that read as its count says.
LEMMA ManyRule ==
    ASSUME NEW N, NEW x, Row(N, x), NEW bad, bad \subseteq Verdicts, NEW n \in Nat
    PROVE  First(N, Field(bad, [c \in 1..n |-> Loop(c - 1, x)]))
<1>1. \A c \in 1..n : c - 1 \in Nat
  OBVIOUS
<1>2. \A c \in 1..n : Good(N, Loop(c - 1, x))
  BY <1>1, LoopRule, OneIsGood
<1> DEFINE kids == [c \in 1..n |-> Loop(c - 1, x)]
<1>3. \A c \in DOMAIN kids : Good(N, kids[c])
  BY <1>2
<1> HIDE DEF kids
<1>4. First(N, Field(bad, kids))
  BY <1>3, FieldRule
<1> QED BY <1>4 DEF kids

\* Two nodes, whatever they begin with.
LEMMA TwoNodes ==
    ASSUME NEW N, NEW a, NEW b, One(N, a), One(N, b)
    PROVE  Good(N, All(<<a, b>>))
<1> DEFINE s == <<a, b>>
<1>1. Len(s) = 2 /\ s \in [1..2 -> {s[i] : i \in 1..2}]
  OBVIOUS
<1>2. \A i \in 1..2 : One(N, s[i])
  OBVIOUS
<1> HIDE DEF s
<1>3. Good(N, All(s))
  BY <1>1, <1>2, AllRule
<1> QED BY <1>3 DEF s

\* Two counts and two arrays (item_stack_template).
LEMMA CountsRule ==
    ASSUME NEW N, NEW x, NEW y, Row(N, x), Row(N, y)
    PROVE  First(N, Counts(x, y))
<1> DEFINE Array(c, e) == IF c > MaxCount THEN Reject("INVALID_LENGTH") ELSE Loop(c, e)
           Arrays(c) == [d \in 1..(MaxCount + 2) |-> All(<<Array(c - 1, x), Array(d - 1, y)>>)]
           counts == [c \in 1..(MaxCount + 2) |-> Field(BadVarInt, Arrays(c))]
<1>0. MaxCount + 2 \in Nat
  BY MaxCountAssumption
<1>1. \A c \in 1..(MaxCount + 2) : c - 1 \in Nat
  BY <1>0
<1>2. \A e : Row(N, e) => \A c \in 1..(MaxCount + 2) : One(N, Array(c - 1, e))
  <2> SUFFICES ASSUME NEW e, Row(N, e), NEW c \in 1..(MaxCount + 2)
               PROVE  One(N, Array(c - 1, e))
    OBVIOUS
  <2>1. One(N, Loop(c - 1, e))
    BY <1>1, LoopRule
  <2>2. One(N, Reject("INVALID_LENGTH"))
    <3>1. "INVALID_LENGTH" \in Verdicts
      BY DEF Verdicts
    <3> QED BY <3>1, RejectRule DEF First
  <2> QED BY <2>1, <2>2
<1> HIDE DEF Array
<1>3. \A c \in 1..(MaxCount + 2) : \A d \in 1..(MaxCount + 2) :
         Good(N, All(<<Array(c - 1, x), Array(d - 1, y)>>))
  BY <1>2, TwoNodes
<1>4. \A c \in 1..(MaxCount + 2) : \A d \in DOMAIN Arrays(c) : Good(N, Arrays(c)[d])
  BY <1>3
<1> HIDE DEF Arrays
<1>5. \A c \in 1..(MaxCount + 2) : Good(N, Field(BadVarInt, Arrays(c)))
  BY <1>4, FieldRule, ErrorsAreVerdicts, OneIsGood
<1>6. \A c \in DOMAIN counts : Good(N, counts[c])
  BY <1>5
<1> HIDE DEF counts
<1>7. First(N, Field(BadVarInt, counts))
  BY <1>6, FieldRule, ErrorsAreVerdicts
<1> QED BY <1>7 DEF Counts, counts, Arrays, Array

\* The counts of components added and removed, and the components.
LEMMA AddedRemovedRule ==
    ASSUME NEW N, "slot_component_type" \in N, NEW x, Row(N, x)
    PROVE  First(N, AddedRemoved(x))
<1> DEFINE y == Call("slot_component_type")
           Removed(c) == [d \in 1..(MaxCount + 2 - c) |-> All(<<Loop(c - 1, x), Loop(d - 1, y)>>)]
           bad == BadVarInt \cup {"INVALID_LENGTH", Invalid}
           counts == [c \in 1..(MaxCount + 1) |-> Field(bad, Removed(c))]
<1>1. Row(N, y)
  BY CallRule, OneIsGood
<1>2. MaxCount \in Nat
  BY MaxCountAssumption
<1> HIDE DEF y
<1>3. \A c \in 1..(MaxCount + 1) : \A d \in 1..(MaxCount + 2 - c) : c - 1 \in Nat /\ d - 1 \in Nat
  BY <1>2
<1>4. \A c \in 1..(MaxCount + 1) : \A d \in 1..(MaxCount + 2 - c) :
         One(N, Loop(c - 1, x)) /\ One(N, Loop(d - 1, y))
  BY <1>1, <1>3, LoopRule
<1>5. \A c \in 1..(MaxCount + 1) : \A d \in DOMAIN Removed(c) : Good(N, Removed(c)[d])
  BY <1>4, TwoNodes
<1> HIDE DEF Removed
<1>6. bad \subseteq Verdicts
  BY ErrorsAreVerdicts
<1> HIDE DEF bad
<1>7. \A c \in 1..(MaxCount + 1) : Good(N, Field(bad, Removed(c)))
  BY <1>5, <1>6, FieldRule, OneIsGood
<1>8. \A c \in DOMAIN counts : Good(N, counts[c])
  BY <1>7
<1> HIDE DEF counts
<1>9. First(N, Field(BadVarInt, counts))
  BY <1>8, FieldRule, ErrorsAreVerdicts
<1> QED BY <1>9 DEF AddedRemoved, counts, bad, Removed, y

\* What one layout in front of others holds.
LEMMA FirstThen ==
    ASSUME NEW x, NEW n \in Nat, NEW t, t = [c \in 1..n |-> t[c]]
    PROVE  \A k \in DOMAIN (<<x>> \o t) :
              (<<x>> \o t)[k] = x \/ \E c \in 1..n : (<<x>> \o t)[k] = t[c]
<1> DEFINE S == {t[c] : c \in 1..n} \cup {x}
           kids == <<x>> \o t
<1>1. t \in Seq(S)
  <2>1. t \in [1..n -> S]
    OBVIOUS
  <2> HIDE DEF S
  <2> QED BY <2>1, SeqFromFunction
<1>2. <<x>> \in Seq(S)
  OBVIOUS
<1>3. \A u, v \in Seq(S) : u \o v \in Seq(S)
  OBVIOUS
<1>4. kids \in Seq(S)
  BY <1>1, <1>2, <1>3, Zenon
<1> HIDE DEF kids
<1>5. \A k \in DOMAIN kids : kids[k] \in S
  <2> HIDE DEF S
  <2> QED BY <1>4
<1>6. \A k \in DOMAIN kids : kids[k] = x \/ \E c \in 1..n : kids[k] = t[c]
  BY <1>5
<1> QED BY <1>6 DEF kids

\* The tag of a set of ids, or its members (idset).
LEMMA IdSetRule ==
    ASSUME NEW N
    PROVE  First(N, IdSet)
<1> DEFINE t == [c \in 1..(MaxCount + 1) |-> Loop(c - 1, VarInt)]
           kids == <<Text>> \o t
<1>1. MaxCount + 1 \in Nat
  BY MaxCountAssumption
<1>2. Row(N, VarInt) /\ Good(N, Text)
  BY SingleRule, ErrorsAreVerdicts, OneIsGood DEF VarInt, Text
<1>3. \A c \in 1..(MaxCount + 1) : Good(N, t[c])
  <2>1. \A c \in 1..(MaxCount + 1) : c - 1 \in Nat
    BY <1>1
  <2> QED BY <1>2, <2>1, LoopRule, OneIsGood
<1>4. \A k \in DOMAIN kids : kids[k] = Text \/ \E c \in 1..(MaxCount + 1) : kids[k] = t[c]
  <2>1. PICK n \in Nat : n = MaxCount + 1
    BY <1>1
  <2>2. t = [c \in 1..n |-> t[c]]
    BY <2>1
  <2> HIDE DEF t
  <2>3. \A k \in DOMAIN kids : kids[k] = Text \/ \E c \in 1..n : kids[k] = t[c]
    BY <2>2, FirstThen
  <2> QED BY <2>1, <2>3
<1> HIDE DEF kids, t
<1>5. \A k \in DOMAIN kids : Good(N, kids[k])
  BY <1>2, <1>3, <1>4
<1>6. First(N, Field(BadVarInt \cup {Invalid, "INVALID_LENGTH"}, kids))
  BY <1>5, FieldRule, ErrorsAreVerdicts
<1> QED BY <1>6 DEF IdSet, kids, t

\* What makes a layout of layouts, to take a row of a table apart by.
NodeRules(N) ==
    /\ \A x : One(N, x) => Good(N, x)
    /\ \A x : Row(N, x) => Good(N, x)
    /\ \A x : First(N, x) => One(N, x) /\ Row(N, x)
    /\ Good(N, Unit)
    /\ First(N, VarInt) /\ First(N, Text) /\ First(N, Int32) /\ First(N, Position)
    /\ First(N, Uuid) /\ First(N, Finite) /\ First(N, FiniteDouble) /\ First(N, Nbt)
    /\ First(N, Bool) /\ First(N, Positive) /\ First(N, IdSet) /\ First(N, NbtName)
    /\ First(N, Count8)
    /\ \A n : First(N, Enum(n))
    /\ \A x : Good(N, x) => First(N, Opt(x)) /\ First(N, Holder(x))
    /\ \A x, y : Good(N, x) /\ Good(N, y) => First(N, Either(x, y))
    /\ \A x : Row(N, x) => First(N, Many(x))
    /\ \A x, y : Row(N, x) /\ Row(N, y) => First(N, Counts(x, y))
    /\ \A f \in N : First(N, Call(f))
    /\ \A a, b : Good(N, a) /\ Good(N, b) => First(N, Switch(<<a, b>>))
    /\ \A a, b, c : Good(N, a) /\ Good(N, b) /\ Good(N, c) => First(N, Switch(<<a, b, c>>))
    /\ \A a, b, c, d, e :
          Good(N, a) /\ Good(N, b) /\ Good(N, c) /\ Good(N, d) /\ Good(N, e)
          => First(N, Switch(<<a, b, c, d, e>>))
    /\ \A a, b : First(N, a) /\ One(N, b)
          => Row(N, All(<<a, b>>))
    /\ \A a, b, c : First(N, a) /\ One(N, b) /\ One(N, c)
          => Row(N, All(<<a, b, c>>))
    /\ \A a, b, c, d : First(N, a) /\ One(N, b) /\ One(N, c) /\ One(N, d)
          => Row(N, All(<<a, b, c, d>>))
    /\ \A a, b, c, d, e : First(N, a) /\ One(N, b) /\ One(N, c) /\ One(N, d)
           /\ One(N, e)
          => Row(N, All(<<a, b, c, d, e>>))
    /\ \A a, b, c, d, e, f : First(N, a) /\ One(N, b) /\ One(N, c) /\ One(N, d)
           /\ One(N, e) /\ One(N, f)
          => Row(N, All(<<a, b, c, d, e, f>>))
    /\ \A a, b, c, d, e, f, g : First(N, a) /\ One(N, b) /\ One(N, c) /\ One(N, d)
           /\ One(N, e) /\ One(N, f) /\ One(N, g)
          => Row(N, All(<<a, b, c, d, e, f, g>>))
    /\ \A a, b, c, d, e, f, g, h : First(N, a) /\ One(N, b) /\ One(N, c) /\ One(N, d)
           /\ One(N, e) /\ One(N, f) /\ One(N, g) /\ One(N, h)
          => Row(N, All(<<a, b, c, d, e, f, g, h>>))
    /\ \A a, b, c, d, e, f, g, h, o : First(N, a) /\ One(N, b) /\ One(N, c)
           /\ One(N, d) /\ One(N, e) /\ One(N, f) /\ One(N, g) /\ One(N, h) /\ One(N, o)
          => Row(N, All(<<a, b, c, d, e, f, g, h, o>>))
    /\ \A a, b, c, d, e, f, g, h, o, p, q : First(N, a) /\ One(N, b) /\ One(N, c)
           /\ One(N, d) /\ One(N, e) /\ One(N, f) /\ One(N, g) /\ One(N, h)
           /\ One(N, o) /\ One(N, p) /\ One(N, q)
          => Row(N, All(<<a, b, c, d, e, f, g, h, o, p, q>>))

\* They hold whatever the names of the functions.
LEMMA Rules == ASSUME NEW N PROVE NodeRules(N)
<1>1. Good(N, Unit)
  BY UnitRule
<1>2. /\ First(N, VarInt) /\ First(N, Text) /\ First(N, Int32) /\ First(N, Position)
      /\ First(N, Uuid) /\ First(N, Finite) /\ First(N, FiniteDouble) /\ First(N, Nbt)
      /\ First(N, NbtName) /\ First(N, Count8)
  BY SingleRule, ErrorsAreVerdicts
     DEF VarInt, Text, Int32, Position, Uuid, Finite, FiniteDouble, Nbt, NbtName, Count8
<1>3. \A x, y : Good(N, x) /\ Good(N, y) => First(N, Either(x, y))
  BY PairRule, ErrorsAreVerdicts DEF Either
<1>4. First(N, Bool) /\ \A x : Good(N, x) => First(N, Opt(x))
  BY <1>1, <1>3 DEF Bool, Opt
<1>5. \A a, b : Good(N, a) /\ Good(N, b) => First(N, Switch(<<a, b>>))
  BY PairRule, ErrorsAreVerdicts DEF Switch
<1>6. \A x : Good(N, x) => First(N, Holder(x))
  BY <1>1, <1>5 DEF Holder
<1>7. First(N, Positive)
  BY SingleRule, ErrorsAreVerdicts DEF Positive, Switch
<1>8. \A n : First(N, Enum(n))
  <2> SUFFICES ASSUME NEW n PROVE First(N, Enum(n))
    OBVIOUS
  <2> DEFINE kids == [i \in 1..n |-> Unit]
  <2>1. \A i \in DOMAIN kids : Good(N, kids[i])
    BY <1>1
  <2> HIDE DEF kids
  <2>2. First(N, Switch(kids))
    BY <2>1, SwitchRule
  <2> QED BY <2>2 DEF Enum, kids
<1>9. \A x : Row(N, x) => First(N, Many(x))
  <2>1. MaxCount + 1 \in Nat
    BY MaxCountAssumption
  <2> QED BY <2>1, ManyRule, ErrorsAreVerdicts DEF Many
<1>10. \A a, b, c : Good(N, a) /\ Good(N, b) /\ Good(N, c) => First(N, Switch(<<a, b, c>>))
  <2> SUFFICES ASSUME NEW a, NEW b, NEW c, Good(N, a), Good(N, b), Good(N, c)
               PROVE  First(N, Switch(<<a, b, c>>))
    OBVIOUS
  <2>1. \A i \in DOMAIN <<a, b, c>> : Good(N, <<a, b, c>>[i])
    OBVIOUS
  <2> QED BY <2>1, SwitchRule
<1>11. \A a, b, c, d, e : Good(N, a) /\ Good(N, b) /\ Good(N, c) /\ Good(N, d) /\ Good(N, e)
          => First(N, Switch(<<a, b, c, d, e>>))
  <2> SUFFICES ASSUME NEW a, NEW b, NEW c, NEW d, NEW e, Good(N, a), Good(N, b), Good(N, c),
                      Good(N, d), Good(N, e)
               PROVE  First(N, Switch(<<a, b, c, d, e>>))
    OBVIOUS
  <2>1. \A i \in DOMAIN <<a, b, c, d, e>> : Good(N, <<a, b, c, d, e>>[i])
    OBVIOUS
  <2> QED BY <2>1, SwitchRule
<1>12. /\ \A x : One(N, x) => Good(N, x)
       /\ \A x : Row(N, x) => Good(N, x)
       /\ \A x : First(N, x) => One(N, x) /\ Row(N, x)
  BY OneIsGood DEF Row
<1>13. /\ \A f \in N : First(N, Call(f))
       /\ \A x, y : Row(N, x) /\ Row(N, y) => First(N, Counts(x, y))
       /\ First(N, IdSet)
  BY CallRule, CountsRule, IdSetRule
<1> QED
  BY <1>1, <1>2, <1>3, <1>4, <1>5, <1>6, <1>7, <1>8, <1>9, <1>10, <1>11, <1>12, <1>13,
     RowOfTwo, RowOfThree, RowOfFour, RowOfFive, RowOfSix, RowOfSeven, RowOfEight, RowOfNine,
     RowOfEleven DEF NodeRules

-----------------------------------------------------------------------------
(* NBT *)

\* The functions every protocol has.
Basic == {"nbt_fixed", "nbt_skip_array", "nbt_string", "nbt_list", "nbt_compound",
          "slot_component", "slot_component_type", "typed_skip_nested_item_stack"}

\* The values of NBT are calls of nbt_skip_value.
LEMMA NbtValuesRule ==
    ASSUME NEW N, Basic \subseteq N
    PROVE  /\ DOMAIN NbtValues = 1..5
           /\ \A k \in 1..5 : First(N, NbtValues[k])
<1>1. \A k \in 1..5 : NbtKinds[k] \in N
  BY DEF NbtKinds, Basic
<1>2. DOMAIN NbtValues = 1..5 /\ \A k \in 1..5 : NbtValues[k] = Call(NbtKinds[k])
  BY DEF NbtValues, NbtKinds
<1>3. \A k \in 1..5 : First(N, Call(NbtKinds[k]))
  BY <1>1, CallRule
<1> QED BY <1>2, <1>3

\* A type and what follows it.
LEMMA NbtTagRule ==
    ASSUME NEW N, NEW end, Good(N, end), NEW v, v = [k \in 1..5 |-> v[k]],
           \A k \in 1..5 : Good(N, v[k])
    PROVE  First(N, NbtTag(end, v))
<1>1. \A k \in DOMAIN (<<end>> \o v) : Good(N, (<<end>> \o v)[k])
  BY FirstThen
<1> QED BY <1>1, FieldRule, ErrorsAreVerdicts DEF NbtTag

\* A list of values.
LEMMA NbtListRule ==
    ASSUME NEW N, Basic \subseteq N
    PROVE  First(N, NbtList)
<1> DEFINE Elements(x) == Field({"NBT_LENGTH"}, [c \in 1..(MaxCount + 1) |-> Loop(c - 1, x)])
           v == [k \in 1..5 |-> Elements(NbtValues[k])]
           end == Field({"NBT_LENGTH", Invalid}, <<Unit>>)
<1>1. MaxCount + 1 \in Nat
  BY MaxCountAssumption
<1>2. \A k \in 1..5 : Good(N, Elements(NbtValues[k]))
  BY <1>1, NbtValuesRule, ManyRule, ErrorsAreVerdicts, OneIsGood
<1>3. Good(N, end)
  BY SingleRule, ErrorsAreVerdicts, OneIsGood
<1> HIDE DEF Elements, end
<1>4. v = [k \in 1..5 |-> v[k]] /\ \A k \in 1..5 : Good(N, v[k])
  BY <1>2
<1> HIDE DEF v
<1>5. First(N, NbtTag(end, v))
  BY <1>3, <1>4, NbtTagRule
<1>6. NbtList = NbtTag(end, v)
  BY NbtValuesRule DEF NbtList, Elements, end, v
<1> QED BY <1>5, <1>6

\* The children of a compound by the number that may still come (the recursion
\* of NbtCompound), for any bound on it.
LastChild == Field({Invalid}, <<Unit>>)
Child(rest) == NbtTag(Unit, [k \in DOMAIN NbtValues |-> All(<<NbtName, NbtValues[k], rest>>)])
IsCompound(n, g) == g = [left \in 0..n |-> IF left = 0 THEN LastChild ELSE Child(g[left - 1])]

\* A set of natural numbers has a least one.
LEMMA LeastNat ==
    ASSUME NEW T, T \subseteq Nat, T # {}
    PROVE  \E x \in T : \A y \in T : x =< y
<1> DEFINE R == OpToRel(<, Nat)
<1>1. IsWellFoundedOn(R, Nat)
  BY NatLessThanWellFounded
<1> HIDE DEF R
<1>2. PICK x \in T : \A y \in T : ~(<<y, x>> \in R)
  BY <1>1, WFMin
<1>3. \A y \in T : x =< y
  <2> SUFFICES ASSUME NEW y \in T PROVE x =< y
    OBVIOUS
  <2>1. x \in Nat /\ y \in Nat /\ ~(<<y, x>> \in R)
    BY <1>2
  <2>2. y < x => <<y, x>> \in R
    BY <2>1 DEF R, OpToRel
  <2> QED BY <2>1, <2>2
<1> QED BY <1>3

\* There is such a function, whatever the bound: the least bound without one is
\* neither 0 nor above a bound that has one.
LEMMA CompoundExists ==
    ASSUME NEW n \in Nat
    PROVE  \E g : IsCompound(n, g)
<1> DEFINE Bad == {m \in Nat : ~ \E g : IsCompound(m, g)}
<1> SUFFICES ASSUME Bad # {} PROVE FALSE
  OBVIOUS
<1>1. PICK m \in Bad : \A j \in Bad : m =< j
  BY LeastNat
<1>2. CASE m = 0
  <2> DEFINE g == [left \in 0..0 |-> LastChild]
  <2>1. g = [left \in 0..0 |-> IF left = 0 THEN LastChild ELSE Child(g[left - 1])]
    OBVIOUS
  <2> QED BY <1>2, <2>1 DEF IsCompound
<1>3. CASE m # 0
  <2>1. m - 1 \in Nat /\ m - 1 \notin Bad
    BY <1>1, <1>3
  <2>2. PICK h : IsCompound(m - 1, h)
    BY <2>1
  <2> DEFINE g == [left \in 0..m |-> IF left = m THEN Child(h[m - 1]) ELSE h[left]]
  <2>3. \A left \in 0..m : g[left] = IF left = 0 THEN LastChild ELSE Child(g[left - 1])
    <3> SUFFICES ASSUME NEW left \in 0..m
                 PROVE  g[left] = IF left = 0 THEN LastChild ELSE Child(g[left - 1])
      OBVIOUS
    <3>1. left # m => left \in 0..(m - 1)
      BY <2>1
    <3>2. left # m => h[left] = IF left = 0 THEN LastChild ELSE Child(h[left - 1])
      BY <2>2, <3>1 DEF IsCompound
    <3>3. left # 0 => left - 1 \in 0..m /\ left - 1 # m
      BY <2>1
    <3>4. left # 0 => g[left - 1] = h[left - 1]
      BY <3>3
    <3>5. g[left] = IF left = m THEN Child(h[m - 1]) ELSE h[left]
      OBVIOUS
    <3> HIDE DEF g
    <3> QED BY <1>3, <3>2, <3>4, <3>5
  <2>4. g = [left \in 0..m |-> g[left]]
    OBVIOUS
  <2> HIDE DEF g
  <2>5. [left \in 0..m |-> g[left]] =
        [left \in 0..m |-> IF left = 0 THEN LastChild ELSE Child(g[left - 1])]
    BY <2>3
  <2>6. IsCompound(m, g)
    BY <2>4, <2>5 DEF IsCompound
  <2> QED BY <1>1, <2>6
<1> QED BY <1>2, <1>3

\* What NbtCompound is for each number of children.
LEMMA CompoundIs == IsCompound(MaxCount, NbtCompound)
<1> DEFINE g == CHOOSE g : IsCompound(MaxCount, g)
<1>1. IsCompound(MaxCount, g)
  BY CompoundExists, MaxCountAssumption
<1>2. NbtCompound = g
  BY DEF NbtCompound, IsCompound, LastChild, Child
<1> QED BY <1>1, <1>2

\* A compound of any number of children.
LEMMA NbtCompoundRule ==
    ASSUME NEW N, Basic \subseteq N
    PROVE  First(N, NbtCompound[MaxCount])
<1> DEFINE Bad == {m \in 0..MaxCount : ~ First(N, NbtCompound[m])}
<1>0. MaxCount \in Nat
  BY MaxCountAssumption
<1> SUFFICES ASSUME Bad # {} PROVE FALSE
  BY <1>0
<1>1. PICK m \in Bad : \A j \in Bad : m =< j
  <2>1. Bad \subseteq Nat
    BY <1>0
  <2> HIDE DEF Bad
  <2> QED BY <2>1, LeastNat
<1>2. NbtCompound[m] = IF m = 0 THEN LastChild ELSE Child(NbtCompound[m - 1])
  BY CompoundIs DEF IsCompound
<1>3. CASE m = 0
  BY <1>1, <1>2, <1>3, SingleRule, ErrorsAreVerdicts DEF LastChild
<1>4. CASE m # 0
  <2> DEFINE rest == NbtCompound[m - 1]
             v == [k \in 1..5 |-> All(<<NbtName, NbtValues[k], rest>>)]
  <2>1. m - 1 \in 0..MaxCount /\ ~(m =< m - 1)
    BY <1>0, <1>1, <1>4
  <2>2. First(N, rest)
    BY <1>1, <2>1
  <2> HIDE DEF rest
  <2>3. \A k \in 1..5 : Good(N, All(<<NbtName, NbtValues[k], rest>>))
    <3> SUFFICES ASSUME NEW k \in 1..5
                 PROVE  Good(N, All(<<NbtName, NbtValues[k], rest>>))
      OBVIOUS
    <3>1. First(N, NbtValues[k])
      BY NbtValuesRule
    <3> QED BY <2>2, <3>1, Rules DEF NodeRules
  <2>4. v = [k \in 1..5 |-> v[k]] /\ \A k \in 1..5 : Good(N, v[k])
    BY <2>3
  <2>5. Good(N, Unit)
    BY UnitRule
  <2> HIDE DEF v
  <2>6. First(N, NbtTag(Unit, v))
    BY <2>4, <2>5, NbtTagRule
  <2>7. NbtCompound[m] = NbtTag(Unit, v)
    BY <1>2, <1>4, NbtValuesRule DEF Child, rest, v
  <2> QED BY <1>1, <2>6, <2>7
<1> QED BY <1>3, <1>4

\* Every case of nbt_skip_value reads first.
LEMMA NbtRows ==
    ASSUME NEW N, Basic \subseteq N
    PROVE  Rows(N, nbt_skip_value)
<1>1. First(N, NbtList) /\ First(N, NbtCompound[MaxCount])
  BY NbtListRule, NbtCompoundRule
<1>2. First(N, Field({"NBT_LENGTH"}, <<Unit>>))
  BY SingleRule, ErrorsAreVerdicts
<1>3. First(N, Int32) /\ First(N, NbtName)
  BY Rules DEF NodeRules
<1>4. \A x : First(N, x) => Row(N, x)
  BY OneIsGood
<1>5. \A f \in DOMAIN nbt_skip_value : First(N, nbt_skip_value[f])
  BY <1>1, <1>2, <1>3 DEF nbt_skip_value
<1> QED BY <1>4, <1>5 DEF Rows

\* A root of NBT.
LEMMA NbtRootRule ==
    ASSUME NEW N, Basic \subseteq N, NEW named
    PROVE  First(N, mc_reader_nbt(named))
<1> DEFINE v == [k \in 1..5 |-> IF named THEN All(<<NbtName, NbtValues[k]>>) ELSE NbtValues[k]]
<1>1. \A k \in 1..5 : Good(N, NbtValues[k]) /\ Good(N, All(<<NbtName, NbtValues[k]>>))
  <2> SUFFICES ASSUME NEW k \in 1..5
               PROVE  Good(N, NbtValues[k]) /\ Good(N, All(<<NbtName, NbtValues[k]>>))
    OBVIOUS
  <2>1. First(N, NbtValues[k])
    BY NbtValuesRule
  <2> QED BY <2>1, Rules DEF NodeRules
<1>2. v = [k \in 1..5 |-> v[k]] /\ \A k \in 1..5 : Good(N, v[k])
  BY <1>1
<1>3. Good(N, Unit)
  BY UnitRule
<1>4. mc_reader_nbt(named) = NbtTag(Unit, v)
  BY NbtValuesRule DEF mc_reader_nbt
<1> HIDE DEF v
<1> QED BY <1>2, <1>3, <1>4, NbtTagRule

-----------------------------------------------------------------------------
(* Items *)

\* One node alone.
LEMMA OneNode ==
    ASSUME NEW N, NEW a, One(N, a)
    PROVE  Good(N, All(<<a>>))
<1> DEFINE s == <<a>>
<1>1. Len(s) = 1 /\ s[1] = a /\ s \in [1..1 -> {s[i] : i \in 1..1}]
  OBVIOUS
<1> HIDE DEF s
<1>2. Good(N, All(s))
  BY <1>1, AllRule
<1> QED BY <1>2 DEF s

\* One sequence of nodes after another.
LEMMA AllConcat ==
    ASSUME NEW N, NEW s, NEW t, Good(N, All(s)), Good(N, All(t))
    PROVE  Good(N, All(s \o t))
<1>1. \A u : Flat(All(u)) = u
  BY DEF Flat, All
<1>2. PICK A : Closed(N, A) /\ s \in Seq(A)
  BY <1>1 DEF Good
<1>3. PICK B : Closed(N, B) /\ t \in Seq(B)
  BY <1>1 DEF Good
<1> DEFINE L == UNION {A, B}
<1>4. Closed(N, L)
  BY <1>2, <1>3, ClosedUnion
<1>5. A \subseteq L /\ B \subseteq L
  OBVIOUS
<1> HIDE DEF L
<1>6. s \in Seq(L) /\ t \in Seq(L)
  BY <1>2, <1>3, <1>5, SeqOfMore
<1>7. \A u, v \in Seq(L) : u \o v \in Seq(L)
  OBVIOUS
<1>8. s \o t \in Seq(L)
  BY <1>6, <1>7, Zenon
<1> QED BY <1>1, <1>4, <1>8 DEF Good

\* Up to protocol 401.
LEMMA OldItemRule ==
    ASSUME NEW N, Basic \subseteq N, NEW p
    PROVE  First(N, OldItem(p))
<1> DEFINE gz == Field({Invalid, "ZLIB", "NBT_LENGTH"}, <<Unit>>)
           nbt == IF p <= 5 THEN GzipNbt ELSE mc_reader_nbt(TRUE)
           fields == <<Count8>> \o (IF p <= 340 THEN <<Int32>> ELSE <<>>) \o <<nbt>>
<1>1. First(N, GzipNbt)
  <2>1. Good(N, gz) /\ Good(N, Unit)
    BY SingleRule, ErrorsAreVerdicts, UnitRule, OneIsGood
  <2> HIDE DEF gz
  <2>2. First(N, Field({Invalid}, <<Unit, gz>>))
    BY <2>1, PairRule, ErrorsAreVerdicts
  <2> QED BY <2>2 DEF GzipNbt, gz
<1>2. One(N, nbt) /\ Good(N, Unit) /\ First(N, Count8) /\ One(N, Int32)
  BY <1>1, NbtRootRule, OneIsGood, Rules DEF NodeRules
<1> HIDE DEF nbt
<1>3. Good(N, All(<<Count8>>)) /\ Good(N, All(<<Int32>>)) /\ Good(N, All(<<nbt>>))
  BY <1>2, OneNode, OneIsGood
<1>4. Good(N, All(IF p <= 340 THEN <<Int32>> ELSE <<>>))
  BY <1>2, <1>3 DEF Unit
<1>5. Good(N, All(fields))
  BY <1>3, <1>4, AllConcat
<1> HIDE DEF fields
<1>6. First(N, Field({Invalid}, <<Unit, All(fields)>>))
  BY <1>2, <1>5, PairRule, ErrorsAreVerdicts
<1> QED BY <1>6 DEF OldItem, fields, nbt

\* A hashed item.
LEMMA HashedItemRule ==
    ASSUME NEW N, Basic \subseteq N
    PROVE  First(N, HashedItem)
<1> DEFINE bad == BadVarInt \cup {"INVALID_LENGTH", Invalid}
           type == Call("slot_component_type")
           Removed(c) == Field(bad, [d \in 1..(MaxCount + 2 - c) |-> Loop(d - 1, type)])
           Added(c) == Loop(c - 1, All(<<type, Int32>>))
           counts == [c \in 1..(MaxCount + 1) |-> All(<<Added(c), Removed(c)>>)]
<1>1. First(N, type) /\ Row(N, type) /\ Row(N, All(<<type, Int32>>))
  <2>1. "slot_component_type" \in N
    BY DEF Basic
  <2> QED BY <2>1, Rules DEF NodeRules
<1>2. bad \subseteq Verdicts
  BY ErrorsAreVerdicts
<1> HIDE DEF bad, type
<1>3. \A c \in 1..(MaxCount + 1) : MaxCount + 2 - c \in Nat /\ c - 1 \in Nat
  BY MaxCountAssumption
<1>4. \A c \in 1..(MaxCount + 1) : One(N, Removed(c)) /\ One(N, Added(c))
  BY <1>1, <1>2, <1>3, ManyRule, LoopRule, OneIsGood
<1> HIDE DEF Removed, Added
<1>5. \A c \in DOMAIN counts : Good(N, counts[c])
  BY <1>4, TwoNodes
<1> HIDE DEF counts
<1>6. First(N, Field(bad, counts))
  BY <1>2, <1>5, FieldRule
<1>7. First(N, Opt(All(<<Positive, Positive, Field(bad, counts)>>)))
  BY <1>6, Rules DEF NodeRules
<1> QED BY <1>7 DEF HashedItem, counts, Removed, Added, type, bad

\* An item within a component.
LEMMA NestedItemRule ==
    ASSUME NEW N, Basic \subseteq N
    PROVE  First(N, NestedItem)
<1>1. "slot_component" \in N /\ "slot_component_type" \in N
  BY DEF Basic
<1>2. Row(N, Call("slot_component"))
  BY <1>1, Rules DEF NodeRules
<1>3. First(N, AddedRemoved(Call("slot_component")))
  BY <1>1, <1>2, AddedRemovedRule
<1> QED BY <1>3, Rules DEF NodeRules, NestedItem

\* What the caller reads, whatever the protocol and the kind of item.
LEMMA ItemStackRule ==
    ASSUME NEW N, Basic \subseteq N, NEW p, NEW kind
    PROVE  First(N, mc_reader_item_stack(p, kind))
<1> DEFINE typed == All(<<Call("slot_component_type"), Text>>)
           added == IF kind = "UNTRUSTED" THEN typed ELSE Call("slot_component")
           old == Opt(All(<<Positive, Count8, mc_reader_nbt(p < 764)>>))
           new == Switch(<<Unit, All(<<Positive, AddedRemoved(added)>>)>>)
<1>1. "slot_component" \in N /\ "slot_component_type" \in N
  BY DEF Basic
<1>2. Row(N, added)
  BY <1>1, Rules DEF NodeRules
<1>3. First(N, AddedRemoved(added))
  <2> HIDE DEF added
  <2> QED BY <1>1, <1>2, AddedRemovedRule
<1>4. First(N, new)
  <2> HIDE DEF added
  <2> QED BY <1>3, Rules DEF NodeRules
<1>5. First(N, old)
  <2>1. \A named : First(N, mc_reader_nbt(named))
    BY NbtRootRule
  <2> DEFINE root == mc_reader_nbt(p < 764)
  <2>2. First(N, root)
    BY <2>1, Zenon
  <2> HIDE DEF root
  <2>3. First(N, Opt(All(<<Positive, Count8, root>>)))
    BY <2>2, Rules DEF NodeRules
  <2> QED BY <2>3 DEF root
<1>6. First(N, HashedItem) /\ First(N, OldItem(p))
  BY HashedItemRule, OldItemRule
<1>7. \/ mc_reader_item_stack(p, kind) = HashedItem
      \/ mc_reader_item_stack(p, kind) = OldItem(p)
      \/ mc_reader_item_stack(p, kind) = old
      \/ mc_reader_item_stack(p, kind) = new
  BY DEF mc_reader_item_stack
<1> QED BY <1>4, <1>5, <1>6, <1>7

-----------------------------------------------------------------------------
(* The tables, a group of rows at a time *)

\* n layouts in a row.
Layouts(N, s, n) ==
    /\ n \in Nat /\ Len(s) = n /\ s = [i \in 1..n |-> s[i]]
    /\ \A i \in 1..n : Good(N, s[i])

\* One group of types after another.
LEMMA LayoutsConcat ==
    ASSUME NEW N, NEW s, NEW m, NEW t, NEW n, Layouts(N, s, m), Layouts(N, t, n)
    PROVE  Layouts(N, s \o t, m + n)
<1> DEFINE S == {s[i] : i \in 1..m} \cup {t[i] : i \in 1..n}
           r == s \o t
<1>1. m \in Nat /\ n \in Nat /\ Len(s) = m /\ Len(t) = n
  BY DEF Layouts
<1>2. s \in Seq(S) /\ t \in Seq(S)
  <2>1. s \in [1..m -> S] /\ t \in [1..n -> S]
    BY DEF Layouts
  <2> HIDE DEF S
  <2> QED BY <1>1, <2>1, SeqFromFunction
<1>3. \A x \in S : Good(N, x)
  BY DEF Layouts
<1> HIDE DEF S
<1>4. \A u, v \in Seq(S) : u \o v \in Seq(S) /\ Len(u \o v) = Len(u) + Len(v)
  OBVIOUS
<1>5. r \in Seq(S) /\ Len(r) = m + n
  BY <1>1, <1>2, <1>4
<1> HIDE DEF r
<1>6. \A u \in Seq(S) : /\ Len(u) \in Nat /\ u = [i \in 1..Len(u) |-> u[i]]
                        /\ \A i \in 1..Len(u) : u[i] \in S
  OBVIOUS
<1>7. Layouts(N, r, m + n)
  BY <1>1, <1>3, <1>5, <1>6 DEF Layouts
<1> QED BY <1>7 DEF r

\* One group of functions beside another.
LEMMA RowsMerge ==
    ASSUME NEW N, NEW F, NEW G, Rows(N, F), Rows(N, G)
    PROVE  Rows(N, F ++ G)
  BY DEF Rows, ++

\* Names that hold those of two groups hold those of each.
LEMMA NamesMerge ==
    ASSUME NEW N, NEW F, NEW G, DOMAIN (F ++ G) \subseteq N
    PROVE  DOMAIN F \subseteq N /\ DOMAIN G \subseteq N
  BY DEF ++

\* Every function of Functions766_1 reads first, and calls only those named here.
LEMMA RowsOfFunctions766_1 ==
    ASSUME NEW N, {"banner_pattern"} \subseteq N
    PROVE  Rows(N, Functions766_1)
<1>1. DOMAIN Functions766_1 = {"armor_trim_material", "armor_trim_pattern",
      "banner_pattern", "banner_pattern_layer"}
  BY DEF Functions766_1
<1>2. /\ Row(N, Functions766_1.armor_trim_material)
      /\ Row(N, Functions766_1.armor_trim_pattern) /\ Row(N, Functions766_1.banner_pattern)
      /\ Row(N, Functions766_1.banner_pattern_layer)
  BY Rules DEF NodeRules, Functions766_1
<1> QED BY <1>1, <1>2 DEF Rows

\* Every function of Functions766_2 reads first, and calls only those named here.
LEMMA RowsOfFunctions766_2 ==
    ASSUME NEW N, {"item_sound_holder"} \subseteq N
    PROVE  Rows(N, Functions766_2)
<1>1. DOMAIN Functions766_2 = {"idset", "instrument_data"}
  BY DEF Functions766_2
<1>2. /\ Row(N, Functions766_2.idset) /\ Row(N, Functions766_2.instrument_data)
  BY Rules DEF NodeRules, Functions766_2
<1> QED BY <1>1, <1>2 DEF Rows

\* Every function of Functions766_3 reads first, and calls only those named here.
LEMMA RowsOfFunctions766_3 ==
    ASSUME NEW N, {"item_block_property"} \subseteq N
    PROVE  Rows(N, Functions766_3)
<1>1. DOMAIN Functions766_3 = {"item_block_predicate", "item_block_property",
      "item_book_page"}
  BY DEF Functions766_3
<1>2. /\ Row(N, Functions766_3.item_block_predicate)
      /\ Row(N, Functions766_3.item_block_property) /\ Row(N, Functions766_3.item_book_page)
  BY Rules DEF NodeRules, Functions766_3
<1> QED BY <1>1, <1>2 DEF Rows

\* Every function of Functions766_4 reads first, and calls only those named here.
LEMMA RowsOfFunctions766_4 ==
    ASSUME NEW N, {"item_effect_detail"} \subseteq N
    PROVE  Rows(N, Functions766_4)
<1>1. DOMAIN Functions766_4 = {"item_effect_detail", "item_firework_explosion",
      "item_potion_effect", "item_sound_event"}
  BY DEF Functions766_4
<1>2. /\ Row(N, Functions766_4.item_effect_detail)
      /\ Row(N, Functions766_4.item_firework_explosion)
      /\ Row(N, Functions766_4.item_potion_effect)
      /\ Row(N, Functions766_4.item_sound_event)
  BY Rules DEF NodeRules, Functions766_4
<1> QED BY <1>1, <1>2 DEF Rows

\* Every function of Functions766_5 reads first, and calls only those named here.
LEMMA RowsOfFunctions766_5 ==
    ASSUME NEW N, {"item_sound_event"} \subseteq N
    PROVE  Rows(N, Functions766_5)
<1>1. DOMAIN Functions766_5 = {"item_sound_holder", "item_written_book_page"}
  BY DEF Functions766_5
<1>2. /\ Row(N, Functions766_5.item_sound_holder)
      /\ Row(N, Functions766_5.item_written_book_page)
  BY Rules DEF NodeRules, Functions766_5
<1> QED BY <1>1, <1>2 DEF Rows

\* Every function of Functions767_5 reads first, and calls only those named here.
LEMMA RowsOfFunctions767_5 ==
    ASSUME NEW N, {"item_sound_event", "item_sound_holder"} \subseteq N
    PROVE  Rows(N, Functions767_5)
<1>1. DOMAIN Functions767_5 = {"item_sound_holder", "item_written_book_page",
      "jukebox_song_data"}
  BY DEF Functions767_5
<1>2. /\ Row(N, Functions767_5.item_sound_holder)
      /\ Row(N, Functions767_5.item_written_book_page)
      /\ Row(N, Functions767_5.jukebox_song_data)
  BY Rules DEF NodeRules, Functions767_5
<1> QED BY <1>1, <1>2 DEF Rows

\* Every function of Functions768_1 reads first, and calls only those named here.
LEMMA RowsOfFunctions768_1 ==
    ASSUME NEW N, {"item_sound_holder"} \subseteq N
    PROVE  Rows(N, Functions768_1)
<1>1. DOMAIN Functions768_1 = {"armor_trim_material", "armor_trim_pattern",
      "banner_pattern_layer"}
  BY DEF Functions768_1
<1>2. /\ Row(N, Functions768_1.armor_trim_material)
      /\ Row(N, Functions768_1.armor_trim_pattern)
      /\ Row(N, Functions768_1.banner_pattern_layer)
  BY Rules DEF NodeRules, Functions768_1
<1> QED BY <1>1, <1>2 DEF Rows

\* Every function of Functions768_3 reads first, and calls only those named here.
LEMMA RowsOfFunctions768_3 ==
    ASSUME NEW N, {"idset", "item_block_property", "item_potion_effect",
                   "item_sound_holder"} \subseteq N
    PROVE  Rows(N, Functions768_3)
<1>1. DOMAIN Functions768_3 = {"item_block_predicate", "item_block_property",
      "item_book_page", "item_consume_effect"}
  BY DEF Functions768_3
<1>2. /\ Row(N, Functions768_3.item_block_predicate)
      /\ Row(N, Functions768_3.item_block_property) /\ Row(N, Functions768_3.item_book_page)
      /\ Row(N, Functions768_3.item_consume_effect)
  BY Rules DEF NodeRules, Functions768_3
<1> QED BY <1>1, <1>2 DEF Rows

\* Every function of Functions770_1 reads first, and calls only those named here.
LEMMA RowsOfFunctions770_1 ==
    ASSUME NEW N, {"banner_pattern"} \subseteq N
    PROVE  Rows(N, Functions770_1)
<1>1. DOMAIN Functions770_1 = {"armor_trim_material", "armor_trim_pattern",
      "banner_pattern", "banner_pattern_layer"}
  BY DEF Functions770_1
<1>2. /\ Row(N, Functions770_1.armor_trim_material)
      /\ Row(N, Functions770_1.armor_trim_pattern) /\ Row(N, Functions770_1.banner_pattern)
      /\ Row(N, Functions770_1.banner_pattern_layer)
  BY Rules DEF NodeRules, Functions770_1
<1> QED BY <1>1, <1>2 DEF Rows

\* Every function of Functions770_2 reads first, and calls only those named here.
LEMMA RowsOfFunctions770_2 ==
    ASSUME NEW N, {"exact_component_matcher", "slot_component"} \subseteq N
    PROVE  Rows(N, Functions770_2)
<1>1. DOMAIN Functions770_2 = {"data_component_matchers",
      "entity_metadata_painting_variant", "exact_component_matcher"}
  BY DEF Functions770_2
<1>2. /\ Row(N, Functions770_2.data_component_matchers)
      /\ Row(N, Functions770_2.entity_metadata_painting_variant)
      /\ Row(N, Functions770_2.exact_component_matcher)
  BY Rules DEF NodeRules, Functions770_2
<1> QED BY <1>1, <1>2 DEF Rows

\* Every function of Functions770_4 reads first, and calls only those named here.
LEMMA RowsOfFunctions770_4 ==
    ASSUME NEW N, {"data_component_matchers", "idset", "item_block_property",
                   "item_potion_effect", "item_sound_holder"} \subseteq N
    PROVE  Rows(N, Functions770_4)
<1>1. DOMAIN Functions770_4 = {"item_block_predicate", "item_block_property",
      "item_book_page", "item_consume_effect"}
  BY DEF Functions770_4
<1>2. /\ Row(N, Functions770_4.item_block_predicate)
      /\ Row(N, Functions770_4.item_block_property) /\ Row(N, Functions770_4.item_book_page)
      /\ Row(N, Functions770_4.item_consume_effect)
  BY Rules DEF NodeRules, Functions770_4
<1> QED BY <1>1, <1>2 DEF Rows

\* Every function of Functions773_2 reads first, and calls only those named here.
LEMMA RowsOfFunctions773_2 ==
    ASSUME NEW N, {"exact_component_matcher", "game_profile_property",
                   "slot_component"} \subseteq N
    PROVE  Rows(N, Functions773_2)
<1>1. DOMAIN Functions773_2 = {"data_component_matchers",
      "entity_metadata_painting_variant", "exact_component_matcher", "game_profile",
      "game_profile_property", "global_pos"}
  BY DEF Functions773_2
<1>2. /\ Row(N, Functions773_2.data_component_matchers)
      /\ Row(N, Functions773_2.entity_metadata_painting_variant)
      /\ Row(N, Functions773_2.exact_component_matcher)
      /\ Row(N, Functions773_2.game_profile) /\ Row(N, Functions773_2.game_profile_property)
      /\ Row(N, Functions773_2.global_pos)
  BY Rules DEF NodeRules, Functions773_2
<1> QED BY <1>1, <1>2 DEF Rows

\* Every function of Functions773_7 reads first, and calls only those named here.
LEMMA RowsOfFunctions773_7 ==
    ASSUME NEW N, {"game_profile", "game_profile_property", "partial_resolvable_profile",
                   "player_skin_patch"} \subseteq N
    PROVE  Rows(N, Functions773_7)
<1>1. DOMAIN Functions773_7 = {"partial_resolvable_profile", "player_skin_patch",
      "resolvable_profile"}
  BY DEF Functions773_7
<1>2. /\ Row(N, Functions773_7.partial_resolvable_profile)
      /\ Row(N, Functions773_7.player_skin_patch)
      /\ Row(N, Functions773_7.resolvable_profile)
  BY Rules DEF NodeRules, Functions773_7
<1> QED BY <1>1, <1>2 DEF Rows

\* Every function of Functions774_1 reads first, and calls only those named here.
LEMMA RowsOfFunctions774_1 ==
    ASSUME NEW N, {"banner_pattern"} \subseteq N
    PROVE  Rows(N, Functions774_1)
<1>1. DOMAIN Functions774_1 = {"armor_trim_material", "armor_trim_pattern",
      "banner_pattern", "banner_pattern_layer", "damage_type_data"}
  BY DEF Functions774_1
<1>2. /\ Row(N, Functions774_1.armor_trim_material)
      /\ Row(N, Functions774_1.armor_trim_pattern) /\ Row(N, Functions774_1.banner_pattern)
      /\ Row(N, Functions774_1.banner_pattern_layer)
      /\ Row(N, Functions774_1.damage_type_data)
  BY Rules DEF NodeRules, Functions774_1
<1> QED BY <1>1, <1>2 DEF Rows

\* Every function of Functions774_7 reads first, and calls only those named here.
LEMMA RowsOfFunctions774_7 ==
    ASSUME NEW N
    PROVE  Rows(N, Functions774_7)
<1>1. DOMAIN Functions774_7 = {"kinetic_weapon_condition"}
  BY DEF Functions774_7
<1>2. /\ Row(N, Functions774_7.kinetic_weapon_condition)
  BY Rules DEF NodeRules, Functions774_7
<1> QED BY <1>1, <1>2 DEF Rows

\* Every function of Functions775_2 reads first, and calls only those named here.
LEMMA RowsOfFunctions775_2 ==
    ASSUME NEW N, {"exact_component_matcher", "game_profile_property",
                   "slot_component"} \subseteq N
    PROVE  Rows(N, Functions775_2)
<1>1. DOMAIN Functions775_2 = {"data_component_matchers", "dye_color",
      "entity_metadata_painting_variant", "exact_component_matcher", "game_profile",
      "game_profile_property", "global_pos"}
  BY DEF Functions775_2
<1>2. /\ Row(N, Functions775_2.data_component_matchers) /\ Row(N, Functions775_2.dye_color)
      /\ Row(N, Functions775_2.entity_metadata_painting_variant)
      /\ Row(N, Functions775_2.exact_component_matcher)
      /\ Row(N, Functions775_2.game_profile) /\ Row(N, Functions775_2.game_profile_property)
      /\ Row(N, Functions775_2.global_pos)
  BY Rules DEF NodeRules, Functions775_2
<1> QED BY <1>1, <1>2 DEF Rows

\* Every function of Functions777_1 reads first, and calls only those named here.
LEMMA RowsOfFunctions777_1 ==
    ASSUME NEW N, {"banner_pattern"} \subseteq N
    PROVE  Rows(N, Functions777_1)
<1>1. DOMAIN Functions777_1 = {"armor_trim_material26_3", "armor_trim_pattern",
      "banner_pattern", "banner_pattern_layer", "damage_type_data"}
  BY DEF Functions777_1
<1>2. /\ Row(N, Functions777_1.armor_trim_material26_3)
      /\ Row(N, Functions777_1.armor_trim_pattern) /\ Row(N, Functions777_1.banner_pattern)
      /\ Row(N, Functions777_1.banner_pattern_layer)
      /\ Row(N, Functions777_1.damage_type_data)
  BY Rules DEF NodeRules, Functions777_1
<1> QED BY <1>1, <1>2 DEF Rows

\* Every function of Functions777_3 reads first, and calls only those named here.
LEMMA RowsOfFunctions777_3 ==
    ASSUME NEW N, {"item_sound_holder"} \subseteq N
    PROVE  Rows(N, Functions777_3)
<1>1. DOMAIN Functions777_3 = {"idset", "instrument_data26_3"}
  BY DEF Functions777_3
<1>2. /\ Row(N, Functions777_3.idset) /\ Row(N, Functions777_3.instrument_data26_3)
  BY Rules DEF NodeRules, Functions777_3
<1> QED BY <1>1, <1>2 DEF Rows

\* Every function of Functions777_4 reads first, and calls only those named here.
LEMMA RowsOfFunctions777_4 ==
    ASSUME NEW N, {"data_component_matchers", "idset", "item_block_property",
                   "item_potion_effect", "item_sound_holder"} \subseteq N
    PROVE  Rows(N, Functions777_4)
<1>1. DOMAIN Functions777_4 = {"item_block_predicate", "item_block_property",
      "item_book_page", "item_consume_effect26_3"}
  BY DEF Functions777_4
<1>2. /\ Row(N, Functions777_4.item_block_predicate)
      /\ Row(N, Functions777_4.item_block_property) /\ Row(N, Functions777_4.item_book_page)
      /\ Row(N, Functions777_4.item_consume_effect26_3)
  BY Rules DEF NodeRules, Functions777_4
<1> QED BY <1>1, <1>2 DEF Rows

\* Every function of Functions777_6 reads first, and calls only those named here.
LEMMA RowsOfFunctions777_6 ==
    ASSUME NEW N, {"item_sound_event", "item_sound_holder", "slot_component",
                   "slot_component_type"} \subseteq N
    PROVE  Rows(N, Functions777_6)
<1>1. DOMAIN Functions777_6 = {"item_sound_holder", "item_stack_template",
      "item_written_book_page", "jukebox_song_data"}
  BY DEF Functions777_6
<1>2. /\ Row(N, Functions777_6.item_sound_holder)
      /\ Row(N, Functions777_6.item_stack_template)
      /\ Row(N, Functions777_6.item_written_book_page)
      /\ Row(N, Functions777_6.jukebox_song_data)
  BY Rules DEF NodeRules, Functions777_6
<1> QED BY <1>1, <1>2 DEF Rows

\* Every function of Functions777_8 reads first, and calls only those named here.
LEMMA RowsOfFunctions777_8 ==
    ASSUME NEW N, {"game_profile", "game_profile_property", "partial_resolvable_profile",
                   "player_skin_patch"} \subseteq N
    PROVE  Rows(N, Functions777_8)
<1>1. DOMAIN Functions777_8 = {"partial_resolvable_profile", "player_skin_patch",
      "resolvable_float", "resolvable_int", "resolvable_profile"}
  BY DEF Functions777_8
<1>2. /\ Row(N, Functions777_8.partial_resolvable_profile)
      /\ Row(N, Functions777_8.player_skin_patch) /\ Row(N, Functions777_8.resolvable_float)
      /\ Row(N, Functions777_8.resolvable_int) /\ Row(N, Functions777_8.resolvable_profile)
  BY Rules DEF NodeRules, Functions777_8
<1> QED BY <1>1, <1>2 DEF Rows

\* Every type of Components766_1 has a layout, which calls only those named here.
LEMMA LayoutsOfComponents766_1 ==
    ASSUME NEW N, {"item_block_predicate"} \subseteq N
    PROVE  Layouts(N, Components766_1, 18)
<1> DEFINE s == Components766_1
<1>1. /\ Good(N, s[1]) /\ Good(N, s[2]) /\ Good(N, s[3]) /\ Good(N, s[4]) /\ Good(N, s[5])
      /\ Good(N, s[6]) /\ Good(N, s[7]) /\ Good(N, s[8]) /\ Good(N, s[9]) /\ Good(N, s[10])
      /\ Good(N, s[11]) /\ Good(N, s[12]) /\ Good(N, s[13]) /\ Good(N, s[14])
      /\ Good(N, s[15]) /\ Good(N, s[16]) /\ Good(N, s[17]) /\ Good(N, s[18])
  BY Rules DEF NodeRules, Components766_1, Pairs, Predicates, ModifiersByUuid
<1>2. Len(s) = 18 /\ s = [i \in 1..18 |-> s[i]]
  BY DEF Components766_1
<1> QED BY <1>1, <1>2 DEF Layouts

\* Every type of Components766_2 has a layout, which calls only those named here.
LEMMA LayoutsOfComponents766_2 ==
    ASSUME NEW N, {"idset", "typed_skip_nested_item_stack"} \subseteq N
    PROVE  Layouts(N, Components766_2, 13)
<1> DEFINE s == Components766_2
<1>1. /\ Good(N, s[1]) /\ Good(N, s[2]) /\ Good(N, s[3]) /\ Good(N, s[4]) /\ Good(N, s[5])
      /\ Good(N, s[6]) /\ Good(N, s[7]) /\ Good(N, s[8]) /\ Good(N, s[9]) /\ Good(N, s[10])
      /\ Good(N, s[11]) /\ Good(N, s[12]) /\ Good(N, s[13])
  BY Rules DEF NodeRules, Components766_2, FoodWithRemainder, Item, ToolRules, Pairs
<1>2. Len(s) = 13 /\ s = [i \in 1..13 |-> s[i]]
  BY DEF Components766_2
<1> QED BY <1>1, <1>2 DEF Layouts

\* Every type of Components766_3 has a layout, which calls only those named here.
LEMMA LayoutsOfComponents766_3 ==
    ASSUME NEW N, {"armor_trim_material", "armor_trim_pattern", "instrument_data",
                   "item_book_page", "item_firework_explosion", "item_potion_effect",
                   "item_written_book_page"} \subseteq N
    PROVE  Layouts(N, Components766_3, 14)
<1> DEFINE s == Components766_3
<1>1. /\ Good(N, s[1]) /\ Good(N, s[2]) /\ Good(N, s[3]) /\ Good(N, s[4]) /\ Good(N, s[5])
      /\ Good(N, s[6]) /\ Good(N, s[7]) /\ Good(N, s[8]) /\ Good(N, s[9]) /\ Good(N, s[10])
      /\ Good(N, s[11]) /\ Good(N, s[12]) /\ Good(N, s[13]) /\ Good(N, s[14])
  BY Rules DEF NodeRules, Components766_3, PotionContents, Pairs, WrittenBook, Lodestone
<1>2. Len(s) = 14 /\ s = [i \in 1..14 |-> s[i]]
  BY DEF Components766_3
<1> QED BY <1>1, <1>2 DEF Layouts

\* Every type of Components766_4 has a layout, which calls only those named here.
LEMMA LayoutsOfComponents766_4 ==
    ASSUME NEW N, {"banner_pattern_layer", "item_firework_explosion",
                   "typed_skip_nested_item_stack"} \subseteq N
    PROVE  Layouts(N, Components766_4, 11)
<1> DEFINE s == Components766_4
<1>1. /\ Good(N, s[1]) /\ Good(N, s[2]) /\ Good(N, s[3]) /\ Good(N, s[4]) /\ Good(N, s[5])
      /\ Good(N, s[6]) /\ Good(N, s[7]) /\ Good(N, s[8]) /\ Good(N, s[9]) /\ Good(N, s[10])
      /\ Good(N, s[11])
  BY Rules DEF NodeRules, Components766_4, Profile, Item
<1>2. Len(s) = 11 /\ s = [i \in 1..11 |-> s[i]]
  BY DEF Components766_4
<1> QED BY <1>1, <1>2 DEF Layouts

\* Every type of Components767_1 has a layout, which calls only those named here.
LEMMA LayoutsOfComponents767_1 ==
    ASSUME NEW N, {"item_block_predicate"} \subseteq N
    PROVE  Layouts(N, Components767_1, 19)
<1> DEFINE s == Components767_1
<1>1. /\ Good(N, s[1]) /\ Good(N, s[2]) /\ Good(N, s[3]) /\ Good(N, s[4]) /\ Good(N, s[5])
      /\ Good(N, s[6]) /\ Good(N, s[7]) /\ Good(N, s[8]) /\ Good(N, s[9]) /\ Good(N, s[10])
      /\ Good(N, s[11]) /\ Good(N, s[12]) /\ Good(N, s[13]) /\ Good(N, s[14])
      /\ Good(N, s[15]) /\ Good(N, s[16]) /\ Good(N, s[17]) /\ Good(N, s[18])
      /\ Good(N, s[19])
  BY Rules DEF NodeRules, Components767_1, Pairs, Predicates, Modifiers10
<1>2. Len(s) = 19 /\ s = [i \in 1..19 |-> s[i]]
  BY DEF Components767_1
<1> QED BY <1>1, <1>2 DEF Layouts

\* Every type of Components767_2 has a layout, which calls only those named here.
LEMMA LayoutsOfComponents767_2 ==
    ASSUME NEW N, {"idset", "typed_skip_nested_item_stack"} \subseteq N
    PROVE  Layouts(N, Components767_2, 12)
<1> DEFINE s == Components767_2
<1>1. /\ Good(N, s[1]) /\ Good(N, s[2]) /\ Good(N, s[3]) /\ Good(N, s[4]) /\ Good(N, s[5])
      /\ Good(N, s[6]) /\ Good(N, s[7]) /\ Good(N, s[8]) /\ Good(N, s[9]) /\ Good(N, s[10])
      /\ Good(N, s[11]) /\ Good(N, s[12])
  BY Rules DEF NodeRules, Components767_2, FoodWithRemainder, Item, ToolRules, Pairs
<1>2. Len(s) = 12 /\ s = [i \in 1..12 |-> s[i]]
  BY DEF Components767_2
<1> QED BY <1>1, <1>2 DEF Layouts

\* Every type of Components767_3 has a layout, which calls only those named here.
LEMMA LayoutsOfComponents767_3 ==
    ASSUME NEW N, {"armor_trim_material", "armor_trim_pattern", "instrument_data",
                   "item_book_page", "item_potion_effect", "item_written_book_page",
                   "jukebox_song_data"} \subseteq N
    PROVE  Layouts(N, Components767_3, 13)
<1> DEFINE s == Components767_3
<1>1. /\ Good(N, s[1]) /\ Good(N, s[2]) /\ Good(N, s[3]) /\ Good(N, s[4]) /\ Good(N, s[5])
      /\ Good(N, s[6]) /\ Good(N, s[7]) /\ Good(N, s[8]) /\ Good(N, s[9]) /\ Good(N, s[10])
      /\ Good(N, s[11]) /\ Good(N, s[12]) /\ Good(N, s[13])
  BY Rules DEF NodeRules, Components767_3, PotionContents, Pairs, WrittenBook, HeldSong
<1>2. Len(s) = 13 /\ s = [i \in 1..13 |-> s[i]]
  BY DEF Components767_3
<1> QED BY <1>1, <1>2 DEF Layouts

\* Every type of Components767_4 has a layout, which calls only those named here.
LEMMA LayoutsOfComponents767_4 ==
    ASSUME NEW N, {"banner_pattern_layer", "item_firework_explosion",
                   "typed_skip_nested_item_stack"} \subseteq N
    PROVE  Layouts(N, Components767_4, 13)
<1> DEFINE s == Components767_4
<1>1. /\ Good(N, s[1]) /\ Good(N, s[2]) /\ Good(N, s[3]) /\ Good(N, s[4]) /\ Good(N, s[5])
      /\ Good(N, s[6]) /\ Good(N, s[7]) /\ Good(N, s[8]) /\ Good(N, s[9]) /\ Good(N, s[10])
      /\ Good(N, s[11]) /\ Good(N, s[12]) /\ Good(N, s[13])
  BY Rules DEF NodeRules, Components767_4, Lodestone, Profile, Item
<1>2. Len(s) = 13 /\ s = [i \in 1..13 |-> s[i]]
  BY DEF Components767_4
<1> QED BY <1>1, <1>2 DEF Layouts

\* Every type of Components768_1 has a layout, which calls only those named here.
LEMMA LayoutsOfComponents768_1 ==
    ASSUME NEW N, {"item_block_predicate"} \subseteq N
    PROVE  Layouts(N, Components768_1, 14)
<1> DEFINE s == Components768_1
<1>1. /\ Good(N, s[1]) /\ Good(N, s[2]) /\ Good(N, s[3]) /\ Good(N, s[4]) /\ Good(N, s[5])
      /\ Good(N, s[6]) /\ Good(N, s[7]) /\ Good(N, s[8]) /\ Good(N, s[9]) /\ Good(N, s[10])
      /\ Good(N, s[11]) /\ Good(N, s[12]) /\ Good(N, s[13]) /\ Good(N, s[14])
  BY Rules DEF NodeRules, Components768_1, Pairs, Predicates, Modifiers10
<1>2. Len(s) = 14 /\ s = [i \in 1..14 |-> s[i]]
  BY DEF Components768_1
<1> QED BY <1>1, <1>2 DEF Layouts

\* Every type of Components768_2 has a layout, which calls only those named here.
LEMMA LayoutsOfComponents768_2 ==
    ASSUME NEW N, {"item_consume_effect", "item_sound_holder",
                   "typed_skip_nested_item_stack"} \subseteq N
    PROVE  Layouts(N, Components768_2, 12)
<1> DEFINE s == Components768_2
<1>1. /\ Good(N, s[1]) /\ Good(N, s[2]) /\ Good(N, s[3]) /\ Good(N, s[4]) /\ Good(N, s[5])
      /\ Good(N, s[6]) /\ Good(N, s[7]) /\ Good(N, s[8]) /\ Good(N, s[9]) /\ Good(N, s[10])
      /\ Good(N, s[11]) /\ Good(N, s[12])
  BY Rules DEF NodeRules, Components768_2, ModelData, Consumable10, Item
<1>2. Len(s) = 12 /\ s = [i \in 1..12 |-> s[i]]
  BY DEF Components768_2
<1> QED BY <1>1, <1>2 DEF Layouts

\* Every type of Components768_3 has a layout, which calls only those named here.
LEMMA LayoutsOfComponents768_3 ==
    ASSUME NEW N, {"idset", "item_consume_effect", "item_sound_holder",
                   "typed_skip_nested_item_stack"} \subseteq N
    PROVE  Layouts(N, Components768_3, 14)
<1> DEFINE s == Components768_3
<1>1. /\ Good(N, s[1]) /\ Good(N, s[2]) /\ Good(N, s[3]) /\ Good(N, s[4]) /\ Good(N, s[5])
      /\ Good(N, s[6]) /\ Good(N, s[7]) /\ Good(N, s[8]) /\ Good(N, s[9]) /\ Good(N, s[10])
      /\ Good(N, s[11]) /\ Good(N, s[12]) /\ Good(N, s[13]) /\ Good(N, s[14])
  BY Rules DEF NodeRules, Components768_3, ToolRules, Equippable7, Pairs, Item
<1>2. Len(s) = 14 /\ s = [i \in 1..14 |-> s[i]]
  BY DEF Components768_3
<1> QED BY <1>1, <1>2 DEF Layouts

\* Every type of Components768_4 has a layout, which calls only those named here.
LEMMA LayoutsOfComponents768_4 ==
    ASSUME NEW N, {"armor_trim_material", "armor_trim_pattern", "instrument_data",
                   "item_book_page", "item_potion_effect", "item_written_book_page",
                   "typed_skip_nested_item_stack"} \subseteq N
    PROVE  Layouts(N, Components768_4, 12)
<1> DEFINE s == Components768_4
<1>1. /\ Good(N, s[1]) /\ Good(N, s[2]) /\ Good(N, s[3]) /\ Good(N, s[4]) /\ Good(N, s[5])
      /\ Good(N, s[6]) /\ Good(N, s[7]) /\ Good(N, s[8]) /\ Good(N, s[9]) /\ Good(N, s[10])
      /\ Good(N, s[11]) /\ Good(N, s[12])
  BY Rules DEF NodeRules, Components768_4, Item, PotionContents, Pairs, WrittenBook
<1>2. Len(s) = 12 /\ s = [i \in 1..12 |-> s[i]]
  BY DEF Components768_4
<1> QED BY <1>1, <1>2 DEF Layouts

\* Every type of Components768_5 has a layout, which calls only those named here.
LEMMA LayoutsOfComponents768_5 ==
    ASSUME NEW N, {"banner_pattern_layer", "item_firework_explosion", "jukebox_song_data",
                   "typed_skip_nested_item_stack"} \subseteq N
    PROVE  Layouts(N, Components768_5, 12)
<1> DEFINE s == Components768_5
<1>1. /\ Good(N, s[1]) /\ Good(N, s[2]) /\ Good(N, s[3]) /\ Good(N, s[4]) /\ Good(N, s[5])
      /\ Good(N, s[6]) /\ Good(N, s[7]) /\ Good(N, s[8]) /\ Good(N, s[9]) /\ Good(N, s[10])
      /\ Good(N, s[11]) /\ Good(N, s[12])
  BY Rules DEF NodeRules, Components768_5, HeldSong, Lodestone, Profile, Item
<1>2. Len(s) = 12 /\ s = [i \in 1..12 |-> s[i]]
  BY DEF Components768_5
<1> QED BY <1>1, <1>2 DEF Layouts

\* Every type of Components768_6 has a layout, which calls only those named here.
LEMMA LayoutsOfComponents768_6 ==
    ASSUME NEW N
    PROVE  Layouts(N, Components768_6, 3)
<1> DEFINE s == Components768_6
<1>1. /\ Good(N, s[1]) /\ Good(N, s[2]) /\ Good(N, s[3])
  BY Rules DEF NodeRules, Components768_6
<1>2. Len(s) = 3 /\ s = [i \in 1..3 |-> s[i]]
  BY DEF Components768_6
<1> QED BY <1>1, <1>2 DEF Layouts

\* Every type of Components770_1 has a layout, which calls only those named here.
LEMMA LayoutsOfComponents770_1 ==
    ASSUME NEW N, {"item_block_predicate"} \subseteq N
    PROVE  Layouts(N, Components770_1, 14)
<1> DEFINE s == Components770_1
<1>1. /\ Good(N, s[1]) /\ Good(N, s[2]) /\ Good(N, s[3]) /\ Good(N, s[4]) /\ Good(N, s[5])
      /\ Good(N, s[6]) /\ Good(N, s[7]) /\ Good(N, s[8]) /\ Good(N, s[9]) /\ Good(N, s[10])
      /\ Good(N, s[11]) /\ Good(N, s[12]) /\ Good(N, s[13]) /\ Good(N, s[14])
  BY Rules DEF NodeRules, Components770_1, Pairs, Predicates, Modifiers11
<1>2. Len(s) = 14 /\ s = [i \in 1..14 |-> s[i]]
  BY DEF Components770_1
<1> QED BY <1>1, <1>2 DEF Layouts

\* Every type of Components770_2 has a layout, which calls only those named here.
LEMMA LayoutsOfComponents770_2 ==
    ASSUME NEW N, {"item_consume_effect", "item_sound_holder",
                   "typed_skip_nested_item_stack"} \subseteq N
    PROVE  Layouts(N, Components770_2, 11)
<1> DEFINE s == Components770_2
<1>1. /\ Good(N, s[1]) /\ Good(N, s[2]) /\ Good(N, s[3]) /\ Good(N, s[4]) /\ Good(N, s[5])
      /\ Good(N, s[6]) /\ Good(N, s[7]) /\ Good(N, s[8]) /\ Good(N, s[9]) /\ Good(N, s[10])
      /\ Good(N, s[11])
  BY Rules DEF NodeRules, Components770_2, ModelData, Consumable11, Item
<1>2. Len(s) = 11 /\ s = [i \in 1..11 |-> s[i]]
  BY DEF Components770_2
<1> QED BY <1>1, <1>2 DEF Layouts

\* Every type of Components770_3 has a layout, which calls only those named here.
LEMMA LayoutsOfComponents770_3 ==
    ASSUME NEW N, {"idset", "item_consume_effect", "item_sound_holder"} \subseteq N
    PROVE  Layouts(N, Components770_3, 8)
<1> DEFINE s == Components770_3
<1>1. /\ Good(N, s[1]) /\ Good(N, s[2]) /\ Good(N, s[3]) /\ Good(N, s[4]) /\ Good(N, s[5])
      /\ Good(N, s[6]) /\ Good(N, s[7]) /\ Good(N, s[8])
  BY Rules DEF NodeRules, Components770_3, ToolRules, Equippable8
<1>2. Len(s) = 8 /\ s = [i \in 1..8 |-> s[i]]
  BY DEF Components770_3
<1> QED BY <1>1, <1>2 DEF Layouts

\* Every type of Components770_4 has a layout, which calls only those named here.
LEMMA LayoutsOfComponents770_4 ==
    ASSUME NEW N, {"idset", "item_sound_holder",
                   "typed_skip_nested_item_stack"} \subseteq N
    PROVE  Layouts(N, Components770_4, 9)
<1> DEFINE s == Components770_4
<1>1. /\ Good(N, s[1]) /\ Good(N, s[2]) /\ Good(N, s[3]) /\ Good(N, s[4]) /\ Good(N, s[5])
      /\ Good(N, s[6]) /\ Good(N, s[7]) /\ Good(N, s[8]) /\ Good(N, s[9])
  BY Rules DEF NodeRules, Components770_4, BlocksAttacks, Pairs, Item
<1>2. Len(s) = 9 /\ s = [i \in 1..9 |-> s[i]]
  BY DEF Components770_4
<1> QED BY <1>1, <1>2 DEF Layouts

\* Every type of Components770_5 has a layout, which calls only those named here.
LEMMA LayoutsOfComponents770_5 ==
    ASSUME NEW N, {"armor_trim_material", "armor_trim_pattern", "instrument_data",
                   "item_book_page", "item_potion_effect",
                   "item_written_book_page"} \subseteq N
    PROVE  Layouts(N, Components770_5, 11)
<1> DEFINE s == Components770_5
<1>1. /\ Good(N, s[1]) /\ Good(N, s[2]) /\ Good(N, s[3]) /\ Good(N, s[4]) /\ Good(N, s[5])
      /\ Good(N, s[6]) /\ Good(N, s[7]) /\ Good(N, s[8]) /\ Good(N, s[9]) /\ Good(N, s[10])
      /\ Good(N, s[11])
  BY Rules DEF NodeRules, Components770_5, PotionContents, Pairs, WrittenBook, Trim,
     HeldInstrument
<1>2. Len(s) = 11 /\ s = [i \in 1..11 |-> s[i]]
  BY DEF Components770_5
<1> QED BY <1>1, <1>2 DEF Layouts

\* Every type of Components770_6 has a layout, which calls only those named here.
LEMMA LayoutsOfComponents770_6 ==
    ASSUME NEW N, {"armor_trim_material", "banner_pattern_layer",
                   "item_firework_explosion", "jukebox_song_data"} \subseteq N
    PROVE  Layouts(N, Components770_6, 13)
<1> DEFINE s == Components770_6
<1>1. /\ Good(N, s[1]) /\ Good(N, s[2]) /\ Good(N, s[3]) /\ Good(N, s[4]) /\ Good(N, s[5])
      /\ Good(N, s[6]) /\ Good(N, s[7]) /\ Good(N, s[8]) /\ Good(N, s[9]) /\ Good(N, s[10])
      /\ Good(N, s[11]) /\ Good(N, s[12]) /\ Good(N, s[13])
  BY Rules DEF NodeRules, Components770_6, HeldTrimMaterial, HeldSong, Lodestone, Profile
<1>2. Len(s) = 13 /\ s = [i \in 1..13 |-> s[i]]
  BY DEF Components770_6
<1> QED BY <1>1, <1>2 DEF Layouts

\* Every type of Components770_7 has a layout, which calls only those named here.
LEMMA LayoutsOfComponents770_7 ==
    ASSUME NEW N, {"entity_metadata_painting_variant", "item_sound_holder",
                   "typed_skip_nested_item_stack"} \subseteq N
    PROVE  Layouts(N, Components770_7, 27)
<1> DEFINE s == Components770_7
<1>1. /\ Good(N, s[1]) /\ Good(N, s[2]) /\ Good(N, s[3]) /\ Good(N, s[4]) /\ Good(N, s[5])
      /\ Good(N, s[6]) /\ Good(N, s[7]) /\ Good(N, s[8]) /\ Good(N, s[9]) /\ Good(N, s[10])
      /\ Good(N, s[11]) /\ Good(N, s[12]) /\ Good(N, s[13]) /\ Good(N, s[14])
      /\ Good(N, s[15]) /\ Good(N, s[16]) /\ Good(N, s[17]) /\ Good(N, s[18])
      /\ Good(N, s[19]) /\ Good(N, s[20]) /\ Good(N, s[21]) /\ Good(N, s[22])
      /\ Good(N, s[23]) /\ Good(N, s[24]) /\ Good(N, s[25]) /\ Good(N, s[26])
      /\ Good(N, s[27])
  BY Rules DEF NodeRules, Components770_7, Item
<1>2. Len(s) = 27 /\ s = [i \in 1..27 |-> s[i]]
  BY DEF Components770_7
<1> QED BY <1>1, <1>2 DEF Layouts

\* Every type of Components770_8 has a layout, which calls only those named here.
LEMMA LayoutsOfComponents770_8 ==
    ASSUME NEW N
    PROVE  Layouts(N, Components770_8, 3)
<1> DEFINE s == Components770_8
<1>1. /\ Good(N, s[1]) /\ Good(N, s[2]) /\ Good(N, s[3])
  BY Rules DEF NodeRules, Components770_8
<1>2. Len(s) = 3 /\ s = [i \in 1..3 |-> s[i]]
  BY DEF Components770_8
<1> QED BY <1>1, <1>2 DEF Layouts

\* Every type of Components771_1 has a layout, which calls only those named here.
LEMMA LayoutsOfComponents771_1 ==
    ASSUME NEW N, {"item_block_predicate"} \subseteq N
    PROVE  Layouts(N, Components771_1, 14)
<1> DEFINE s == Components771_1
<1>1. /\ Good(N, s[1]) /\ Good(N, s[2]) /\ Good(N, s[3]) /\ Good(N, s[4]) /\ Good(N, s[5])
      /\ Good(N, s[6]) /\ Good(N, s[7]) /\ Good(N, s[8]) /\ Good(N, s[9]) /\ Good(N, s[10])
      /\ Good(N, s[11]) /\ Good(N, s[12]) /\ Good(N, s[13]) /\ Good(N, s[14])
  BY Rules DEF NodeRules, Components771_1, Pairs, Predicates, ModifiersShown
<1>2. Len(s) = 14 /\ s = [i \in 1..14 |-> s[i]]
  BY DEF Components771_1
<1> QED BY <1>1, <1>2 DEF Layouts

\* Every type of Components771_3 has a layout, which calls only those named here.
LEMMA LayoutsOfComponents771_3 ==
    ASSUME NEW N, {"idset", "item_consume_effect", "item_sound_holder"} \subseteq N
    PROVE  Layouts(N, Components771_3, 8)
<1> DEFINE s == Components771_3
<1>1. /\ Good(N, s[1]) /\ Good(N, s[2]) /\ Good(N, s[3]) /\ Good(N, s[4]) /\ Good(N, s[5])
      /\ Good(N, s[6]) /\ Good(N, s[7]) /\ Good(N, s[8])
  BY Rules DEF NodeRules, Components771_3, ToolRules, EquippableSheared
<1>2. Len(s) = 8 /\ s = [i \in 1..8 |-> s[i]]
  BY DEF Components771_3
<1> QED BY <1>1, <1>2 DEF Layouts

\* Every type of Components773_5 has a layout, which calls only those named here.
LEMMA LayoutsOfComponents773_5 ==
    ASSUME NEW N, {"armor_trim_material", "armor_trim_pattern", "instrument_data",
                   "item_book_page", "item_potion_effect",
                   "item_written_book_page"} \subseteq N
    PROVE  Layouts(N, Components773_5, 11)
<1> DEFINE s == Components773_5
<1>1. /\ Good(N, s[1]) /\ Good(N, s[2]) /\ Good(N, s[3]) /\ Good(N, s[4]) /\ Good(N, s[5])
      /\ Good(N, s[6]) /\ Good(N, s[7]) /\ Good(N, s[8]) /\ Good(N, s[9]) /\ Good(N, s[10])
      /\ Good(N, s[11])
  BY Rules DEF NodeRules, Components773_5, PotionContents, Pairs, WrittenBook, Trim,
     HeldInstrument
<1>2. Len(s) = 11 /\ s = [i \in 1..11 |-> s[i]]
  BY DEF Components773_5
<1> QED BY <1>1, <1>2 DEF Layouts

\* Every type of Components773_6 has a layout, which calls only those named here.
LEMMA LayoutsOfComponents773_6 ==
    ASSUME NEW N, {"armor_trim_material", "banner_pattern_layer", "global_pos",
                   "item_firework_explosion", "jukebox_song_data",
                   "resolvable_profile"} \subseteq N
    PROVE  Layouts(N, Components773_6, 13)
<1> DEFINE s == Components773_6
<1>1. /\ Good(N, s[1]) /\ Good(N, s[2]) /\ Good(N, s[3]) /\ Good(N, s[4]) /\ Good(N, s[5])
      /\ Good(N, s[6]) /\ Good(N, s[7]) /\ Good(N, s[8]) /\ Good(N, s[9]) /\ Good(N, s[10])
      /\ Good(N, s[11]) /\ Good(N, s[12]) /\ Good(N, s[13])
  BY Rules DEF NodeRules, Components773_6, HeldTrimMaterial, HeldSong
<1>2. Len(s) = 13 /\ s = [i \in 1..13 |-> s[i]]
  BY DEF Components773_6
<1> QED BY <1>1, <1>2 DEF Layouts

\* Every type of Components774_1 has a layout, which calls only those named here.
LEMMA LayoutsOfComponents774_1 ==
    ASSUME NEW N, {"damage_type_data", "item_block_predicate"} \subseteq N
    PROVE  Layouts(N, Components774_1, 16)
<1> DEFINE s == Components774_1
<1>1. /\ Good(N, s[1]) /\ Good(N, s[2]) /\ Good(N, s[3]) /\ Good(N, s[4]) /\ Good(N, s[5])
      /\ Good(N, s[6]) /\ Good(N, s[7]) /\ Good(N, s[8]) /\ Good(N, s[9]) /\ Good(N, s[10])
      /\ Good(N, s[11]) /\ Good(N, s[12]) /\ Good(N, s[13]) /\ Good(N, s[14])
      /\ Good(N, s[15]) /\ Good(N, s[16])
  BY Rules DEF NodeRules, Components774_1, Pairs, Predicates
<1>2. Len(s) = 16 /\ s = [i \in 1..16 |-> s[i]]
  BY DEF Components774_1
<1> QED BY <1>1, <1>2 DEF Layouts

\* Every type of Components774_2 has a layout, which calls only those named here.
LEMMA LayoutsOfComponents774_2 ==
    ASSUME NEW N, {"item_consume_effect", "item_sound_holder"} \subseteq N
    PROVE  Layouts(N, Components774_2, 9)
<1> DEFINE s == Components774_2
<1>1. /\ Good(N, s[1]) /\ Good(N, s[2]) /\ Good(N, s[3]) /\ Good(N, s[4]) /\ Good(N, s[5])
      /\ Good(N, s[6]) /\ Good(N, s[7]) /\ Good(N, s[8]) /\ Good(N, s[9])
  BY Rules DEF NodeRules, Components774_2, ModifiersShown, ModelData, Consumable11
<1>2. Len(s) = 9 /\ s = [i \in 1..9 |-> s[i]]
  BY DEF Components774_2
<1> QED BY <1>1, <1>2 DEF Layouts

\* Every type of Components774_3 has a layout, which calls only those named here.
LEMMA LayoutsOfComponents774_3 ==
    ASSUME NEW N, {"idset", "item_sound_holder",
                   "typed_skip_nested_item_stack"} \subseteq N
    PROVE  Layouts(N, Components774_3, 11)
<1> DEFINE s == Components774_3
<1>1. /\ Good(N, s[1]) /\ Good(N, s[2]) /\ Good(N, s[3]) /\ Good(N, s[4]) /\ Good(N, s[5])
      /\ Good(N, s[6]) /\ Good(N, s[7]) /\ Good(N, s[8]) /\ Good(N, s[9]) /\ Good(N, s[10])
      /\ Good(N, s[11])
  BY Rules DEF NodeRules, Components774_3, Item, ToolRules, SixFinite, EquippableSheared
<1>2. Len(s) = 11 /\ s = [i \in 1..11 |-> s[i]]
  BY DEF Components774_3
<1> QED BY <1>1, <1>2 DEF Layouts

\* Every type of Components774_4 has a layout, which calls only those named here.
LEMMA LayoutsOfComponents774_4 ==
    ASSUME NEW N, {"idset", "item_consume_effect", "item_sound_holder",
                   "kinetic_weapon_condition"} \subseteq N
    PROVE  Layouts(N, Components774_4, 5)
<1> DEFINE s == Components774_4
<1>1. /\ Good(N, s[1]) /\ Good(N, s[2]) /\ Good(N, s[3]) /\ Good(N, s[4]) /\ Good(N, s[5])
  BY Rules DEF NodeRules, Components774_4, BlocksAttacks, SoundPair, KineticWeapon
<1>2. Len(s) = 5 /\ s = [i \in 1..5 |-> s[i]]
  BY DEF Components774_4
<1> QED BY <1>1, <1>2 DEF Layouts

\* Every type of Components774_5 has a layout, which calls only those named here.
LEMMA LayoutsOfComponents774_5 ==
    ASSUME NEW N, {"item_book_page", "item_potion_effect", "item_written_book_page",
                   "typed_skip_nested_item_stack"} \subseteq N
    PROVE  Layouts(N, Components774_5, 13)
<1> DEFINE s == Components774_5
<1>1. /\ Good(N, s[1]) /\ Good(N, s[2]) /\ Good(N, s[3]) /\ Good(N, s[4]) /\ Good(N, s[5])
      /\ Good(N, s[6]) /\ Good(N, s[7]) /\ Good(N, s[8]) /\ Good(N, s[9]) /\ Good(N, s[10])
      /\ Good(N, s[11]) /\ Good(N, s[12]) /\ Good(N, s[13])
  BY Rules DEF NodeRules, Components774_5, Pairs, Item, PotionContents, WrittenBook
<1>2. Len(s) = 13 /\ s = [i \in 1..13 |-> s[i]]
  BY DEF Components774_5
<1> QED BY <1>1, <1>2 DEF Layouts

\* Every type of Components774_6 has a layout, which calls only those named here.
LEMMA LayoutsOfComponents774_6 ==
    ASSUME NEW N, {"armor_trim_material", "armor_trim_pattern", "banner_pattern_layer",
                   "global_pos", "instrument_data", "item_firework_explosion",
                   "jukebox_song_data", "resolvable_profile"} \subseteq N
    PROVE  Layouts(N, Components774_6, 18)
<1> DEFINE s == Components774_6
<1>1. /\ Good(N, s[1]) /\ Good(N, s[2]) /\ Good(N, s[3]) /\ Good(N, s[4]) /\ Good(N, s[5])
      /\ Good(N, s[6]) /\ Good(N, s[7]) /\ Good(N, s[8]) /\ Good(N, s[9]) /\ Good(N, s[10])
      /\ Good(N, s[11]) /\ Good(N, s[12]) /\ Good(N, s[13]) /\ Good(N, s[14])
      /\ Good(N, s[15]) /\ Good(N, s[16]) /\ Good(N, s[17]) /\ Good(N, s[18])
  BY Rules DEF NodeRules, Components774_6, Trim, HeldInstrument, HeldTrimMaterial,
     HeldSong
<1>2. Len(s) = 18 /\ s = [i \in 1..18 |-> s[i]]
  BY DEF Components774_6
<1> QED BY <1>1, <1>2 DEF Layouts

\* Every type of Components774_7 has a layout, which calls only those named here.
LEMMA LayoutsOfComponents774_7 ==
    ASSUME NEW N, {"item_sound_holder", "typed_skip_nested_item_stack"} \subseteq N
    PROVE  Layouts(N, Components774_7, 25)
<1> DEFINE s == Components774_7
<1>1. /\ Good(N, s[1]) /\ Good(N, s[2]) /\ Good(N, s[3]) /\ Good(N, s[4]) /\ Good(N, s[5])
      /\ Good(N, s[6]) /\ Good(N, s[7]) /\ Good(N, s[8]) /\ Good(N, s[9]) /\ Good(N, s[10])
      /\ Good(N, s[11]) /\ Good(N, s[12]) /\ Good(N, s[13]) /\ Good(N, s[14])
      /\ Good(N, s[15]) /\ Good(N, s[16]) /\ Good(N, s[17]) /\ Good(N, s[18])
      /\ Good(N, s[19]) /\ Good(N, s[20]) /\ Good(N, s[21]) /\ Good(N, s[22])
      /\ Good(N, s[23]) /\ Good(N, s[24]) /\ Good(N, s[25])
  BY Rules DEF NodeRules, Components774_7, Item
<1>2. Len(s) = 25 /\ s = [i \in 1..25 |-> s[i]]
  BY DEF Components774_7
<1> QED BY <1>1, <1>2 DEF Layouts

\* Every type of Components774_8 has a layout, which calls only those named here.
LEMMA LayoutsOfComponents774_8 ==
    ASSUME NEW N, {"entity_metadata_painting_variant"} \subseteq N
    PROVE  Layouts(N, Components774_8, 7)
<1> DEFINE s == Components774_8
<1>1. /\ Good(N, s[1]) /\ Good(N, s[2]) /\ Good(N, s[3]) /\ Good(N, s[4]) /\ Good(N, s[5])
      /\ Good(N, s[6]) /\ Good(N, s[7])
  BY Rules DEF NodeRules, Components774_8
<1>2. Len(s) = 7 /\ s = [i \in 1..7 |-> s[i]]
  BY DEF Components774_8
<1> QED BY <1>1, <1>2 DEF Layouts

\* Every type of Components775_5 has a layout, which calls only those named here.
LEMMA LayoutsOfComponents775_5 ==
    ASSUME NEW N, {"dye_color", "item_book_page", "item_potion_effect",
                   "typed_skip_nested_item_stack"} \subseteq N
    PROVE  Layouts(N, Components775_5, 14)
<1> DEFINE s == Components775_5
<1>1. /\ Good(N, s[1]) /\ Good(N, s[2]) /\ Good(N, s[3]) /\ Good(N, s[4]) /\ Good(N, s[5])
      /\ Good(N, s[6]) /\ Good(N, s[7]) /\ Good(N, s[8]) /\ Good(N, s[9]) /\ Good(N, s[10])
      /\ Good(N, s[11]) /\ Good(N, s[12]) /\ Good(N, s[13]) /\ Good(N, s[14])
  BY Rules DEF NodeRules, Components775_5, Pairs, Item, PotionContents
<1>2. Len(s) = 14 /\ s = [i \in 1..14 |-> s[i]]
  BY DEF Components775_5
<1> QED BY <1>1, <1>2 DEF Layouts

\* Every type of Components775_6 has a layout, which calls only those named here.
LEMMA LayoutsOfComponents775_6 ==
    ASSUME NEW N, {"armor_trim_material", "armor_trim_pattern", "global_pos",
                   "instrument_data", "item_firework_explosion", "item_written_book_page",
                   "jukebox_song_data", "resolvable_profile"} \subseteq N
    PROVE  Layouts(N, Components775_6, 16)
<1> DEFINE s == Components775_6
<1>1. /\ Good(N, s[1]) /\ Good(N, s[2]) /\ Good(N, s[3]) /\ Good(N, s[4]) /\ Good(N, s[5])
      /\ Good(N, s[6]) /\ Good(N, s[7]) /\ Good(N, s[8]) /\ Good(N, s[9]) /\ Good(N, s[10])
      /\ Good(N, s[11]) /\ Good(N, s[12]) /\ Good(N, s[13]) /\ Good(N, s[14])
      /\ Good(N, s[15]) /\ Good(N, s[16])
  BY Rules DEF NodeRules, Components775_6, WrittenBook, Trim, HeldInstrument,
     HeldTrimMaterial, HeldSong
<1>2. Len(s) = 16 /\ s = [i \in 1..16 |-> s[i]]
  BY DEF Components775_6
<1> QED BY <1>1, <1>2 DEF Layouts

\* Every type of Components775_7 has a layout, which calls only those named here.
LEMMA LayoutsOfComponents775_7 ==
    ASSUME NEW N, {"banner_pattern_layer", "dye_color", "item_sound_holder",
                   "typed_skip_nested_item_stack"} \subseteq N
    PROVE  Layouts(N, Components775_7, 26)
<1> DEFINE s == Components775_7
<1>1. /\ Good(N, s[1]) /\ Good(N, s[2]) /\ Good(N, s[3]) /\ Good(N, s[4]) /\ Good(N, s[5])
      /\ Good(N, s[6]) /\ Good(N, s[7]) /\ Good(N, s[8]) /\ Good(N, s[9]) /\ Good(N, s[10])
      /\ Good(N, s[11]) /\ Good(N, s[12]) /\ Good(N, s[13]) /\ Good(N, s[14])
      /\ Good(N, s[15]) /\ Good(N, s[16]) /\ Good(N, s[17]) /\ Good(N, s[18])
      /\ Good(N, s[19]) /\ Good(N, s[20]) /\ Good(N, s[21]) /\ Good(N, s[22])
      /\ Good(N, s[23]) /\ Good(N, s[24]) /\ Good(N, s[25]) /\ Good(N, s[26])
  BY Rules DEF NodeRules, Components775_7, Item
<1>2. Len(s) = 26 /\ s = [i \in 1..26 |-> s[i]]
  BY DEF Components775_7
<1> QED BY <1>1, <1>2 DEF Layouts

\* Every type of Components775_8 has a layout, which calls only those named here.
LEMMA LayoutsOfComponents775_8 ==
    ASSUME NEW N, {"dye_color", "entity_metadata_painting_variant"} \subseteq N
    PROVE  Layouts(N, Components775_8, 13)
<1> DEFINE s == Components775_8
<1>1. /\ Good(N, s[1]) /\ Good(N, s[2]) /\ Good(N, s[3]) /\ Good(N, s[4]) /\ Good(N, s[5])
      /\ Good(N, s[6]) /\ Good(N, s[7]) /\ Good(N, s[8]) /\ Good(N, s[9]) /\ Good(N, s[10])
      /\ Good(N, s[11]) /\ Good(N, s[12]) /\ Good(N, s[13])
  BY Rules DEF NodeRules, Components775_8
<1>2. Len(s) = 13 /\ s = [i \in 1..13 |-> s[i]]
  BY DEF Components775_8
<1> QED BY <1>1, <1>2 DEF Layouts

\* Every type of Components777_2 has a layout, which calls only those named here.
LEMMA LayoutsOfComponents777_2 ==
    ASSUME NEW N
    PROVE  Layouts(N, Components777_2, 8)
<1> DEFINE s == Components777_2
<1>1. /\ Good(N, s[1]) /\ Good(N, s[2]) /\ Good(N, s[3]) /\ Good(N, s[4]) /\ Good(N, s[5])
      /\ Good(N, s[6]) /\ Good(N, s[7]) /\ Good(N, s[8])
  BY Rules DEF NodeRules, Components777_2, ModifiersShown, ModelData
<1>2. Len(s) = 8 /\ s = [i \in 1..8 |-> s[i]]
  BY DEF Components777_2
<1> QED BY <1>1, <1>2 DEF Layouts

\* Every type of Components777_3 has a layout, which calls only those named here.
LEMMA LayoutsOfComponents777_3 ==
    ASSUME NEW N, {"idset", "item_consume_effect26_3", "item_sound_holder",
                   "item_stack_template"} \subseteq N
    PROVE  Layouts(N, Components777_3, 8)
<1> DEFINE s == Components777_3
<1>1. /\ Good(N, s[1]) /\ Good(N, s[2]) /\ Good(N, s[3]) /\ Good(N, s[4]) /\ Good(N, s[5])
      /\ Good(N, s[6]) /\ Good(N, s[7]) /\ Good(N, s[8])
  BY Rules DEF NodeRules, Components777_3, Consumable26_3, ToolRules, SixFinite
<1>2. Len(s) = 8 /\ s = [i \in 1..8 |-> s[i]]
  BY DEF Components777_3
<1> QED BY <1>1, <1>2 DEF Layouts

\* Every type of Components777_4 has a layout, which calls only those named here.
LEMMA LayoutsOfComponents777_4 ==
    ASSUME NEW N, {"idset", "item_consume_effect26_3", "item_sound_holder"} \subseteq N
    PROVE  Layouts(N, Components777_4, 7)
<1> DEFINE s == Components777_4
<1>1. /\ Good(N, s[1]) /\ Good(N, s[2]) /\ Good(N, s[3]) /\ Good(N, s[4]) /\ Good(N, s[5])
      /\ Good(N, s[6]) /\ Good(N, s[7])
  BY Rules DEF NodeRules, Components777_4, EquippableSheared, BlocksAttacks, SoundPair
<1>2. Len(s) = 7 /\ s = [i \in 1..7 |-> s[i]]
  BY DEF Components777_4
<1> QED BY <1>1, <1>2 DEF Layouts

\* Every type of Components777_5 has a layout, which calls only those named here.
LEMMA LayoutsOfComponents777_5 ==
    ASSUME NEW N, {"dye_color", "item_sound_holder", "item_stack_template",
                   "kinetic_weapon_condition"} \subseteq N
    PROVE  Layouts(N, Components777_5, 14)
<1> DEFINE s == Components777_5
<1>1. /\ Good(N, s[1]) /\ Good(N, s[2]) /\ Good(N, s[3]) /\ Good(N, s[4]) /\ Good(N, s[5])
      /\ Good(N, s[6]) /\ Good(N, s[7]) /\ Good(N, s[8]) /\ Good(N, s[9]) /\ Good(N, s[10])
      /\ Good(N, s[11]) /\ Good(N, s[12]) /\ Good(N, s[13]) /\ Good(N, s[14])
  BY Rules DEF NodeRules, Components777_5, KineticWeapon, Pairs
<1>2. Len(s) = 14 /\ s = [i \in 1..14 |-> s[i]]
  BY DEF Components777_5
<1> QED BY <1>1, <1>2 DEF Layouts

\* Every type of Components777_6 has a layout, which calls only those named here.
LEMMA LayoutsOfComponents777_6 ==
    ASSUME NEW N, {"armor_trim_material26_3", "armor_trim_pattern", "instrument_data26_3",
                   "item_book_page", "item_potion_effect",
                   "item_written_book_page"} \subseteq N
    PROVE  Layouts(N, Components777_6, 11)
<1> DEFINE s == Components777_6
<1>1. /\ Good(N, s[1]) /\ Good(N, s[2]) /\ Good(N, s[3]) /\ Good(N, s[4]) /\ Good(N, s[5])
      /\ Good(N, s[6]) /\ Good(N, s[7]) /\ Good(N, s[8]) /\ Good(N, s[9]) /\ Good(N, s[10])
      /\ Good(N, s[11])
  BY Rules DEF NodeRules, Components777_6, PotionContents, Pairs, WrittenBook
<1>2. Len(s) = 11 /\ s = [i \in 1..11 |-> s[i]]
  BY DEF Components777_6
<1> QED BY <1>1, <1>2 DEF Layouts

\* Every type of Components777_7 has a layout, which calls only those named here.
LEMMA LayoutsOfComponents777_7 ==
    ASSUME NEW N, {"armor_trim_material26_3", "banner_pattern_layer", "dye_color",
                   "global_pos", "item_firework_explosion", "item_stack_template",
                   "jukebox_song_data", "resolvable_profile"} \subseteq N
    PROVE  Layouts(N, Components777_7, 15)
<1> DEFINE s == Components777_7
<1>1. /\ Good(N, s[1]) /\ Good(N, s[2]) /\ Good(N, s[3]) /\ Good(N, s[4]) /\ Good(N, s[5])
      /\ Good(N, s[6]) /\ Good(N, s[7]) /\ Good(N, s[8]) /\ Good(N, s[9]) /\ Good(N, s[10])
      /\ Good(N, s[11]) /\ Good(N, s[12]) /\ Good(N, s[13]) /\ Good(N, s[14])
      /\ Good(N, s[15])
  BY Rules DEF NodeRules, Components777_7, HeldSong, FourTemplates
<1>2. Len(s) = 15 /\ s = [i \in 1..15 |-> s[i]]
  BY DEF Components777_7
<1> QED BY <1>1, <1>2 DEF Layouts

\* Every type of Components777_8 has a layout, which calls only those named here.
LEMMA LayoutsOfComponents777_8 ==
    ASSUME NEW N, {"dye_color", "idset", "item_sound_holder", "resolvable_float",
                   "resolvable_int", "typed_skip_nested_item_stack"} \subseteq N
    PROVE  Layouts(N, Components777_8, 30)
<1> DEFINE s == Components777_8
<1>1. /\ Good(N, s[1]) /\ Good(N, s[2]) /\ Good(N, s[3]) /\ Good(N, s[4]) /\ Good(N, s[5])
      /\ Good(N, s[6]) /\ Good(N, s[7]) /\ Good(N, s[8]) /\ Good(N, s[9]) /\ Good(N, s[10])
      /\ Good(N, s[11]) /\ Good(N, s[12]) /\ Good(N, s[13]) /\ Good(N, s[14])
      /\ Good(N, s[15]) /\ Good(N, s[16]) /\ Good(N, s[17]) /\ Good(N, s[18])
      /\ Good(N, s[19]) /\ Good(N, s[20]) /\ Good(N, s[21]) /\ Good(N, s[22])
      /\ Good(N, s[23]) /\ Good(N, s[24]) /\ Good(N, s[25]) /\ Good(N, s[26])
      /\ Good(N, s[27]) /\ Good(N, s[28]) /\ Good(N, s[29]) /\ Good(N, s[30])
  BY Rules DEF NodeRules, Components777_8, Item
<1>2. Len(s) = 30 /\ s = [i \in 1..30 |-> s[i]]
  BY DEF Components777_8
<1> QED BY <1>1, <1>2 DEF Layouts

\* Every type of Components777_9 has a layout, which calls only those named here.
LEMMA LayoutsOfComponents777_9 ==
    ASSUME NEW N, {"dye_color", "entity_metadata_painting_variant"} \subseteq N
    PROVE  Layouts(N, Components777_9, 13)
<1> DEFINE s == Components777_9
<1>1. /\ Good(N, s[1]) /\ Good(N, s[2]) /\ Good(N, s[3]) /\ Good(N, s[4]) /\ Good(N, s[5])
      /\ Good(N, s[6]) /\ Good(N, s[7]) /\ Good(N, s[8]) /\ Good(N, s[9]) /\ Good(N, s[10])
      /\ Good(N, s[11]) /\ Good(N, s[12]) /\ Good(N, s[13])
  BY Rules DEF NodeRules, Components777_9, SignText
<1>2. Len(s) = 13 /\ s = [i \in 1..13 |-> s[i]]
  BY DEF Components777_9
<1> QED BY <1>1, <1>2 DEF Layouts
-----------------------------------------------------------------------------
(* The tables of each protocol *)

\* Every function of a version reads first, and every type of its components
\* has a layout: as many as slot_component_type accepts.
TablesOf(N, v) ==
    /\ Rows(N, Functions[v])
    /\ Layouts(N, Components[v], ComponentTypes[v])

\* The tables of protocol 766.
LEMMA TablesOf766 ==
    ASSUME NEW N, Basic \subseteq N, DOMAIN Functions[766] \subseteq N
    PROVE  TablesOf(N, 766)
<1>1. Functions[766] = Functions766_1 ++ Functions766_2 ++ Functions766_3 ++
      Functions766_4 ++ Functions766_5
  BY DEF Functions, Versions
<1>2. Components[766] = Components766_1 \o Components766_2 \o Components766_3 \o
      Components766_4
  BY DEF Components, Versions
<1>3. ComponentTypes[766] = 56
  BY DEF ComponentTypes, Versions
<1>4. DOMAIN Functions766_1 \subseteq N /\ DOMAIN Functions766_2 \subseteq N /\
      DOMAIN Functions766_3 \subseteq N /\ DOMAIN Functions766_4 \subseteq N /\
      DOMAIN Functions766_5 \subseteq N
  BY <1>1, NamesMerge
<1>5. {"armor_trim_material", "armor_trim_pattern", "banner_pattern",
       "banner_pattern_layer", "idset", "instrument_data", "item_block_predicate",
       "item_block_property", "item_book_page", "item_effect_detail",
       "item_firework_explosion", "item_potion_effect", "item_sound_event",
       "item_sound_holder", "item_written_book_page"} \subseteq N
  BY <1>4 DEF Functions766_1, Functions766_2, Functions766_3, Functions766_4,
     Functions766_5
<1>6. {"typed_skip_nested_item_stack"} \subseteq N
  BY DEF Basic
<1>7. /\ Rows(N, Functions766_1) /\ Rows(N, Functions766_2) /\ Rows(N, Functions766_3)
      /\ Rows(N, Functions766_4) /\ Rows(N, Functions766_5)
  BY <1>5, <1>6, RowsOfFunctions766_1, RowsOfFunctions766_2, RowsOfFunctions766_3,
     RowsOfFunctions766_4, RowsOfFunctions766_5
<1>8. Rows(N, Functions[766])
  BY <1>1, <1>7, RowsMerge
<1>9. /\ Layouts(N, Components766_1, 18) /\ Layouts(N, Components766_2, 13)
      /\ Layouts(N, Components766_3, 14) /\ Layouts(N, Components766_4, 11)
  BY <1>5, <1>6, LayoutsOfComponents766_1, LayoutsOfComponents766_2,
     LayoutsOfComponents766_3, LayoutsOfComponents766_4
<1>10. Layouts(N, Components766_1 \o Components766_2 \o Components766_3 \o
                  Components766_4,
                  18 + 13 + 14 + 11)
  BY <1>9, LayoutsConcat, Zenon
<1>11. Layouts(N, Components[766], 56)
  BY <1>2, <1>10
<1> QED BY <1>3, <1>8, <1>11 DEF TablesOf

\* The tables of protocol 767.
LEMMA TablesOf767 ==
    ASSUME NEW N, Basic \subseteq N, DOMAIN Functions[767] \subseteq N
    PROVE  TablesOf(N, 767)
<1>1. Functions[767] = Functions766_1 ++ Functions766_2 ++ Functions766_3 ++
      Functions766_4 ++ Functions767_5
  BY DEF Functions, Versions, Functions767_1, Functions767_2, Functions767_3,
     Functions767_4
<1>2. Components[767] = Components767_1 \o Components767_2 \o Components767_3 \o
      Components767_4
  BY DEF Components, Versions
<1>3. ComponentTypes[767] = 57
  BY DEF ComponentTypes, Versions
<1>4. DOMAIN Functions766_1 \subseteq N /\ DOMAIN Functions766_2 \subseteq N /\
      DOMAIN Functions766_3 \subseteq N /\ DOMAIN Functions766_4 \subseteq N /\
      DOMAIN Functions767_5 \subseteq N
  BY <1>1, NamesMerge
<1>5. {"armor_trim_material", "armor_trim_pattern", "banner_pattern",
       "banner_pattern_layer", "idset", "instrument_data", "item_block_predicate",
       "item_block_property", "item_book_page", "item_effect_detail",
       "item_firework_explosion", "item_potion_effect", "item_sound_event",
       "item_sound_holder", "item_written_book_page", "jukebox_song_data"} \subseteq N
  BY <1>4 DEF Functions766_1, Functions766_2, Functions766_3, Functions766_4,
     Functions767_5
<1>6. {"typed_skip_nested_item_stack"} \subseteq N
  BY DEF Basic
<1>7. /\ Rows(N, Functions766_1) /\ Rows(N, Functions766_2) /\ Rows(N, Functions766_3)
      /\ Rows(N, Functions766_4) /\ Rows(N, Functions767_5)
  BY <1>5, <1>6, RowsOfFunctions766_1, RowsOfFunctions766_2, RowsOfFunctions766_3,
     RowsOfFunctions766_4, RowsOfFunctions767_5
<1>8. Rows(N, Functions[767])
  BY <1>1, <1>7, RowsMerge
<1>9. /\ Layouts(N, Components767_1, 19) /\ Layouts(N, Components767_2, 12)
      /\ Layouts(N, Components767_3, 13) /\ Layouts(N, Components767_4, 13)
  BY <1>5, <1>6, LayoutsOfComponents767_1, LayoutsOfComponents767_2,
     LayoutsOfComponents767_3, LayoutsOfComponents767_4
<1>10. Layouts(N, Components767_1 \o Components767_2 \o Components767_3 \o
                  Components767_4,
                  19 + 12 + 13 + 13)
  BY <1>9, LayoutsConcat, Zenon
<1>11. Layouts(N, Components[767], 57)
  BY <1>2, <1>10
<1> QED BY <1>3, <1>8, <1>11 DEF TablesOf

\* The tables of protocol 768.
LEMMA TablesOf768 ==
    ASSUME NEW N, Basic \subseteq N, DOMAIN Functions[768] \subseteq N
    PROVE  TablesOf(N, 768)
<1>1. Functions[768] = Functions768_1 ++ Functions766_2 ++ Functions768_3 ++
      Functions766_4 ++ Functions767_5
  BY DEF Functions, Versions, Functions768_2, Functions768_4, Functions768_5
<1>2. Components[768] = Components768_1 \o Components768_2 \o Components768_3 \o
      Components768_4 \o Components768_5 \o Components768_6
  BY DEF Components, Versions
<1>3. ComponentTypes[768] = 67
  BY DEF ComponentTypes, Versions
<1>4. DOMAIN Functions768_1 \subseteq N /\ DOMAIN Functions766_2 \subseteq N /\
      DOMAIN Functions768_3 \subseteq N /\ DOMAIN Functions766_4 \subseteq N /\
      DOMAIN Functions767_5 \subseteq N
  BY <1>1, NamesMerge
<1>5. {"armor_trim_material", "armor_trim_pattern", "banner_pattern_layer", "idset",
       "instrument_data", "item_block_predicate", "item_block_property", "item_book_page",
       "item_consume_effect", "item_effect_detail", "item_firework_explosion",
       "item_potion_effect", "item_sound_event", "item_sound_holder",
       "item_written_book_page", "jukebox_song_data"} \subseteq N
  BY <1>4 DEF Functions768_1, Functions766_2, Functions768_3, Functions766_4,
     Functions767_5
<1>6. {"typed_skip_nested_item_stack"} \subseteq N
  BY DEF Basic
<1>7. /\ Rows(N, Functions768_1) /\ Rows(N, Functions766_2) /\ Rows(N, Functions768_3)
      /\ Rows(N, Functions766_4) /\ Rows(N, Functions767_5)
  BY <1>5, <1>6, RowsOfFunctions768_1, RowsOfFunctions766_2, RowsOfFunctions768_3,
     RowsOfFunctions766_4, RowsOfFunctions767_5
<1>8. Rows(N, Functions[768])
  BY <1>1, <1>7, RowsMerge
<1>9. /\ Layouts(N, Components768_1, 14) /\ Layouts(N, Components768_2, 12)
      /\ Layouts(N, Components768_3, 14) /\ Layouts(N, Components768_4, 12)
      /\ Layouts(N, Components768_5, 12) /\ Layouts(N, Components768_6, 3)
  BY <1>5, <1>6, LayoutsOfComponents768_1, LayoutsOfComponents768_2,
     LayoutsOfComponents768_3, LayoutsOfComponents768_4, LayoutsOfComponents768_5,
     LayoutsOfComponents768_6
<1>10. Layouts(N, Components768_1 \o Components768_2 \o Components768_3 \o
                  Components768_4 \o Components768_5 \o Components768_6,
                  14 + 12 + 14 + 12 + 12 + 3)
  BY <1>9, LayoutsConcat, Zenon
<1>11. Layouts(N, Components[768], 67)
  BY <1>2, <1>10
<1> QED BY <1>3, <1>8, <1>11 DEF TablesOf

\* The tables of protocol 769.
LEMMA TablesOf769 ==
    ASSUME NEW N, Basic \subseteq N, DOMAIN Functions[769] \subseteq N
    PROVE  TablesOf(N, 769)
<1>1. Functions[769] = Functions766_1 ++ Functions766_2 ++ Functions768_3 ++
      Functions766_4 ++ Functions767_5
  BY DEF Functions, Versions, Functions769_1, Functions769_2, Functions769_3,
     Functions769_4, Functions769_5
<1>2. Components[769] = Components768_1 \o Components768_2 \o Components768_3 \o
      Components768_4 \o Components768_5 \o Components768_6
  BY DEF Components, Versions, Components769_1, Components769_2, Components769_3,
     Components769_4, Components769_5, Components769_6
<1>3. ComponentTypes[769] = 67
  BY DEF ComponentTypes, Versions
<1>4. DOMAIN Functions766_1 \subseteq N /\ DOMAIN Functions766_2 \subseteq N /\
      DOMAIN Functions768_3 \subseteq N /\ DOMAIN Functions766_4 \subseteq N /\
      DOMAIN Functions767_5 \subseteq N
  BY <1>1, NamesMerge
<1>5. {"armor_trim_material", "armor_trim_pattern", "banner_pattern",
       "banner_pattern_layer", "idset", "instrument_data", "item_block_predicate",
       "item_block_property", "item_book_page", "item_consume_effect",
       "item_effect_detail", "item_firework_explosion", "item_potion_effect",
       "item_sound_event", "item_sound_holder", "item_written_book_page",
       "jukebox_song_data"} \subseteq N
  BY <1>4 DEF Functions766_1, Functions766_2, Functions768_3, Functions766_4,
     Functions767_5
<1>6. {"typed_skip_nested_item_stack"} \subseteq N
  BY DEF Basic
<1>7. /\ Rows(N, Functions766_1) /\ Rows(N, Functions766_2) /\ Rows(N, Functions768_3)
      /\ Rows(N, Functions766_4) /\ Rows(N, Functions767_5)
  BY <1>5, <1>6, RowsOfFunctions766_1, RowsOfFunctions766_2, RowsOfFunctions768_3,
     RowsOfFunctions766_4, RowsOfFunctions767_5
<1>8. Rows(N, Functions[769])
  BY <1>1, <1>7, RowsMerge
<1>9. /\ Layouts(N, Components768_1, 14) /\ Layouts(N, Components768_2, 12)
      /\ Layouts(N, Components768_3, 14) /\ Layouts(N, Components768_4, 12)
      /\ Layouts(N, Components768_5, 12) /\ Layouts(N, Components768_6, 3)
  BY <1>5, <1>6, LayoutsOfComponents768_1, LayoutsOfComponents768_2,
     LayoutsOfComponents768_3, LayoutsOfComponents768_4, LayoutsOfComponents768_5,
     LayoutsOfComponents768_6
<1>10. Layouts(N, Components768_1 \o Components768_2 \o Components768_3 \o
                  Components768_4 \o Components768_5 \o Components768_6,
                  14 + 12 + 14 + 12 + 12 + 3)
  BY <1>9, LayoutsConcat, Zenon
<1>11. Layouts(N, Components[769], 67)
  BY <1>2, <1>10
<1> QED BY <1>3, <1>8, <1>11 DEF TablesOf

\* The tables of protocol 770.
LEMMA TablesOf770 ==
    ASSUME NEW N, Basic \subseteq N, DOMAIN Functions[770] \subseteq N
    PROVE  TablesOf(N, 770)
<1>1. Functions[770] = Functions770_1 ++ Functions770_2 ++ Functions766_2 ++
      Functions770_4 ++ Functions766_4 ++ Functions767_5
  BY DEF Functions, Versions, Functions770_3, Functions770_5, Functions770_6
<1>2. Components[770] = Components770_1 \o Components770_2 \o Components770_3 \o
      Components770_4 \o Components770_5 \o Components770_6 \o Components770_7 \o
      Components770_8
  BY DEF Components, Versions
<1>3. ComponentTypes[770] = 96
  BY DEF ComponentTypes, Versions
<1>4. DOMAIN Functions770_1 \subseteq N /\ DOMAIN Functions770_2 \subseteq N /\
      DOMAIN Functions766_2 \subseteq N /\ DOMAIN Functions770_4 \subseteq N /\
      DOMAIN Functions766_4 \subseteq N /\ DOMAIN Functions767_5 \subseteq N
  BY <1>1, NamesMerge
<1>5. {"armor_trim_material", "armor_trim_pattern", "banner_pattern",
       "banner_pattern_layer", "data_component_matchers",
       "entity_metadata_painting_variant", "exact_component_matcher", "idset",
       "instrument_data", "item_block_predicate", "item_block_property", "item_book_page",
       "item_consume_effect", "item_effect_detail", "item_firework_explosion",
       "item_potion_effect", "item_sound_event", "item_sound_holder",
       "item_written_book_page", "jukebox_song_data"} \subseteq N
  BY <1>4 DEF Functions770_1, Functions770_2, Functions766_2, Functions770_4,
     Functions766_4, Functions767_5
<1>6. {"slot_component", "typed_skip_nested_item_stack"} \subseteq N
  BY DEF Basic
<1>7. /\ Rows(N, Functions770_1) /\ Rows(N, Functions770_2) /\ Rows(N, Functions766_2)
      /\ Rows(N, Functions770_4) /\ Rows(N, Functions766_4) /\ Rows(N, Functions767_5)
  BY <1>5, <1>6, RowsOfFunctions770_1, RowsOfFunctions770_2, RowsOfFunctions766_2,
     RowsOfFunctions770_4, RowsOfFunctions766_4, RowsOfFunctions767_5
<1>8. Rows(N, Functions[770])
  BY <1>1, <1>7, RowsMerge
<1>9. /\ Layouts(N, Components770_1, 14) /\ Layouts(N, Components770_2, 11)
      /\ Layouts(N, Components770_3, 8) /\ Layouts(N, Components770_4, 9)
      /\ Layouts(N, Components770_5, 11) /\ Layouts(N, Components770_6, 13)
      /\ Layouts(N, Components770_7, 27) /\ Layouts(N, Components770_8, 3)
  BY <1>5, <1>6, LayoutsOfComponents770_1, LayoutsOfComponents770_2,
     LayoutsOfComponents770_3, LayoutsOfComponents770_4, LayoutsOfComponents770_5,
     LayoutsOfComponents770_6, LayoutsOfComponents770_7, LayoutsOfComponents770_8
<1>10. Layouts(N, Components770_1 \o Components770_2 \o Components770_3 \o
                  Components770_4 \o Components770_5 \o Components770_6 \o
                  Components770_7 \o Components770_8,
                  14 + 11 + 8 + 9 + 11 + 13 + 27 + 3)
  <2> DEFINE first == Components770_1 \o Components770_2 \o Components770_3 \o
                      Components770_4
             size == 14 + 11 + 8 + 9
  <2>1. Layouts(N, first, size)
    BY <1>9, LayoutsConcat, Zenon
  <2> HIDE DEF first, size
  <2>2. Layouts(N, first \o Components770_5 \o Components770_6 \o
                   Components770_7 \o Components770_8,
                   size + 11 + 13 + 27 + 3)
    BY <1>9, <2>1, LayoutsConcat, Zenon
  <2> QED BY <2>2 DEF first, size
<1>11. Layouts(N, Components[770], 96)
  BY <1>2, <1>10
<1> QED BY <1>3, <1>8, <1>11 DEF TablesOf

\* The tables of protocol 771.
LEMMA TablesOf771 ==
    ASSUME NEW N, Basic \subseteq N, DOMAIN Functions[771] \subseteq N
    PROVE  TablesOf(N, 771)
<1>1. Functions[771] = Functions770_1 ++ Functions770_2 ++ Functions766_2 ++
      Functions770_4 ++ Functions766_4 ++ Functions767_5
  BY DEF Functions, Versions, Functions771_1, Functions771_2, Functions771_3,
     Functions771_4, Functions771_5, Functions771_6
<1>2. Components[771] = Components771_1 \o Components770_2 \o Components771_3 \o
      Components770_4 \o Components770_5 \o Components770_6 \o Components770_7 \o
      Components770_8
  BY DEF Components, Versions, Components771_2, Components771_4, Components771_5,
     Components771_6, Components771_7, Components771_8
<1>3. ComponentTypes[771] = 96
  BY DEF ComponentTypes, Versions
<1>4. DOMAIN Functions770_1 \subseteq N /\ DOMAIN Functions770_2 \subseteq N /\
      DOMAIN Functions766_2 \subseteq N /\ DOMAIN Functions770_4 \subseteq N /\
      DOMAIN Functions766_4 \subseteq N /\ DOMAIN Functions767_5 \subseteq N
  BY <1>1, NamesMerge
<1>5. {"armor_trim_material", "armor_trim_pattern", "banner_pattern",
       "banner_pattern_layer", "data_component_matchers",
       "entity_metadata_painting_variant", "exact_component_matcher", "idset",
       "instrument_data", "item_block_predicate", "item_block_property", "item_book_page",
       "item_consume_effect", "item_effect_detail", "item_firework_explosion",
       "item_potion_effect", "item_sound_event", "item_sound_holder",
       "item_written_book_page", "jukebox_song_data"} \subseteq N
  BY <1>4 DEF Functions770_1, Functions770_2, Functions766_2, Functions770_4,
     Functions766_4, Functions767_5
<1>6. {"slot_component", "typed_skip_nested_item_stack"} \subseteq N
  BY DEF Basic
<1>7. /\ Rows(N, Functions770_1) /\ Rows(N, Functions770_2) /\ Rows(N, Functions766_2)
      /\ Rows(N, Functions770_4) /\ Rows(N, Functions766_4) /\ Rows(N, Functions767_5)
  BY <1>5, <1>6, RowsOfFunctions770_1, RowsOfFunctions770_2, RowsOfFunctions766_2,
     RowsOfFunctions770_4, RowsOfFunctions766_4, RowsOfFunctions767_5
<1>8. Rows(N, Functions[771])
  BY <1>1, <1>7, RowsMerge
<1>9. /\ Layouts(N, Components771_1, 14) /\ Layouts(N, Components770_2, 11)
      /\ Layouts(N, Components771_3, 8) /\ Layouts(N, Components770_4, 9)
      /\ Layouts(N, Components770_5, 11) /\ Layouts(N, Components770_6, 13)
      /\ Layouts(N, Components770_7, 27) /\ Layouts(N, Components770_8, 3)
  BY <1>5, <1>6, LayoutsOfComponents771_1, LayoutsOfComponents770_2,
     LayoutsOfComponents771_3, LayoutsOfComponents770_4, LayoutsOfComponents770_5,
     LayoutsOfComponents770_6, LayoutsOfComponents770_7, LayoutsOfComponents770_8
<1>10. Layouts(N, Components771_1 \o Components770_2 \o Components771_3 \o
                  Components770_4 \o Components770_5 \o Components770_6 \o
                  Components770_7 \o Components770_8,
                  14 + 11 + 8 + 9 + 11 + 13 + 27 + 3)
  <2> DEFINE first == Components771_1 \o Components770_2 \o Components771_3 \o
                      Components770_4
             size == 14 + 11 + 8 + 9
  <2>1. Layouts(N, first, size)
    BY <1>9, LayoutsConcat, Zenon
  <2> HIDE DEF first, size
  <2>2. Layouts(N, first \o Components770_5 \o Components770_6 \o
                   Components770_7 \o Components770_8,
                   size + 11 + 13 + 27 + 3)
    BY <1>9, <2>1, LayoutsConcat, Zenon
  <2> QED BY <2>2 DEF first, size
<1>11. Layouts(N, Components[771], 96)
  BY <1>2, <1>10
<1> QED BY <1>3, <1>8, <1>11 DEF TablesOf

\* The tables of protocol 772.
LEMMA TablesOf772 ==
    ASSUME NEW N, Basic \subseteq N, DOMAIN Functions[772] \subseteq N
    PROVE  TablesOf(N, 772)
<1>1. Functions[772] = Functions770_1 ++ Functions770_2 ++ Functions766_2 ++
      Functions770_4 ++ Functions766_4 ++ Functions767_5
  BY DEF Functions, Versions, Functions772_1, Functions772_2, Functions772_3,
     Functions772_4, Functions772_5, Functions772_6
<1>2. Components[772] = Components771_1 \o Components770_2 \o Components771_3 \o
      Components770_4 \o Components770_5 \o Components770_6 \o Components770_7 \o
      Components770_8
  BY DEF Components, Versions, Components772_1, Components772_2, Components772_3,
     Components772_4, Components772_5, Components772_6, Components772_7, Components772_8
<1>3. ComponentTypes[772] = 96
  BY DEF ComponentTypes, Versions
<1>4. DOMAIN Functions770_1 \subseteq N /\ DOMAIN Functions770_2 \subseteq N /\
      DOMAIN Functions766_2 \subseteq N /\ DOMAIN Functions770_4 \subseteq N /\
      DOMAIN Functions766_4 \subseteq N /\ DOMAIN Functions767_5 \subseteq N
  BY <1>1, NamesMerge
<1>5. {"armor_trim_material", "armor_trim_pattern", "banner_pattern",
       "banner_pattern_layer", "data_component_matchers",
       "entity_metadata_painting_variant", "exact_component_matcher", "idset",
       "instrument_data", "item_block_predicate", "item_block_property", "item_book_page",
       "item_consume_effect", "item_effect_detail", "item_firework_explosion",
       "item_potion_effect", "item_sound_event", "item_sound_holder",
       "item_written_book_page", "jukebox_song_data"} \subseteq N
  BY <1>4 DEF Functions770_1, Functions770_2, Functions766_2, Functions770_4,
     Functions766_4, Functions767_5
<1>6. {"slot_component", "typed_skip_nested_item_stack"} \subseteq N
  BY DEF Basic
<1>7. /\ Rows(N, Functions770_1) /\ Rows(N, Functions770_2) /\ Rows(N, Functions766_2)
      /\ Rows(N, Functions770_4) /\ Rows(N, Functions766_4) /\ Rows(N, Functions767_5)
  BY <1>5, <1>6, RowsOfFunctions770_1, RowsOfFunctions770_2, RowsOfFunctions766_2,
     RowsOfFunctions770_4, RowsOfFunctions766_4, RowsOfFunctions767_5
<1>8. Rows(N, Functions[772])
  BY <1>1, <1>7, RowsMerge
<1>9. /\ Layouts(N, Components771_1, 14) /\ Layouts(N, Components770_2, 11)
      /\ Layouts(N, Components771_3, 8) /\ Layouts(N, Components770_4, 9)
      /\ Layouts(N, Components770_5, 11) /\ Layouts(N, Components770_6, 13)
      /\ Layouts(N, Components770_7, 27) /\ Layouts(N, Components770_8, 3)
  BY <1>5, <1>6, LayoutsOfComponents771_1, LayoutsOfComponents770_2,
     LayoutsOfComponents771_3, LayoutsOfComponents770_4, LayoutsOfComponents770_5,
     LayoutsOfComponents770_6, LayoutsOfComponents770_7, LayoutsOfComponents770_8
<1>10. Layouts(N, Components771_1 \o Components770_2 \o Components771_3 \o
                  Components770_4 \o Components770_5 \o Components770_6 \o
                  Components770_7 \o Components770_8,
                  14 + 11 + 8 + 9 + 11 + 13 + 27 + 3)
  <2> DEFINE first == Components771_1 \o Components770_2 \o Components771_3 \o
                      Components770_4
             size == 14 + 11 + 8 + 9
  <2>1. Layouts(N, first, size)
    BY <1>9, LayoutsConcat, Zenon
  <2> HIDE DEF first, size
  <2>2. Layouts(N, first \o Components770_5 \o Components770_6 \o
                   Components770_7 \o Components770_8,
                   size + 11 + 13 + 27 + 3)
    BY <1>9, <2>1, LayoutsConcat, Zenon
  <2> QED BY <2>2 DEF first, size
<1>11. Layouts(N, Components[772], 96)
  BY <1>2, <1>10
<1> QED BY <1>3, <1>8, <1>11 DEF TablesOf

\* The tables of protocol 773.
LEMMA TablesOf773 ==
    ASSUME NEW N, Basic \subseteq N, DOMAIN Functions[773] \subseteq N
    PROVE  TablesOf(N, 773)
<1>1. Functions[773] = Functions770_1 ++ Functions773_2 ++ Functions766_2 ++
      Functions770_4 ++ Functions766_4 ++ Functions767_5 ++ Functions773_7
  BY DEF Functions, Versions, Functions773_1, Functions773_3, Functions773_4,
     Functions773_5, Functions773_6
<1>2. Components[773] = Components771_1 \o Components770_2 \o Components771_3 \o
      Components770_4 \o Components773_5 \o Components773_6 \o Components770_7 \o
      Components770_8
  BY DEF Components, Versions, Components773_1, Components773_2, Components773_3,
     Components773_4, Components773_7, Components773_8
<1>3. ComponentTypes[773] = 96
  BY DEF ComponentTypes, Versions
<1>4. DOMAIN Functions770_1 \subseteq N /\ DOMAIN Functions773_2 \subseteq N /\
      DOMAIN Functions766_2 \subseteq N /\ DOMAIN Functions770_4 \subseteq N /\
      DOMAIN Functions766_4 \subseteq N /\ DOMAIN Functions767_5 \subseteq N /\
      DOMAIN Functions773_7 \subseteq N
  BY <1>1, NamesMerge
<1>5. {"armor_trim_material", "armor_trim_pattern", "banner_pattern",
       "banner_pattern_layer", "data_component_matchers",
       "entity_metadata_painting_variant", "exact_component_matcher", "game_profile",
       "game_profile_property", "global_pos", "idset", "instrument_data",
       "item_block_predicate", "item_block_property", "item_book_page",
       "item_consume_effect", "item_effect_detail", "item_firework_explosion",
       "item_potion_effect", "item_sound_event", "item_sound_holder",
       "item_written_book_page", "jukebox_song_data", "partial_resolvable_profile",
       "player_skin_patch", "resolvable_profile"} \subseteq N
  BY <1>4 DEF Functions770_1, Functions773_2, Functions766_2, Functions770_4,
     Functions766_4, Functions767_5, Functions773_7
<1>6. {"slot_component", "typed_skip_nested_item_stack"} \subseteq N
  BY DEF Basic
<1>7. /\ Rows(N, Functions770_1) /\ Rows(N, Functions773_2) /\ Rows(N, Functions766_2)
      /\ Rows(N, Functions770_4) /\ Rows(N, Functions766_4) /\ Rows(N, Functions767_5)
      /\ Rows(N, Functions773_7)
  BY <1>5, <1>6, RowsOfFunctions770_1, RowsOfFunctions773_2, RowsOfFunctions766_2,
     RowsOfFunctions770_4, RowsOfFunctions766_4, RowsOfFunctions767_5,
     RowsOfFunctions773_7
<1>8. Rows(N, Functions[773])
  BY <1>1, <1>7, RowsMerge
<1>9. /\ Layouts(N, Components771_1, 14) /\ Layouts(N, Components770_2, 11)
      /\ Layouts(N, Components771_3, 8) /\ Layouts(N, Components770_4, 9)
      /\ Layouts(N, Components773_5, 11) /\ Layouts(N, Components773_6, 13)
      /\ Layouts(N, Components770_7, 27) /\ Layouts(N, Components770_8, 3)
  BY <1>5, <1>6, LayoutsOfComponents771_1, LayoutsOfComponents770_2,
     LayoutsOfComponents771_3, LayoutsOfComponents770_4, LayoutsOfComponents773_5,
     LayoutsOfComponents773_6, LayoutsOfComponents770_7, LayoutsOfComponents770_8
<1>10. Layouts(N, Components771_1 \o Components770_2 \o Components771_3 \o
                  Components770_4 \o Components773_5 \o Components773_6 \o
                  Components770_7 \o Components770_8,
                  14 + 11 + 8 + 9 + 11 + 13 + 27 + 3)
  <2> DEFINE first == Components771_1 \o Components770_2 \o Components771_3 \o
                      Components770_4
             size == 14 + 11 + 8 + 9
  <2>1. Layouts(N, first, size)
    BY <1>9, LayoutsConcat, Zenon
  <2> HIDE DEF first, size
  <2>2. Layouts(N, first \o Components773_5 \o Components773_6 \o
                   Components770_7 \o Components770_8,
                   size + 11 + 13 + 27 + 3)
    BY <1>9, <2>1, LayoutsConcat, Zenon
  <2> QED BY <2>2 DEF first, size
<1>11. Layouts(N, Components[773], 96)
  BY <1>2, <1>10
<1> QED BY <1>3, <1>8, <1>11 DEF TablesOf

\* The tables of protocol 774.
LEMMA TablesOf774 ==
    ASSUME NEW N, Basic \subseteq N, DOMAIN Functions[774] \subseteq N
    PROVE  TablesOf(N, 774)
<1>1. Functions[774] = Functions774_1 ++ Functions773_2 ++ Functions766_2 ++
      Functions770_4 ++ Functions766_4 ++ Functions767_5 ++ Functions774_7 ++
      Functions773_7
  BY DEF Functions, Versions, Functions774_2, Functions774_3, Functions774_4,
     Functions774_5, Functions774_6, Functions774_8
<1>2. Components[774] = Components774_1 \o Components774_2 \o Components774_3 \o
      Components774_4 \o Components774_5 \o Components774_6 \o Components774_7 \o
      Components774_8
  BY DEF Components, Versions
<1>3. ComponentTypes[774] = 104
  BY DEF ComponentTypes, Versions
<1>4. DOMAIN Functions774_1 \subseteq N /\ DOMAIN Functions773_2 \subseteq N /\
      DOMAIN Functions766_2 \subseteq N /\ DOMAIN Functions770_4 \subseteq N /\
      DOMAIN Functions766_4 \subseteq N /\ DOMAIN Functions767_5 \subseteq N /\
      DOMAIN Functions774_7 \subseteq N /\ DOMAIN Functions773_7 \subseteq N
  BY <1>1, NamesMerge
<1>5. {"armor_trim_material", "armor_trim_pattern", "banner_pattern",
       "banner_pattern_layer", "damage_type_data", "data_component_matchers",
       "entity_metadata_painting_variant", "exact_component_matcher", "game_profile",
       "game_profile_property", "global_pos", "idset", "instrument_data",
       "item_block_predicate", "item_block_property", "item_book_page",
       "item_consume_effect", "item_effect_detail", "item_firework_explosion",
       "item_potion_effect", "item_sound_event", "item_sound_holder",
       "item_written_book_page", "jukebox_song_data", "kinetic_weapon_condition",
       "partial_resolvable_profile", "player_skin_patch",
       "resolvable_profile"} \subseteq N
  BY <1>4 DEF Functions774_1, Functions773_2, Functions766_2, Functions770_4,
     Functions766_4, Functions767_5, Functions774_7, Functions773_7
<1>6. {"slot_component", "typed_skip_nested_item_stack"} \subseteq N
  BY DEF Basic
<1>7. /\ Rows(N, Functions774_1) /\ Rows(N, Functions773_2) /\ Rows(N, Functions766_2)
      /\ Rows(N, Functions770_4) /\ Rows(N, Functions766_4) /\ Rows(N, Functions767_5)
      /\ Rows(N, Functions774_7) /\ Rows(N, Functions773_7)
  BY <1>5, <1>6, RowsOfFunctions774_1, RowsOfFunctions773_2, RowsOfFunctions766_2,
     RowsOfFunctions770_4, RowsOfFunctions766_4, RowsOfFunctions767_5,
     RowsOfFunctions774_7, RowsOfFunctions773_7
<1>8. Rows(N, Functions[774])
  BY <1>1, <1>7, RowsMerge
<1>9. /\ Layouts(N, Components774_1, 16) /\ Layouts(N, Components774_2, 9)
      /\ Layouts(N, Components774_3, 11) /\ Layouts(N, Components774_4, 5)
      /\ Layouts(N, Components774_5, 13) /\ Layouts(N, Components774_6, 18)
      /\ Layouts(N, Components774_7, 25) /\ Layouts(N, Components774_8, 7)
  BY <1>5, <1>6, LayoutsOfComponents774_1, LayoutsOfComponents774_2,
     LayoutsOfComponents774_3, LayoutsOfComponents774_4, LayoutsOfComponents774_5,
     LayoutsOfComponents774_6, LayoutsOfComponents774_7, LayoutsOfComponents774_8
<1>10. Layouts(N, Components774_1 \o Components774_2 \o Components774_3 \o
                  Components774_4 \o Components774_5 \o Components774_6 \o
                  Components774_7 \o Components774_8,
                  16 + 9 + 11 + 5 + 13 + 18 + 25 + 7)
  <2> DEFINE first == Components774_1 \o Components774_2 \o Components774_3 \o
                      Components774_4
             size == 16 + 9 + 11 + 5
  <2>1. Layouts(N, first, size)
    BY <1>9, LayoutsConcat, Zenon
  <2> HIDE DEF first, size
  <2>2. Layouts(N, first \o Components774_5 \o Components774_6 \o
                   Components774_7 \o Components774_8,
                   size + 13 + 18 + 25 + 7)
    BY <1>9, <2>1, LayoutsConcat, Zenon
  <2> QED BY <2>2 DEF first, size
<1>11. Layouts(N, Components[774], 104)
  BY <1>2, <1>10
<1> QED BY <1>3, <1>8, <1>11 DEF TablesOf

\* The tables of protocol 775 (776 reads them too).
LEMMA TablesOf775 ==
    ASSUME NEW N, Basic \subseteq N, DOMAIN Functions[775] \subseteq N
    PROVE  TablesOf(N, 775)
<1>1. Functions[775] = Functions774_1 ++ Functions775_2 ++ Functions766_2 ++
      Functions770_4 ++ Functions766_4 ++ Functions767_5 ++ Functions774_7 ++
      Functions773_7
  BY DEF Functions, Versions, Functions775_1, Functions775_3, Functions775_4,
     Functions775_5, Functions775_6, Functions775_7, Functions775_8
<1>2. Components[775] = Components774_1 \o Components774_2 \o Components774_3 \o
      Components774_4 \o Components775_5 \o Components775_6 \o Components775_7 \o
      Components775_8
  BY DEF Components, Versions, Components775_1, Components775_2, Components775_3,
     Components775_4
<1>3. ComponentTypes[775] = 110
  BY DEF ComponentTypes, Versions
<1>4. DOMAIN Functions774_1 \subseteq N /\ DOMAIN Functions775_2 \subseteq N /\
      DOMAIN Functions766_2 \subseteq N /\ DOMAIN Functions770_4 \subseteq N /\
      DOMAIN Functions766_4 \subseteq N /\ DOMAIN Functions767_5 \subseteq N /\
      DOMAIN Functions774_7 \subseteq N /\ DOMAIN Functions773_7 \subseteq N
  BY <1>1, NamesMerge
<1>5. {"armor_trim_material", "armor_trim_pattern", "banner_pattern",
       "banner_pattern_layer", "damage_type_data", "data_component_matchers", "dye_color",
       "entity_metadata_painting_variant", "exact_component_matcher", "game_profile",
       "game_profile_property", "global_pos", "idset", "instrument_data",
       "item_block_predicate", "item_block_property", "item_book_page",
       "item_consume_effect", "item_effect_detail", "item_firework_explosion",
       "item_potion_effect", "item_sound_event", "item_sound_holder",
       "item_written_book_page", "jukebox_song_data", "kinetic_weapon_condition",
       "partial_resolvable_profile", "player_skin_patch",
       "resolvable_profile"} \subseteq N
  BY <1>4 DEF Functions774_1, Functions775_2, Functions766_2, Functions770_4,
     Functions766_4, Functions767_5, Functions774_7, Functions773_7
<1>6. {"slot_component", "typed_skip_nested_item_stack"} \subseteq N
  BY DEF Basic
<1>7. /\ Rows(N, Functions774_1) /\ Rows(N, Functions775_2) /\ Rows(N, Functions766_2)
      /\ Rows(N, Functions770_4) /\ Rows(N, Functions766_4) /\ Rows(N, Functions767_5)
      /\ Rows(N, Functions774_7) /\ Rows(N, Functions773_7)
  BY <1>5, <1>6, RowsOfFunctions774_1, RowsOfFunctions775_2, RowsOfFunctions766_2,
     RowsOfFunctions770_4, RowsOfFunctions766_4, RowsOfFunctions767_5,
     RowsOfFunctions774_7, RowsOfFunctions773_7
<1>8. Rows(N, Functions[775])
  BY <1>1, <1>7, RowsMerge
<1>9. /\ Layouts(N, Components774_1, 16) /\ Layouts(N, Components774_2, 9)
      /\ Layouts(N, Components774_3, 11) /\ Layouts(N, Components774_4, 5)
      /\ Layouts(N, Components775_5, 14) /\ Layouts(N, Components775_6, 16)
      /\ Layouts(N, Components775_7, 26) /\ Layouts(N, Components775_8, 13)
  BY <1>5, <1>6, LayoutsOfComponents774_1, LayoutsOfComponents774_2,
     LayoutsOfComponents774_3, LayoutsOfComponents774_4, LayoutsOfComponents775_5,
     LayoutsOfComponents775_6, LayoutsOfComponents775_7, LayoutsOfComponents775_8
<1>10. Layouts(N, Components774_1 \o Components774_2 \o Components774_3 \o
                  Components774_4 \o Components775_5 \o Components775_6 \o
                  Components775_7 \o Components775_8,
                  16 + 9 + 11 + 5 + 14 + 16 + 26 + 13)
  <2> DEFINE first == Components774_1 \o Components774_2 \o Components774_3 \o
                      Components774_4
             size == 16 + 9 + 11 + 5
  <2>1. Layouts(N, first, size)
    BY <1>9, LayoutsConcat, Zenon
  <2> HIDE DEF first, size
  <2>2. Layouts(N, first \o Components775_5 \o Components775_6 \o
                   Components775_7 \o Components775_8,
                   size + 14 + 16 + 26 + 13)
    BY <1>9, <2>1, LayoutsConcat, Zenon
  <2> QED BY <2>2 DEF first, size
<1>11. Layouts(N, Components[775], 110)
  BY <1>2, <1>10
<1> QED BY <1>3, <1>8, <1>11 DEF TablesOf

\* The tables of protocol 777.
LEMMA TablesOf777 ==
    ASSUME NEW N, Basic \subseteq N, DOMAIN Functions[777] \subseteq N
    PROVE  TablesOf(N, 777)
<1>1. Functions[777] = Functions777_1 ++ Functions775_2 ++ Functions777_3 ++
      Functions777_4 ++ Functions766_4 ++ Functions777_6 ++ Functions774_7 ++
      Functions777_8
  BY DEF Functions, Versions, Functions777_2, Functions777_5, Functions777_7
<1>2. Components[777] = Components774_1 \o Components777_2 \o Components777_3 \o
      Components777_4 \o Components777_5 \o Components777_6 \o Components777_7 \o
      Components777_8 \o Components777_9
  BY DEF Components, Versions, Components777_1
<1>3. ComponentTypes[777] = 122
  BY DEF ComponentTypes, Versions
<1>4. DOMAIN Functions777_1 \subseteq N /\ DOMAIN Functions775_2 \subseteq N /\
      DOMAIN Functions777_3 \subseteq N /\ DOMAIN Functions777_4 \subseteq N /\
      DOMAIN Functions766_4 \subseteq N /\ DOMAIN Functions777_6 \subseteq N /\
      DOMAIN Functions774_7 \subseteq N /\ DOMAIN Functions777_8 \subseteq N
  BY <1>1, NamesMerge
<1>5. {"armor_trim_material26_3", "armor_trim_pattern", "banner_pattern",
       "banner_pattern_layer", "damage_type_data", "data_component_matchers", "dye_color",
       "entity_metadata_painting_variant", "exact_component_matcher", "game_profile",
       "game_profile_property", "global_pos", "idset", "instrument_data26_3",
       "item_block_predicate", "item_block_property", "item_book_page",
       "item_consume_effect26_3", "item_effect_detail", "item_firework_explosion",
       "item_potion_effect", "item_sound_event", "item_sound_holder",
       "item_stack_template", "item_written_book_page", "jukebox_song_data",
       "kinetic_weapon_condition", "partial_resolvable_profile", "player_skin_patch",
       "resolvable_float", "resolvable_int", "resolvable_profile"} \subseteq N
  BY <1>4 DEF Functions777_1, Functions775_2, Functions777_3, Functions777_4,
     Functions766_4, Functions777_6, Functions774_7, Functions777_8
<1>6. {"slot_component", "slot_component_type",
       "typed_skip_nested_item_stack"} \subseteq N
  BY DEF Basic
<1>7. /\ Rows(N, Functions777_1) /\ Rows(N, Functions775_2) /\ Rows(N, Functions777_3)
      /\ Rows(N, Functions777_4) /\ Rows(N, Functions766_4) /\ Rows(N, Functions777_6)
      /\ Rows(N, Functions774_7) /\ Rows(N, Functions777_8)
  BY <1>5, <1>6, RowsOfFunctions777_1, RowsOfFunctions775_2, RowsOfFunctions777_3,
     RowsOfFunctions777_4, RowsOfFunctions766_4, RowsOfFunctions777_6,
     RowsOfFunctions774_7, RowsOfFunctions777_8
<1>8. Rows(N, Functions[777])
  BY <1>1, <1>7, RowsMerge
<1>9. /\ Layouts(N, Components774_1, 16) /\ Layouts(N, Components777_2, 8)
      /\ Layouts(N, Components777_3, 8) /\ Layouts(N, Components777_4, 7)
      /\ Layouts(N, Components777_5, 14) /\ Layouts(N, Components777_6, 11)
      /\ Layouts(N, Components777_7, 15) /\ Layouts(N, Components777_8, 30)
      /\ Layouts(N, Components777_9, 13)
  BY <1>5, <1>6, LayoutsOfComponents774_1, LayoutsOfComponents777_2,
     LayoutsOfComponents777_3, LayoutsOfComponents777_4, LayoutsOfComponents777_5,
     LayoutsOfComponents777_6, LayoutsOfComponents777_7, LayoutsOfComponents777_8,
     LayoutsOfComponents777_9
<1>10. Layouts(N, Components774_1 \o Components777_2 \o Components777_3 \o
                  Components777_4 \o Components777_5 \o Components777_6 \o
                  Components777_7 \o Components777_8 \o Components777_9,
                  16 + 8 + 8 + 7 + 14 + 11 + 15 + 30 + 13)
  <2> DEFINE first == Components774_1 \o Components777_2 \o Components777_3 \o
                      Components777_4 \o Components777_5
             size == 16 + 8 + 8 + 7 + 14
  <2>1. Layouts(N, first, size)
    BY <1>9, LayoutsConcat, Zenon
  <2> HIDE DEF first, size
  <2>2. Layouts(N, first \o Components777_6 \o Components777_7 \o
                   Components777_8 \o Components777_9,
                   size + 11 + 15 + 30 + 13)
    BY <1>9, <2>1, LayoutsConcat, Zenon
  <2> QED BY <2>2 DEF first, size
<1>11. Layouts(N, Components[777], 122)
  BY <1>2, <1>10
<1> QED BY <1>3, <1>8, <1>11 DEF TablesOf

-----------------------------------------------------------------------------
(* The bodies of the functions *)

\* The functions protocol p knows by name.
Named(p) ==
    Basic \cup (IF VersionOf(p) \in Versions THEN DOMAIN Functions[VersionOf(p)] ELSE {})

\* The tables of every version are in order.
LEMMA EveryTable ==
    ASSUME NEW N, NEW v \in Versions, Basic \subseteq N, DOMAIN Functions[v] \subseteq N
    PROVE  TablesOf(N, v)
<1>1. \/ v = 766 \/ v = 767 \/ v = 768 \/ v = 769 \/ v = 770 \/ v = 771 \/ v = 772
      \/ v = 773 \/ v = 774 \/ v = 775 \/ v = 777
  BY DEF Versions
<1> QED
  BY <1>1, TablesOf766, TablesOf767, TablesOf768, TablesOf769, TablesOf770, TablesOf771,
     TablesOf772, TablesOf773, TablesOf774, TablesOf775, TablesOf777

\* Every function a protocol knows by name reads first, and calls only
\* functions the protocol knows by name.
LEMMA BodyRule ==
    ASSUME NEW p, NEW f \in Named(p)
    PROVE  Row(Named(p), Body(p, f))
<1> DEFINE N == Named(p)
           v == VersionOf(p)
<1>1. Basic \subseteq N
  BY DEF Named
<1>2. CASE f \in DOMAIN nbt_skip_value
  <2>1. Body(p, f) = nbt_skip_value[f]
    BY <1>2 DEF Body
  <2> HIDE DEF N
  <2>2. Row(N, nbt_skip_value[f])
    BY <1>1, <1>2, NbtRows DEF Rows
  <2> QED BY <2>1, <2>2 DEF N
<1>3. CASE f \notin DOMAIN nbt_skip_value /\ v \notin Versions
  <2>1. Body(p, f) = Reject("UNSUPPORTED_PROTOCOL") /\ "UNSUPPORTED_PROTOCOL" \in Verdicts
    BY <1>3 DEF Body, Verdicts
  <2>2. First(N, Reject("UNSUPPORTED_PROTOCOL"))
    BY <2>1, RejectRule
  <2> QED BY <2>1, <2>2, OneIsGood
<1>4. CASE f \notin DOMAIN nbt_skip_value /\ v \in Versions
  <2>1. DOMAIN Functions[v] \subseteq N
    BY <1>4 DEF Named
  <2>2. TablesOf(N, v)
    <3> HIDE DEF N, v
    <3> QED BY <1>1, <1>4, <2>1, EveryTable
  <2>3. DOMAIN nbt_skip_value =
          {"nbt_fixed", "nbt_skip_array", "nbt_string", "nbt_list", "nbt_compound"}
    BY DEF nbt_skip_value
  <2>4. Body(p, f) = CASE f = "slot_component" -> Switch(Components[v])
                       [] f = "slot_component_type" -> Enum(ComponentTypes[v])
                       [] f = "typed_skip_nested_item_stack" -> NestedItem
                       [] OTHER -> Functions[v][f]
    BY <1>4 DEF Body
  <2>5. First(N, Switch(Components[v]))
    <3>1. \A i \in DOMAIN Components[v] : Good(N, Components[v][i])
      BY <2>2 DEF TablesOf, Layouts
    <3> HIDE DEF N, v
    <3> QED BY <3>1, SwitchRule
  <2>6. First(N, Enum(ComponentTypes[v])) /\ First(N, NestedItem)
    <3> HIDE DEF N, v
    <3>1. First(N, NestedItem)
      BY <1>1, NestedItemRule
    <3>2. NodeRules(N)
      BY Rules
    <3> QED BY <3>1, <3>2 DEF NodeRules
  <2>7. /\ Row(N, Switch(Components[v])) /\ Row(N, Enum(ComponentTypes[v]))
        /\ Row(N, NestedItem)
    <3> HIDE DEF N, v
    <3> QED BY <2>5, <2>6, OneIsGood
  <2>8. \/ f = "slot_component" \/ f = "slot_component_type"
        \/ f = "typed_skip_nested_item_stack" \/ f \in DOMAIN Functions[v]
    BY <1>4, <2>3 DEF Named, Basic
  <2>9. f \in DOMAIN Functions[v] => Row(N, Functions[v][f])
    BY <2>2 DEF TablesOf, Rows
  <2> HIDE DEF N, v
  <2>10. Row(N, Body(p, f))
    BY <2>4, <2>7, <2>8, <2>9
  <2> QED BY <2>10 DEF N
<1> QED BY <1>2, <1>3, <1>4

-----------------------------------------------------------------------------
(* The walk *)

\* Frames whose functions have layouts left to read.
Fits(N, s) == \E F, L : Closed(N, L) /\ s \in Seq(Frames(F, Seq(L)))

\* What is left to read, all down the stack, is made of layouts whose calls are
\* of functions the protocol knows; and an iteration that has read nothing yet
\* is about to read.
WalkInv ==
    /\ protocol \in Protocols
    /\ verdict \in Verdicts
    /\ unread \in {0, 1}
    /\ Fits(Named(protocol), stack)
    /\ unread = 1 /\ stack # <<>> => Top.todo # <<>> /\ Current.op \in Heads

\* The function on top: what it has left to read and what it reads next.
LEMMA TopFits ==
    ASSUME NEW F, NEW L, NEW s \in Seq(Frames(F, Seq(L))), s # <<>>
    PROVE  LET todo == s[Len(s)].todo
           IN  /\ todo \in Seq(L)
               /\ todo # <<>> => Head(todo) \in L /\ Tail(todo) \in Seq(L)
<1> DEFINE todo == s[Len(s)].todo
<1>1. s[Len(s)] \in Frames(F, Seq(L))
  <2> DEFINE S == Frames(F, Seq(L))
  <2> HIDE DEF S
  <2>1. \A t \in Seq(S) : t # <<>> => t[Len(t)] \in S
    OBVIOUS
  <2>2. s \in Seq(S)
    BY DEF S
  <2>3. s[Len(s)] \in S
    BY <2>1, <2>2
  <2> QED BY <2>3 DEF S
<1>2. todo \in Seq(L)
  BY <1>1 DEF Frames
<1> HIDE DEF todo
<1>3. \A t \in Seq(L) : t # <<>> => Head(t) \in L /\ Tail(t) \in Seq(L)
  OBVIOUS
<1>4. todo \in Seq(L) /\ (todo # <<>> => Head(todo) \in L /\ Tail(todo) \in Seq(L))
  BY <1>2, <1>3
<1> QED BY <1>4 DEF todo

\* Layouts on top of layouts.
LEMMA RewrittenFits ==
    ASSUME NEW F, NEW T, NEW s \in Seq(Frames(F, T)), s # <<>>, NEW t \in T
    PROVE  /\ Rewritten(s, t) \in Seq(Frames(F, T))
           /\ Len(Rewritten(s, t)) = Len(s) /\ Rewritten(s, t) # <<>>
           /\ Rewritten(s, t)[Len(s)].todo = t
<1>r. PICK r : r = Rewritten(s, t)
  OBVIOUS
<1> DEFINE n == Len(s)
           top == [s[n] EXCEPT !.todo = t]
           S == Frames(F, T)
<1>1. n \in Nat /\ n \in 1..n /\ DOMAIN s = 1..n /\ s \in [1..n -> S]
  <2> HIDE DEF S
  <2>1. s \in Seq(S)
    BY DEF S
  <2> QED BY <2>1
<1>2. top \in S /\ top.todo = t
  <2>1. s[n] \in Frames(F, T)
    BY <1>1
  <2> HIDE DEF n
  <2> QED BY <2>1 DEF Frames
<1>3. r = [s EXCEPT ![n] = top]
  BY <1>r DEF Rewritten
<1> HIDE DEF n, S, top
<1>4. r \in [1..n -> S] /\ r[n] = top
  BY <1>1, <1>2, <1>3
<1>5. r \in Seq(S) /\ Len(r) = n
  BY <1>1, <1>4, SeqFromFunction, Zenon
<1>6. r # <<>>
  BY <1>1, <1>5
<1> QED BY <1>r, <1>2, <1>4, <1>5, <1>6 DEF n, S

\* Work within a function that puts layouts in the place of what was done.
LEMMA ContinueFits ==
    ASSUME NEW F, NEW L, stack \in Seq(Frames(F, Seq(L))), stack # <<>>, Top.todo # <<>>,
           NEW x, Flat(x) \in Seq(L), Continue(x)
    PROVE  /\ stack' \in Seq(Frames(F, Seq(L))) /\ stack' # <<>>
           /\ stack'[Len(stack')].todo = Flat(x) \o Tail(Top.todo)
<1> DEFINE rest == Tail(Top.todo)
           t == Flat(x) \o rest
<1>1. rest \in Seq(L)
  BY TopFits DEF Top
<1>2. t \in Seq(L)
  <2> HIDE DEF rest
  <2>1. \A u, v \in Seq(L) : u \o v \in Seq(L)
    OBVIOUS
  <2> QED BY <1>1, <2>1, Zenon
<1>3. stack' = Rewritten(stack, t)
  BY DEF Continue, Rewritten, Top
<1> HIDE DEF t
<1>4. /\ stack' \in Seq(Frames(F, Seq(L))) /\ stack' # <<>>
      /\ Len(stack') = Len(stack) /\ stack'[Len(stack)].todo = t
  BY <1>2, <1>3, RewrittenFits
<1> QED BY <1>4 DEF t

\* The node that is read next.
LEMMA CurrentIs ==
    ASSUME NEW N, NEW F, NEW L, Closed(N, L), stack \in Seq(Frames(F, Seq(L))), stack # <<>>,
           Top.todo # <<>>
    PROVE  Node(N, L, Current)
<1>1. Current \in L
  BY TopFits DEF Current, Top
<1> QED BY <1>1 DEF Closed

\* A value is read.
LEMMA ReadFieldKeeps == WalkInv /\ ReadField => WalkInv'
<1> SUFFICES ASSUME WalkInv, ReadField PROVE WalkInv'
  OBVIOUS
<1>1. PICK F, L : Closed(Named(protocol), L) /\ stack \in Seq(Frames(F, Seq(L)))
  BY DEF WalkInv, Fits
<1>2. /\ stack # <<>> /\ Top.todo # <<>> /\ Current.op = "field"
      /\ unread' = 0 /\ protocol' = protocol /\ verdict' = verdict
  BY DEF ReadField, Running
<1>3. PICK i \in DOMAIN Current.kids : Continue(Current.kids[i])
  BY DEF ReadField
<1>4. Flat(Current.kids[i]) \in Seq(L)
  BY <1>1, <1>2, <1>3, CurrentIs DEF Node
<1>5. stack' \in Seq(Frames(F, Seq(L)))
  BY <1>1, <1>2, <1>3, <1>4, ContinueFits
<1> QED BY <1>1, <1>2, <1>5 DEF WalkInv, Fits

\* An iteration begins: it was not begun before, and its element reads.
LEMMA IterateKeeps == WalkInv /\ Iterate => WalkInv'
<1> SUFFICES ASSUME WalkInv, Iterate PROVE WalkInv'
  OBVIOUS
<1>1. PICK F, L : Closed(Named(protocol), L) /\ stack \in Seq(Frames(F, Seq(L)))
  BY DEF WalkInv, Fits
<1> DEFINE again == Loop(Current.left - 1, Current.element)
           one == Flat(Current.element)
           x == All(one \o <<again>>)
           rest == Tail(Top.todo)
<1>2. /\ stack # <<>> /\ Top.todo # <<>> /\ Current.op = "loop" /\ Current.left > 0
      /\ Continue(x)
      /\ unread' = unread + 1 /\ protocol' = protocol /\ verdict' = verdict
  BY DEF Iterate, Running
<1>3. /\ one \in Seq(L) /\ one # <<>> /\ Head(one).op \in Heads
      /\ again \in L
  BY <1>1, <1>2, CurrentIs DEF Node, Reads
<1>4. rest \in Seq(L)
  BY <1>1, <1>2, TopFits DEF Top
<1> HIDE DEF again, one, rest
<1>5. Flat(x) = one \o <<again>>
  BY DEF Flat, All
<1>6. \A u, v \in Seq(L) : \A y \in L :
         /\ u \o <<y>> \in Seq(L)
         /\ u # <<>> => (u \o <<y>>) \o v # <<>> /\ Head((u \o <<y>>) \o v) = Head(u)
  OBVIOUS
<1>7. /\ Flat(x) \in Seq(L)
      /\ Flat(x) \o rest # <<>> /\ Head(Flat(x) \o rest) = Head(one)
  BY <1>3, <1>4, <1>5, <1>6
<1>8. /\ stack' \in Seq(Frames(F, Seq(L))) /\ stack' # <<>>
      /\ stack'[Len(stack')].todo = Flat(x) \o rest
  <2> HIDE DEF x
  <2> QED BY <1>1, <1>2, <1>7, ContinueFits DEF rest
<1>9. unread = 0
  BY <1>2 DEF WalkInv, Heads
<1>10. Top'.todo # <<>> /\ Current'.op \in Heads
  BY <1>3, <1>7, <1>8 DEF Top, Current
<1> QED BY <1>1, <1>2, <1>8, <1>9, <1>10 DEF WalkInv, Fits

\* A loop ends: no iteration is under way.
LEMMA LeaveLoopKeeps == WalkInv /\ LeaveLoop => WalkInv'
<1> SUFFICES ASSUME WalkInv, LeaveLoop PROVE WalkInv'
  OBVIOUS
<1>1. PICK F, L : Closed(Named(protocol), L) /\ stack \in Seq(Frames(F, Seq(L)))
  BY DEF WalkInv, Fits
<1>2. /\ stack # <<>> /\ Top.todo # <<>> /\ Current.op = "loop" /\ Continue(Unit)
      /\ unread' = unread /\ protocol' = protocol /\ verdict' = verdict
  BY DEF LeaveLoop, Running
<1>3. Flat(Unit) \in Seq(L)
  BY DEF Flat, Unit, All
<1>4. stack' \in Seq(Frames(F, Seq(L)))
  BY <1>1, <1>2, <1>3, ContinueFits
<1>5. unread = 0
  BY <1>2 DEF WalkInv, Heads
<1> QED BY <1>1, <1>2, <1>4, <1>5 DEF WalkInv, Fits

\* An answer empties the stack.
LEMMA AnswerKeeps ==
    ASSUME WalkInv, NEW code \in Verdicts, verdict' = code, stack' = <<>>,
           UNCHANGED <<protocol, unread>>
    PROVE  WalkInv'
<1>1. Closed(Named(protocol), {}) /\ <<>> \in Seq(Frames({}, Seq({})))
  BY DEF Closed
<1> QED BY <1>1 DEF WalkInv, Fits

\* A field, a refusal or a call too deep fails with one of the verdicts.
LEMMA FailureKeeps == WalkInv /\ (RefuseField \/ RejectLength \/ TooDeep) => WalkInv'
<1> SUFFICES ASSUME WalkInv, RefuseField \/ RejectLength \/ TooDeep PROVE WalkInv'
  OBVIOUS
<1>1. PICK F, L : Closed(Named(protocol), L) /\ stack \in Seq(Frames(F, Seq(L)))
  BY DEF WalkInv, Fits
<1>2. "PARTIAL_INPUT" \in Verdicts /\ "NBT_DEPTH" \in Verdicts
  BY DEF Verdicts
<1>3. CASE RefuseField
  <2>1. stack # <<>> /\ Top.todo # <<>> /\ Current.op = "field"
    BY <1>3 DEF RefuseField, Running
  <2>2. PICK code \in Current.bad \cup {"PARTIAL_INPUT"} : Fail(code)
    BY <1>3 DEF RefuseField
  <2>3. Current.bad \subseteq Verdicts
    BY <1>1, <2>1, CurrentIs DEF Node
  <2> QED BY <1>2, <2>2, <2>3, AnswerKeeps DEF Fail
<1>4. CASE RejectLength
  <2>1. stack # <<>> /\ Top.todo # <<>> /\ Current.op = "reject" /\ Fail(Current.code)
    BY <1>4 DEF RejectLength, Running
  <2>2. Current.code \in Verdicts
    BY <1>1, <2>1, CurrentIs DEF Node
  <2> QED BY <2>1, <2>2, AnswerKeeps DEF Fail
<1>5. CASE TooDeep
  BY <1>2, <1>5, AnswerKeeps DEF TooDeep, Fail
<1> QED BY <1>3, <1>4, <1>5

\* A function is entered: it is one the protocol knows, and it reads first.
LEMMA CallFunctionKeeps == WalkInv /\ CallFunction => WalkInv'
<1> SUFFICES ASSUME WalkInv, CallFunction PROVE WalkInv'
  OBVIOUS
<1> DEFINE N == Named(protocol)
           body == Body(protocol, Current.fn)
           rest == Tail(Top.todo)
           r == Rewritten(stack, rest)
           new == [fn |-> Current.fn, depth |-> PassedDepth, todo |-> Flat(body)]
<1>1. PICK F, L : Closed(N, L) /\ stack \in Seq(Frames(F, Seq(L)))
  BY DEF WalkInv, Fits
<1>2. /\ stack # <<>> /\ Top.todo # <<>> /\ Current.op = "call"
      /\ unread' = unread /\ protocol' = protocol /\ verdict' = verdict
      /\ stack' = Append(r, new)
  BY DEF CallFunction, Running, Rewritten, Frame, Top
<1>3. Current.fn \in N
  BY <1>1, <1>2, CurrentIs DEF Node
<1>4. Row(N, body)
  BY <1>3, BodyRule
<1>5. PICK M : Closed(N, M) /\ Flat(body) \in Seq(M)
  BY <1>4 DEF Row, Good
<1>6. rest \in Seq(L)
  BY <1>1, <1>2, TopFits DEF Top
<1> DEFINE K == UNION {L, M}
           G == F \cup {Current.fn}
<1>7. Closed(N, K)
  <2> HIDE DEF N
  <2> QED BY <1>1, <1>5, ClosedUnion
<1>8. L \subseteq K /\ M \subseteq K /\ F \subseteq G /\ Current.fn \in G
  OBVIOUS
<1> HIDE DEF K, G, body, rest
<1>9. /\ \A s \in Seq(L) : s \in Seq(K)
      /\ \A s \in Seq(M) : s \in Seq(K)
  BY <1>8, SeqOfMore
<1>10. Frames(F, Seq(L)) \subseteq Frames(G, Seq(K))
  BY <1>8, <1>9 DEF Frames
<1>11. stack \in Seq(Frames(G, Seq(K)))
  BY <1>1, <1>10, SeqOfMore
<1>12. r \in Seq(Frames(G, Seq(K)))
  BY <1>2, <1>6, <1>9, <1>11, RewrittenFits
<1>13. PassedDepth \in Int
  <2>1. stack[Len(stack)] \in Frames(F, Seq(L))
    <3> DEFINE S == Frames(F, Seq(L))
    <3> HIDE DEF S
    <3>1. \A t \in Seq(S) : t # <<>> => t[Len(t)] \in S
      OBVIOUS
    <3>2. stack \in Seq(S)
      BY <1>1 DEF S
    <3>3. stack[Len(stack)] \in S
      BY <1>2, <3>1, <3>2
    <3> QED BY <3>3 DEF S
  <2>2. stack[Len(stack)].depth \in Int
    BY <2>1 DEF Frames
  <2> QED BY <2>2 DEF PassedDepth, Top
<1>14. new \in Frames(G, Seq(K))
  BY <1>5, <1>8, <1>9, <1>13 DEF Frames
<1>15. new.todo = Flat(body)
  OBVIOUS
<1> HIDE DEF r, new
<1>16. /\ stack' \in Seq(Frames(G, Seq(K))) /\ stack' # <<>>
       /\ stack'[Len(stack')] = new
  <2> DEFINE S == Frames(G, Seq(K))
  <2> HIDE DEF S
  <2>1. \A s \in Seq(S) : \A y \in S :
           LET t == Append(s, y) IN t \in Seq(S) /\ t # <<>> /\ t[Len(t)] = y
    OBVIOUS
  <2>2. r \in Seq(S) /\ new \in S
    BY <1>12, <1>14 DEF S
  <2>3. stack' \in Seq(S) /\ stack' # <<>> /\ stack'[Len(stack')] = new
    BY <1>2, <2>1, <2>2
  <2> QED BY <2>3 DEF S
<1>17. Top'.todo # <<>> /\ Current'.op \in Heads
  BY <1>4, <1>15, <1>16 DEF Top, Current, Row, Reads
<1>18. Fits(Named(protocol'), stack')
  BY <1>2, <1>7, <1>16 DEF Fits, N
<1> QED BY <1>2, <1>17, <1>18 DEF WalkInv

\* A function returns: it has nothing left to read, so no iteration waits for it.
LEMMA ReturnKeepsWalk == WalkInv /\ Return => WalkInv'
<1> SUFFICES ASSUME WalkInv, Return PROVE WalkInv'
  OBVIOUS
<1>1. PICK F, L : Closed(Named(protocol), L) /\ stack \in Seq(Frames(F, Seq(L)))
  BY DEF WalkInv, Fits
<1>2. /\ stack # <<>> /\ Top.todo = <<>> /\ stack' = SubSeq(stack, 1, Len(stack) - 1)
      /\ unread' = unread /\ protocol' = protocol
      /\ verdict' = "accepted" \/ verdict' = verdict
  BY DEF Return
<1>3. unread = 0
  BY <1>2 DEF WalkInv
<1>4. stack' \in Seq(Frames(F, Seq(L)))
  <2> DEFINE S == Frames(F, Seq(L))
  <2> HIDE DEF S
  <2>1. \A s \in Seq(S) : s # <<>> => SubSeq(s, 1, Len(s) - 1) \in Seq(S)
    OBVIOUS
  <2>2. stack \in Seq(S)
    BY <1>1 DEF S
  <2>3. stack' \in Seq(S)
    BY <1>2, <2>1, <2>2
  <2> QED BY <2>3 DEF S
<1>5. verdict' \in Verdicts
  BY <1>2 DEF WalkInv, Verdicts
<1> QED BY <1>1, <1>2, <1>3, <1>4, <1>5 DEF WalkInv, Fits

\* Every step of the validators keeps the walk well formed.
LEMMA WalkStep == WalkInv /\ [Next]_vars => WalkInv'
<1> SUFFICES ASSUME WalkInv, [Next]_vars PROVE WalkInv'
  OBVIOUS
<1>1. CASE ReadField
  BY <1>1, ReadFieldKeeps
<1>2. CASE Iterate
  BY <1>2, IterateKeeps
<1>3. CASE LeaveLoop
  BY <1>3, LeaveLoopKeeps
<1>4. CASE RefuseField \/ RejectLength \/ TooDeep
  BY <1>4, FailureKeeps
<1>5. CASE CallFunction
  BY <1>5, CallFunctionKeeps
<1>6. CASE Return
  BY <1>6, ReturnKeepsWalk
<1>7. CASE Done \/ UNCHANGED vars
  <2>1. UNCHANGED vars
    BY <1>7 DEF Done
  <2> QED BY <2>1 DEF vars, WalkInv, Fits, Top, Current
<1> QED BY <1>1, <1>2, <1>3, <1>4, <1>5, <1>6, <1>7 DEF Next

\* The walk begins well formed, whatever the protocol and the kind of item.
LEMMA WalkStart == Init => WalkInv
<1> SUFFICES ASSUME Init PROVE WalkInv
  OBVIOUS
<1>1. PICK kind \in WireKind :
         stack = <<Frame("mc_reader_item_stack", -1, mc_reader_item_stack(protocol, kind))>>
  BY DEF Init
<1> DEFINE N == Named(protocol)
           x == mc_reader_item_stack(protocol, kind)
           frame == [fn |-> "mc_reader_item_stack", depth |-> -1, todo |-> Flat(x)]
<1>2. Basic \subseteq N
  BY DEF Named
<1>3. Good(N, x)
  <2> HIDE DEF N
  <2>1. First(N, x)
    BY <1>2, ItemStackRule
  <2> QED BY <2>1, OneIsGood
<1> HIDE DEF x
<1>4. PICK L : Closed(N, L) /\ Flat(x) \in Seq(L)
  BY <1>3 DEF Good
<1>5. stack = <<frame>>
  BY <1>1 DEF Frame, x
<1>6. frame \in Frames({"mc_reader_item_stack"}, Seq(L))
  BY <1>4 DEF Frames
<1> HIDE DEF frame
<1>7. Fits(N, stack)
  <2>1. \A S : \A y \in S : <<y>> \in Seq(S)
    OBVIOUS
  <2>2. stack \in Seq(Frames({"mc_reader_item_stack"}, Seq(L)))
    BY <1>5, <1>6, <2>1
  <2> QED BY <1>4, <2>2 DEF Fits
<1>8. protocol \in Protocols /\ unread = 0 /\ verdict = "running"
  BY DEF Init
<1>9. "running" \in Verdicts
  BY DEF Verdicts
<1> QED BY <1>7, <1>8, <1>9 DEF WalkInv

\* The walk of the validators is well formed, and its frames are as deep as
\* their place, in every state: what a function has left to read is made of
\* reads, refusals, loops whose elements read and calls of functions that the
\* protocol has.
THEOREM WalkAlways == Spec => [](WalkInv /\ DepthIsPlace)
  BY WalkStart, WalkStep, InitKeeps, StepKeeps, PTL DEF Spec

\* The validators' state has its type, whatever the tables hold: every call is
\* of a function the protocol has, and every failure one of the codes that
\* mc_reader_item_stack, skip_slot_component and nbt_skip_value can set.
THEOREM WalkTypeCorrect == Spec => []TypeOK
<1>1. WalkInv /\ DepthIsPlace => TypeOK
  <2> SUFFICES ASSUME WalkInv, DepthIsPlace PROVE TypeOK
    OBVIOUS
  <2>1. PICK F, T : stack \in Seq(Frames(F, T))
    BY DEF DepthIsPlace, IsStack
  <2>2. Len(stack) \in Nat /\ DOMAIN stack = 1..Len(stack)
    BY <2>1
  <2>3. \A i \in DOMAIN stack : stack[i].depth \in -1..MaxDepth
    <3> SUFFICES ASSUME NEW i \in 1..Len(stack) PROVE stack[i].depth \in -1..MaxDepth
      BY <2>2
    <3>1. stack[i].depth = i - 2 /\ i - 2 <= MaxDepth
      BY DEF DepthIsPlace
    <3>2. i - 2 \in Int /\ i - 2 >= -1
      BY <2>2
    <3> QED BY <3>1, <3>2, MaxDepthAssumption
  <2>4. unread \in Nat
    BY DEF WalkInv
  <2> QED BY <2>3, <2>4 DEF TypeOK, WalkInv
<1> QED BY <1>1, WalkAlways, PTL

\* No loop of any layout of any protocol goes round twice without a read: the
\* input pays for the work, as for a count of a million in a short packet
\* (skip_slot_component's arrays, nbt_skip_value's lists).
THEOREM IterationsRead == Spec => []EveryIterationReads
<1>1. WalkInv => EveryIterationReads
  BY DEF WalkInv, EveryIterationReads
<1> QED BY <1>1, WalkAlways, PTL

\* skip_slot_component and skip_slot_component_type know the same types of
\* every protocol, each type with a layout.
THEOREM TablesInStep == Spec => []TypesInStep
<1>1. TypesInStep
  <2> SUFFICES ASSUME VersionOf(protocol) \in Versions
               PROVE  Len(Components[VersionOf(protocol)]) = ComponentTypes[VersionOf(protocol)]
    BY DEF TypesInStep
  <2> DEFINE v == VersionOf(protocol)
             N == Named(protocol)
  <2>1. Basic \subseteq N /\ DOMAIN Functions[v] \subseteq N
    BY DEF Named
  <2> HIDE DEF N, v
  <2>2. v \in Versions
    BY DEF v
  <2>3. TablesOf(N, v)
    BY <2>1, <2>2, EveryTable
  <2> QED BY <2>3 DEF TablesOf, Layouts, v
<1> QED BY <1>1, PTL
=============================================================================
