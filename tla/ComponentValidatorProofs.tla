----------------------- MODULE ComponentValidatorProofs -----------------------
(***************************************************************************)
(* The C stack of the component and NBT validators is bounded by the depth *)
(* limit, for every layout table, depth limit, bound on counts and input.  *)
(***************************************************************************)
EXTENDS ComponentValidator, TLAPS

Frames(F, T) == [fn : F, depth : Int, todo : T]

IsStack(s) == \E F, T : s \in Seq(Frames(F, T))

\* The stack is a sequence of frames, the bottom one the caller's, and the
\* depth of each is its place on the stack.
DepthIsPlace ==
    /\ IsStack(stack)
    /\ \A i \in 1..Len(stack) : stack[i].depth = i - 2 /\ i - 2 <= MaxDepth

\* A sequence of frames is one of any larger set of frames.
LEMMA SeqOfMore ==
    ASSUME NEW A, NEW B, A \subseteq B, NEW s \in Seq(A)
    PROVE  s \in Seq(B)
<1>1. Len(s) \in Nat /\ s \in [1..Len(s) -> A]
  OBVIOUS
<1>2. s \in [1..Len(s) -> B]
  BY <1>1
<1> QED BY <1>1, <1>2

\* A function on 1..n is a sequence.
LEMMA SeqFromFunction ==
    ASSUME NEW A, NEW n \in Nat, NEW s \in [1..n -> A]
    PROVE  s \in Seq(A) /\ Len(s) = n
  OBVIOUS

\* The stack with t left to read by its top function (the EXCEPT of Continue
\* and CallFunction).
Rewritten(s, t) == [s EXCEPT ![Len(s)].todo = t]

\* Rewriting what the top function has left to read moves no frame and no depth.
LEMMA TopRewritten ==
    ASSUME NEW s, IsStack(s), s # <<>>, NEW t
    PROVE  /\ IsStack(Rewritten(s, t))
           /\ Len(Rewritten(s, t)) = Len(s)
           /\ \A i \in 1..Len(s) : Rewritten(s, t)[i].depth = s[i].depth
<1>r. PICK r : r = Rewritten(s, t)
  OBVIOUS
<1>s. PICK F, T : s \in Seq(Frames(F, T))
  BY DEF IsStack
<1> DEFINE n == Len(s)
           U == T \cup {t}
           top == [s[n] EXCEPT !.todo = t]
<1>0. r = [s EXCEPT ![n] = top]
  BY <1>r DEF Rewritten
<1>1. n \in Nat /\ n \in 1..n /\ DOMAIN s = 1..n /\ s \in [1..n -> Frames(F, T)]
  BY <1>s
<1>2. top \in Frames(F, U) /\ top.depth = s[n].depth
  <2>1. s[n] \in Frames(F, T)
    BY <1>1
  <2> HIDE DEF n
  <2> QED BY <2>1 DEF Frames
<1>3. \A i \in 1..n : s[i] \in Frames(F, U)
  <2> HIDE DEF n
  <2> QED BY <1>1 DEF Frames
<1> HIDE DEF n, U, top
<1>4. r \in [1..n -> Frames(F, U)] /\ \A i \in 1..n : r[i].depth = s[i].depth
  BY <1>0, <1>1, <1>2, <1>3
<1>5. r \in Seq(Frames(F, U)) /\ Len(r) = n
  BY <1>1, <1>4, SeqFromFunction, Zenon
<1>6. IsStack(r)
  BY <1>5 DEF IsStack
<1> QED BY <1>r, <1>4, <1>5, <1>6 DEF n

\* A frame on top of a stack makes a stack.
LEMMA Pushed ==
    ASSUME NEW s, IsStack(s), NEW f, NEW d \in Int, NEW x
    PROVE  LET new == [fn |-> f, depth |-> d, todo |-> x]
           IN  /\ IsStack(Append(s, new))
               /\ Len(s) \in Nat /\ Len(Append(s, new)) = Len(s) + 1
               /\ \A i \in 1..Len(s) : Append(s, new)[i] = s[i]
               /\ Append(s, new)[Len(s) + 1] = new
<1> DEFINE new == [fn |-> f, depth |-> d, todo |-> x]
<1>1. PICK F, T : s \in Seq(Frames(F, T))
  BY DEF IsStack
<1>2. Frames(F, T) \subseteq Frames(F \cup {f}, T \cup {x}) /\ new \in Frames(F \cup {f}, T \cup {x})
  BY DEF Frames
<1> HIDE DEF new
<1>3. s \in Seq(Frames(F \cup {f}, T \cup {x}))
  BY <1>1, <1>2, SeqOfMore
<1>4. Append(s, new) \in Seq(Frames(F \cup {f}, T \cup {x}))
  BY <1>2, <1>3
<1>5. /\ Len(s) \in Nat /\ Len(Append(s, new)) = Len(s) + 1
      /\ \A i \in 1..Len(s) : Append(s, new)[i] = s[i]
      /\ Append(s, new)[Len(s) + 1] = new
  BY <1>3
<1>6. IsStack(Append(s, new))
  BY <1>4 DEF IsStack
<1> QED BY <1>5, <1>6 DEF new

\* Work within a function: ReadField, Iterate and LeaveLoop.
LEMMA ContinueKeeps ==
    ASSUME DepthIsPlace, stack # <<>>, NEW x, Continue(x)
    PROVE  DepthIsPlace'
<1> DEFINE t == Flat(x) \o Tail(stack[Len(stack)].todo)
<1>1. stack' = Rewritten(stack, t)
  BY DEF Continue, Rewritten
<1> HIDE DEF t
<1>2. /\ IsStack(stack')
      /\ Len(stack') = Len(stack)
      /\ \A i \in 1..Len(stack) : stack'[i].depth = stack[i].depth
  BY <1>1, TopRewritten DEF DepthIsPlace
<1> QED BY <1>2 DEF DepthIsPlace

\* An answer empties the stack.
LEMMA FailKeeps ==
    ASSUME stack' = <<>>
    PROVE  DepthIsPlace'
<1>1. stack' \in Seq(Frames({}, {})) /\ Len(stack') = 0
  OBVIOUS
<1> QED BY <1>1 DEF DepthIsPlace, IsStack

\* A call puts a frame one deeper on top, within the limit.
LEMMA CallKeeps ==
    ASSUME DepthIsPlace, stack # <<>>, CallFunction
    PROVE  DepthIsPlace'
<1> DEFINE n == Len(stack)
<1>1. PICK t, f, x :
          /\ stack' = Append(Rewritten(stack, t), [fn |-> f, depth |-> PassedDepth, todo |-> x])
          /\ PassedDepth <= MaxDepth
  BY DEF CallFunction, Frame, Rewritten
<1>2. PICK F, T : stack \in Seq(Frames(F, T))
  BY DEF DepthIsPlace, IsStack
<1>3. n \in Nat /\ n \in 1..n /\ stack[n].depth = n - 2
  BY <1>2 DEF DepthIsPlace
<1>4. PassedDepth = n - 1 /\ n - 1 \in Int
  BY <1>3 DEF PassedDepth, Top
<1>r. PICK r : r = Rewritten(stack, t)
  OBVIOUS
<1>5. IsStack(r) /\ Len(r) = n /\ \A i \in 1..n : r[i].depth = stack[i].depth
  BY <1>r, TopRewritten DEF DepthIsPlace
<1>6. stack' = Append(r, [fn |-> f, depth |-> n - 1, todo |-> x])
  BY <1>r, <1>1, <1>4
<1>7. /\ IsStack(stack') /\ Len(stack') = n + 1
      /\ \A i \in 1..n : stack'[i] = r[i]
      /\ stack'[n + 1] = [fn |-> f, depth |-> n - 1, todo |-> x]
  <2> HIDE DEF n
  <2> QED BY <1>4, <1>5, <1>6, Pushed
<1>8. \A i \in 1..Len(stack') : stack'[i].depth = i - 2 /\ i - 2 <= MaxDepth
  <2> SUFFICES ASSUME NEW i \in 1..(n + 1)
               PROVE  stack'[i].depth = i - 2 /\ i - 2 <= MaxDepth
    BY <1>7
  <2>1. CASE i \in 1..n
    BY <1>5, <1>7, <2>1 DEF DepthIsPlace
  <2>2. CASE i = n + 1
    <3>1. stack'[i].depth = n - 1
      BY <1>7, <2>2
    <3>2. n - 1 <= MaxDepth
      BY <1>1, <1>4
    <3> HIDE DEF n
    <3> QED BY <1>3, <2>2, <3>1, <3>2, MaxDepthAssumption
  <2> QED BY <1>3, <2>1, <2>2
<1> QED BY <1>7, <1>8 DEF DepthIsPlace

\* A return uncovers the caller's frame, or gives the answer.
LEMMA ReturnKeeps ==
    ASSUME DepthIsPlace, stack # <<>>, Return
    PROVE  DepthIsPlace'
<1>1. PICK F, T : stack \in Seq(Frames(F, T))
  BY DEF DepthIsPlace, IsStack
<1> DEFINE n == Len(stack)
<1>2. stack' = SubSeq(stack, 1, n - 1)
  BY DEF Return
<1>3. n \in Nat /\ n >= 1
  BY <1>1
<1>4. /\ stack' \in Seq(Frames(F, T)) /\ Len(stack') = n - 1
      /\ \A i \in 1..(n - 1) : stack'[i] = stack[i]
  <2>1. stack' = [i \in 1..(n - 1) |-> stack[i]]
    BY <1>1, <1>2, <1>3
  <2>2. \A i \in 1..(n - 1) : stack[i] \in Frames(F, T)
    BY <1>1, <1>3
  <2> HIDE DEF n
  <2>3. stack' \in [1..(n - 1) -> Frames(F, T)] /\ n - 1 \in Nat
    BY <1>3, <2>1, <2>2
  <2>4. stack' \in Seq(Frames(F, T)) /\ DOMAIN stack' = 1..(n - 1)
    BY <2>3
  <2> QED BY <2>1, <2>3, <2>4
<1>5. \A i \in 1..Len(stack') : stack'[i].depth = i - 2 /\ i - 2 <= MaxDepth
  <2> SUFFICES ASSUME NEW i \in 1..(n - 1)
               PROVE  stack'[i].depth = i - 2 /\ i - 2 <= MaxDepth
    BY <1>4
  <2>1. i \in 1..n
    BY <1>3
  <2> QED BY <1>4, <2>1 DEF DepthIsPlace
<1>6. IsStack(stack')
  BY <1>4 DEF IsStack
<1> QED BY <1>5, <1>6 DEF DepthIsPlace

\* Every step of the validators keeps the depth of a frame equal to its place.
LEMMA StepKeeps == DepthIsPlace /\ [Next]_vars => DepthIsPlace'
<1> SUFFICES ASSUME DepthIsPlace, [Next]_vars
             PROVE  DepthIsPlace'
  OBVIOUS
<1>1. CASE ReadField
  <2>1. PICK i \in DOMAIN Current.kids : Continue(Current.kids[i])
    BY <1>1 DEF ReadField
  <2> QED BY <1>1, <2>1, ContinueKeeps DEF ReadField, Running
<1>2. CASE Iterate
  <2>1. PICK x : Continue(x)
    BY <1>2 DEF Iterate
  <2> QED BY <1>2, <2>1, ContinueKeeps DEF Iterate, Running
<1>3. CASE LeaveLoop
  BY <1>3, ContinueKeeps DEF LeaveLoop, Running
<1>4. CASE RefuseField \/ RejectLength \/ TooDeep
  BY <1>4, FailKeeps DEF RefuseField, RejectLength, TooDeep, Fail
<1>5. CASE CallFunction
  BY <1>5, CallKeeps DEF CallFunction, Running
<1>6. CASE Return
  BY <1>6, ReturnKeeps DEF Return
<1>7. CASE Done \/ UNCHANGED vars
  BY <1>7 DEF Done, vars, DepthIsPlace, IsStack
<1> QED BY <1>1, <1>2, <1>3, <1>4, <1>5, <1>6, <1>7 DEF Next

\* Initially the caller's frame is alone on the stack.
LEMMA InitKeeps == Init => DepthIsPlace
<1> SUFFICES ASSUME Init
             PROVE  DepthIsPlace
  OBVIOUS
<1>1. PICK f, x : stack = <<[fn |-> f, depth |-> -1, todo |-> x]>>
  BY DEF Init, Frame
<1>2. stack \in Seq(Frames({f}, {x})) /\ Len(stack) = 1 /\ stack[1].depth = -1
  BY <1>1 DEF Frames
<1> QED BY <1>2, MaxDepthAssumption DEF DepthIsPlace, IsStack

\* The C stack is bounded by the depth limit alone, whatever the input and the
\* layouts: no cycle of components, items, predicates or NBT lists escapes it
\* (skip_slot_component, typed_skip_nested_item_stack, nbt_skip_value).
THEOREM StackIsBounded == Spec => []StackBounded
<1>1. DepthIsPlace => StackBounded
  <2> SUFFICES ASSUME DepthIsPlace
               PROVE  Len(stack) <= MaxDepth + 2
    BY DEF StackBounded
  <2>1. Len(stack) \in Nat
    BY DEF DepthIsPlace, IsStack
  <2>2. CASE Len(stack) = 0
    BY <2>2, MaxDepthAssumption
  <2>3. CASE Len(stack) # 0
    <3>1. Len(stack) \in 1..Len(stack)
      BY <2>1, <2>3
    <3>2. Len(stack) - 2 <= MaxDepth
      BY <3>1 DEF DepthIsPlace
    <3> QED BY <2>1, <3>2, MaxDepthAssumption
  <2> QED BY <2>2, <2>3
<1> QED BY <1>1, InitKeeps, StepKeeps, PTL DEF Spec
=============================================================================
