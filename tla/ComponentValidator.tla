------------------------- MODULE ComponentValidator -------------------------
(***************************************************************************)
(* The validators of Slot data components and of NBT at run time: a C call *)
(* stack walking the layouts of ComponentTables over input that may hold   *)
(* any value and may end anywhere.                                         *)
(*                                                                         *)
(* mc_reader_item_stack reads an item.  It enters skip_slot_component with *)
(* depth 0 for each component and, before protocol 766, nbt_skip_value     *)
(* with depth 0 for the item's NBT.  Each refuses a call deeper than       *)
(* MC_MAX_NBT_DEPTH.                                                       *)
(***************************************************************************)
EXTENDS ComponentTables

CONSTANTS
    MaxDepth,           \* MC_MAX_NBT_DEPTH, scaled down
    Protocols           \* the protocols items are read for

ASSUME MaxDepthAssumption == MaxDepth \in Nat

VARIABLES
    protocol,           \* the reader's protocol
    stack,              \* the calls under way: function, depth, what is left to read
    unread,             \* loop iterations begun since the last field was read
    verdict             \* "running", "accepted" or the McErrorCode

vars == <<protocol, stack, unread, verdict>>

-----------------------------------------------------------------------------
(* skip_slot_component, skip_slot_component_type: the protocol's functions. *)

\* The validator a protocol uses: 776 has 775's.
VersionOf(p) == IF p = 776 THEN 775 ELSE p

Body(p, f) ==
    LET v == VersionOf(p)
    IN  IF f \in DOMAIN nbt_skip_value THEN nbt_skip_value[f]
        ELSE IF v \notin Versions THEN Reject("UNSUPPORTED_PROTOCOL")
        ELSE CASE f = "slot_component" -> Switch(Components[v])
               [] f = "slot_component_type" -> Enum(ComponentTypes[v])
               [] f = "typed_skip_nested_item_stack" -> NestedItem
               [] OTHER -> Functions[v][f]

\* A sequence of fields takes its place in what is left to read.
Flat(x) == IF x.op = "all" THEN x.kids ELSE <<x>>

Frame(f, depth, x) == [fn |-> f, depth |-> depth, todo |-> Flat(x)]

Init ==
    /\ protocol \in Protocols
    /\ \E kind \in WireKind :
          stack = <<Frame("mc_reader_item_stack", -1, mc_reader_item_stack(protocol, kind))>>
    /\ unread = 0
    /\ verdict = "running"

-----------------------------------------------------------------------------
(* Steps of the function on top of the stack. *)

Top == stack[Len(stack)]
Current == Head(Top.todo)

Running(op) ==
    /\ stack # <<>>
    /\ Top.todo # <<>>
    /\ Current.op = op

\* The rest of the function, with x in the place of what was just done.
Continue(x) ==
    stack' = [stack EXCEPT ![Len(stack)].todo = Flat(x) \o Tail(@)]

\* reader_fail: every caller returns false.
Fail(code) ==
    /\ verdict' = code
    /\ stack' = <<>>
    /\ UNCHANGED <<protocol, unread>>

\* A value is read and sends the reader on.
ReadField ==
    /\ Running("field")
    /\ \E i \in DOMAIN Current.kids : Continue(Current.kids[i])
    /\ unread' = 0
    /\ UNCHANGED <<protocol, verdict>>

\* The input ends, or the value is refused.
RefuseField ==
    /\ Running("field")
    /\ \E code \in Current.bad \cup {"PARTIAL_INPUT"} : Fail(code)

RejectLength ==
    /\ Running("reject")
    /\ Fail(Current.code)

\* One more element, if any is left.
MutantNotCounted ==
    /\ Running("loop")
    /\ Current.left > 0
    /\ Continue(All(Flat(Current.element) \o <<Current>>))
    /\ unread' = unread + 1
    /\ UNCHANGED <<protocol, verdict>>
Iterate ==
    /\ Running("loop")
    /\ Current.left > 0
    /\ Continue(All(Flat(Current.element) \o <<Loop(Current.left - 1, Current.element)>>))
    /\ unread' = unread + 1
    /\ UNCHANGED <<protocol, verdict>>

LeaveLoop ==
    /\ Running("loop")
    /\ Current.left = 0
    /\ Continue(Unit)
    /\ UNCHANGED <<protocol, unread, verdict>>

\* The depth a function passes on: every one passes its own plus one.
MutantItemsFree ==
    IF Top.fn = "typed_skip_nested_item_stack" THEN Top.depth ELSE Top.depth + 1
PassedDepth == Top.depth + 1

MutantOneDeeper ==
    /\ Running("call")
    /\ PassedDepth <= MaxDepth + 1
    /\ stack' = Append([stack EXCEPT ![Len(stack)].todo = Tail(@)],
                       Frame(Current.fn, PassedDepth, Body(protocol, Current.fn)))
    /\ UNCHANGED <<protocol, unread, verdict>>
CallFunction ==
    /\ Running("call")
    /\ PassedDepth <= MaxDepth
    /\ stack' = Append([stack EXCEPT ![Len(stack)].todo = Tail(@)],
                       Frame(Current.fn, PassedDepth, Body(protocol, Current.fn)))
    /\ UNCHANGED <<protocol, unread, verdict>>

TooDeep ==
    /\ Running("call")
    /\ PassedDepth > MaxDepth
    /\ Fail("NBT_DEPTH")

\* A function returns true to its caller.
Return ==
    /\ stack # <<>>
    /\ Top.todo = <<>>
    /\ stack' = SubSeq(stack, 1, Len(stack) - 1)
    /\ verdict' = IF Len(stack) = 1 THEN "accepted" ELSE verdict
    /\ UNCHANGED <<protocol, unread>>

\* The caller has its answer.
Done ==
    /\ stack = <<>>
    /\ UNCHANGED vars

Next ==
    \/ ReadField \/ RefuseField \/ RejectLength
    \/ Iterate \/ LeaveLoop
    \/ CallFunction \/ TooDeep \/ Return
    \/ Done

Spec == Init /\ [][Next]_vars /\ WF_vars(Next)

-----------------------------------------------------------------------------
(* Properties *)

Verdicts == BadVarInt \cup {"running", "accepted", "PARTIAL_INPUT", "INVALID_LENGTH",
    "STRING_TOO_LARGE", "INVALID_BOOLEAN", Invalid, "NBT_DEPTH", "NBT_LENGTH", "ZLIB",
    "UNSUPPORTED_PROTOCOL"}

\* The walk's state has its type.
TypeOK ==
    /\ protocol \in Protocols
    /\ \A i \in DOMAIN stack : stack[i].depth \in -1..MaxDepth
    /\ unread \in Nat
    /\ verdict \in Verdicts

\* The C stack is bounded by the depth limit alone, whatever the input asks
\* for: items within components within items, predicates within predicates,
\* effects within effects and lists within lists all count, because every
\* function is handed its caller's depth plus one.
StackBounded == Len(stack) <= MaxDepth + 2

\* The input pays for the work: no array makes the validator run through
\* elements that read nothing, so a count of a million in a short packet ends
\* at the first missing byte.
EveryIterationReads == unread <= 1

\* A component an item may remove is one it may add: skip_slot_component and
\* skip_slot_component_type know the same types of every protocol, each with a
\* layout.
TypesInStep ==
    VersionOf(protocol) \in Versions =>
        Len(Components[VersionOf(protocol)]) = ComponentTypes[VersionOf(protocol)]

\* The validator comes to an answer: item accepted, or the reader failed.
Answers == <>(verdict # "running")

=============================================================================
