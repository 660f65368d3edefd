-------------------------- MODULE ComponentLayouts --------------------------
(***************************************************************************)
(* The layouts of what the validators read: the values of the wire, NBT,   *)
(* item stacks (mc_reader_item_stack) and the parts of Slot components     *)
(* that several protocol versions share.  ComponentTables has the          *)
(* components of each version.                                             *)
(*                                                                         *)
(* A layout is a tree.  A Field is one value read from the wire: the       *)
(* errors that refuse it and, for each way its value can send the reader,  *)
(* what is read next.  Names, registries and numbers that only pass through *)
(* the validator are left out.                                             *)
(***************************************************************************)
EXTENDS Integers, Sequences

CONSTANT MaxCount       \* bound: elements of an array, children of a compound

ASSUME MaxCountAssumption == MaxCount \in Nat \ {0}

Invalid == "INVALID_PACKET_BODY"

-----------------------------------------------------------------------------
(* Layouts *)

All(fields) == [op |-> "all", kids |-> fields]
Unit == All(<<>>)
Field(bad, kids) == [op |-> "field", bad |-> bad, kids |-> kids]
Call(f) == [op |-> "call", fn |-> f]
Reject(code) == [op |-> "reject", code |-> code]

\* for (index = 0; index < left; ++index) { element }
Loop(left, element) == [op |-> "loop", left |-> left, element |-> element]

\* A reader is strict or compatible; only a strict one refuses a padded VarInt
\* or a Boolean above 1.
BadVarInt == {"VARINT_OVERFLOW", "VARINT_NON_CANONICAL"}

\* Single values.
VarInt == Field(BadVarInt, <<Unit>>)
Text == Field(BadVarInt \cup {"INVALID_LENGTH", "STRING_TOO_LARGE"}, <<Unit>>)
Int32 == Field({}, <<Unit>>)
Position == Field({}, <<Unit>>)
Uuid == Field({}, <<Unit>>)
Finite == Field({Invalid}, <<Unit>>)
FiniteDouble == Finite

\* mc_reader_nbt seen from a component: its own walk is nbt_skip_value below.
Nbt == Field({Invalid, "NBT_DEPTH", "NBT_LENGTH"}, <<Unit>>)

\* A value that selects one of the layouts, the first for 0.
Switch(kids) == Field(BadVarInt \cup {Invalid}, kids)
Enum(n) == Switch([i \in 1..n |-> Unit])
Either(no, yes) == Field({"INVALID_BOOLEAN"}, <<no, yes>>)
Bool == Either(Unit, Unit)
Opt(x) == Either(Unit, x)

\* A registry id plus one, or 0 and the entry inline.
Holder(x) == Switch(<<x, Unit>>)

\* A count within MC_MAX_PACKET_ARRAY_COUNT, then as many elements.
Many(x) == Field(BadVarInt \cup {"INVALID_LENGTH"}, [c \in 1..(MaxCount + 1) |-> Loop(c - 1, x)])

\* 0 and the name of a tag, or a count plus one and the members.
IdSet == Field(BadVarInt \cup {Invalid, "INVALID_LENGTH"},
    <<Text>> \o [c \in 1..(MaxCount + 1) |-> Loop(c - 1, VarInt)])

\* Two counts, then the two arrays; each count is checked at its loop.
Counts(x, y) ==
    LET Array(c, e) == IF c > MaxCount THEN Reject("INVALID_LENGTH") ELSE Loop(c, e)
    IN  Field(BadVarInt, [c \in 1..(MaxCount + 2) |->
            Field(BadVarInt, [d \in 1..(MaxCount + 2) |-> All(<<Array(c - 1, x), Array(d - 1, y)>>)])])

\* An id or a count that must not be 0.
Positive == Switch(<<Unit>>)

\* Components added and removed: counts that sum to more than
\* MC_MAX_ITEM_COMPONENT_COUNT are refused before any component is read.
AddedRemoved(added) ==
    Field(BadVarInt, [c \in 1..(MaxCount + 1) |->
        Field(BadVarInt \cup {"INVALID_LENGTH", Invalid}, [d \in 1..(MaxCount + 2 - c) |->
            All(<<Loop(c - 1, added), Loop(d - 1, Call("slot_component_type"))>>)])])

\* typed_skip_nested_item_stack: an item within a component, behind its count.
Item == Call("typed_skip_nested_item_stack")
NestedItem ==
    Switch(<<Unit, All(<<Positive, AddedRemoved(Call("slot_component"))>>)>>)

-----------------------------------------------------------------------------
(* NBT: a call per value, by the kind of its tag.                           *)

NbtName == Field({}, <<Unit>>)
NbtKinds == <<"nbt_fixed", "nbt_skip_array", "nbt_string", "nbt_list", "nbt_compound">>
NbtValues == [k \in DOMAIN NbtKinds |-> Call(NbtKinds[k])]

\* A type: the end tag, or a known one and what it is followed by.
NbtTag(end, values) == Field({Invalid}, <<end>> \o values)

\* The type of the elements, then their number; only an empty list has the
\* end tag for its type.
MutantEndElements ==
    LET Elements(x) == Field({"NBT_LENGTH"}, [c \in 1..(MaxCount + 1) |-> Loop(c - 1, x)])
    IN  NbtTag(Elements(Unit), [k \in DOMAIN NbtValues |-> Elements(NbtValues[k])])
NbtList ==
    LET Elements(x) == Field({"NBT_LENGTH"}, [c \in 1..(MaxCount + 1) |-> Loop(c - 1, x)])
    IN  NbtTag(Field({"NBT_LENGTH", Invalid}, <<Unit>>),
               [k \in DOMAIN NbtValues |-> Elements(NbtValues[k])])

\* Type, name and value of each child until the end tag.  The code has no limit
\* on children but the input's length; here MaxCount bounds them, and the child
\* after the last is the end tag, an unknown type or the end of the input.
NbtCompound[left \in 0..MaxCount] ==
    IF left = 0 THEN Field({Invalid}, <<Unit>>)
    ELSE NbtTag(Unit, [k \in DOMAIN NbtValues |->
             All(<<NbtName, NbtValues[k], NbtCompound[left - 1]>>)])

\* The cases of nbt_skip_value.
nbt_skip_value == [
    nbt_fixed |-> Int32, nbt_skip_array |-> Field({"NBT_LENGTH"}, <<Unit>>),
    nbt_string |-> NbtName, nbt_list |-> NbtList, nbt_compound |-> NbtCompound[MaxCount]]

\* mc_reader_nbt: nothing, or a root with or without a name.
mc_reader_nbt(named) ==
    NbtTag(Unit, [k \in DOMAIN NbtValues |->
        IF named THEN All(<<NbtName, NbtValues[k]>>) ELSE NbtValues[k]])

-----------------------------------------------------------------------------
(* mc_reader_item_stack: an item in each of its wire formats.               *)

WireKind == {"FULL", "UNTRUSTED", "HASHED"}

\* Up to protocol 5 the NBT is a gzip stream behind its size.
GzipNbt == Field({Invalid}, <<Unit, Field({Invalid, "ZLIB", "NBT_LENGTH"}, <<Unit>>)>>)

\* Up to 401: id, count, below 341 the damage, and NBT.
Count8 == Field({Invalid}, <<Unit>>)
OldItem(p) == Field({Invalid}, <<Unit, All(<<Count8>>
    \o (IF p <= 340 THEN <<Int32>> ELSE <<>>)
    \o <<IF p <= 5 THEN GzipNbt ELSE mc_reader_nbt(TRUE)>>)>>)

\* The hashes of the components added, then the components removed.
HashedItem ==
    Opt(All(<<Positive, Positive,
        Field(BadVarInt \cup {"INVALID_LENGTH", Invalid}, [c \in 1..(MaxCount + 1) |-> All(<<
            Loop(c - 1, All(<<Call("slot_component_type"), Int32>>)),
            Field(BadVarInt \cup {"INVALID_LENGTH", Invalid}, [d \in 1..(MaxCount + 2 - c) |->
                Loop(d - 1, Call("slot_component_type"))])>>)])>>))

\* An untrusted component is bytes behind their length.
mc_reader_item_stack(p, kind) ==
    CASE kind = "HASHED" -> HashedItem
      [] kind # "HASHED" /\ p <= 401 -> OldItem(p)
      [] kind # "HASHED" /\ p \in 402..765 ->
           Opt(All(<<Positive, Count8, mc_reader_nbt(p < 764)>>))
      [] OTHER -> Switch(<<Unit, All(<<Positive, AddedRemoved(
           IF kind = "UNTRUSTED" THEN All(<<Call("slot_component_type"), Text>>)
                                 ELSE Call("slot_component"))>>)>>)

-----------------------------------------------------------------------------
(* Layouts that several versions share. *)

PotionContents == All(<<Opt(VarInt), Opt(Int32), Many(Call("item_potion_effect")),
    Opt(Text)>>)
WrittenBook == All(<<Text, Opt(Text), Text, VarInt, Many(Call("item_written_book_page")),
    Bool>>)
ModelData == All(<<Many(Finite), Many(Bool), Many(Text), Many(Int32)>>)
Profile == All(<<Opt(Text), Opt(Uuid), Many(All(<<Text, Text, Opt(Text)>>))>>)
ToolRules == Many(All(<<Call("idset"), Opt(Finite), Opt(Bool)>>))
BlocksAttacks == All(<<Finite, Finite, Many(All(<<Finite, Opt(Call("idset")), Finite,
    Finite>>)), Finite, Finite, Finite, Opt(Text), Opt(Call("item_sound_holder")),
    Opt(Call("item_sound_holder"))>>)
KineticWeapon == All(<<VarInt, VarInt, Opt(Call("kinetic_weapon_condition")),
    Opt(Call("kinetic_weapon_condition")), Opt(Call("kinetic_weapon_condition")), Finite,
    Finite, Opt(Call("item_sound_holder")), Opt(Call("item_sound_holder"))>>)
ModifiersByUuid == Many(All(<<VarInt, Uuid, Text, FiniteDouble, Enum(3), Enum(10)>>))
Modifiers10 == Many(All(<<VarInt, Text, FiniteDouble, Enum(3), Enum(10)>>))
Modifiers11 == Many(All(<<VarInt, Text, FiniteDouble, Enum(3), Enum(11)>>))
ModifiersShown == Many(All(<<VarInt, Text, FiniteDouble, Enum(3), Enum(11), Switch(<<Unit,
    Unit, Nbt>>)>>))
FoodWithRemainder == All(<<VarInt, Finite, Bool, Finite, Item, Many(All(<<VarInt,
    Finite>>))>>)
Consumable10 == All(<<Finite, Enum(10), Call("item_sound_holder"), Bool,
    Many(Call("item_consume_effect"))>>)
Consumable11 == All(<<Finite, Enum(11), Call("item_sound_holder"), Bool,
    Many(Call("item_consume_effect"))>>)
Consumable26_3 == All(<<Finite, Enum(11), Call("item_sound_holder"), Bool,
    Many(Call("item_consume_effect26_3"))>>)
Equippable7 == All(<<Enum(7), Call("item_sound_holder"), Opt(Text), Opt(Text),
    Opt(Call("idset")), Bool, Bool, Bool>>)
Equippable8 == All(<<Enum(8), Call("item_sound_holder"), Opt(Text), Opt(Text),
    Opt(Call("idset")), Bool, Bool, Bool, Bool>>)
EquippableSheared == All(<<Enum(8), Call("item_sound_holder"), Opt(Text), Opt(Text),
    Opt(Call("idset")), Bool, Bool, Bool, Bool, Bool, Call("item_sound_holder")>>)
Trim == All(<<Holder(Call("armor_trim_material")), Holder(Call("armor_trim_pattern"))>>)
SoundPair == All(<<Bool, Bool, Opt(Call("item_sound_holder")),
    Opt(Call("item_sound_holder"))>>)
SixFinite == All(<<Finite, Finite, Finite, Finite, Finite, Finite>>)
SignText == All(<<Nbt, Nbt, Nbt, Nbt, Opt(All(<<Nbt, Nbt, Nbt, Nbt>>)), Call("dye_color"),
    Bool>>)
FourTemplates == All(<<Opt(Call("item_stack_template")), Opt(Call("item_stack_template")),
    Opt(Call("item_stack_template")), Opt(Call("item_stack_template"))>>)
Pairs == Many(All(<<VarInt, VarInt>>))
Predicates == Many(Call("item_block_predicate"))
HeldTrimMaterial == Either(Text, Holder(Call("armor_trim_material")))
HeldInstrument == Either(Text, Holder(Call("instrument_data")))
HeldSong == Either(Text, Holder(Call("jukebox_song_data")))
Lodestone == All(<<Opt(All(<<Text, Position>>)), Bool>>)

=============================================================================
