-------------------------- MODULE ComponentTables ---------------------------
(***************************************************************************)
(* What the validators of Slot data components read (api.c, GENERATED      *)
(* TABLES AND CODECS, and the validator of protocol 777 derived from it):  *)
(* one table of component layouts and one table of named functions per     *)
(* protocol version.                                                       *)
(***************************************************************************)
EXTENDS ComponentLayouts

\* The versions that have a validator of their own.
Versions == (766..775) \cup {777}

\* The functions of two groups.
F ++ G == [f \in DOMAIN F \cup DOMAIN G |-> IF f \in DOMAIN F THEN F[f] ELSE G[f]]

-----------------------------------------------------------------------------
(* The functions of each version, by name.  A version that reads a run of   *)
(* functions exactly as an earlier one does names that one's.               *)

Functions766_1 == [
    armor_trim_material |-> All(<<Text, VarInt, Many(All(<<Text, Text>>)), Nbt>>),
    armor_trim_pattern |-> All(<<Text, VarInt, Nbt, Bool>>),
    banner_pattern |-> All(<<Text, Text>>),
    banner_pattern_layer |-> All(<<Holder(Call("banner_pattern")), VarInt>>)]
Functions766_2 == [
    idset |-> IdSet,
    instrument_data |-> All(<<Call("item_sound_holder"), Finite, Finite, Nbt>>)]
Functions766_3 == [
    item_block_predicate |-> All(<<Opt(IdSet), Opt(Many(Call("item_block_property"))), Nbt>>),
    item_block_property |-> All(<<Text, Either(All(<<Text, Text>>), Text)>>),
    item_book_page |-> All(<<Text, Opt(Text)>>)]
Functions766_4 == [
    item_effect_detail |-> All(<<VarInt, VarInt, Bool, Bool, Bool,
        Opt(Call("item_effect_detail"))>>),
    item_firework_explosion |-> All(<<Enum(5), Many(Int32), Many(Int32), Bool, Bool>>),
    item_potion_effect |-> All(<<VarInt, Call("item_effect_detail")>>),
    item_sound_event |-> All(<<Text, Opt(Finite)>>)]
Functions766_5 == [
    item_sound_holder |-> Holder(Call("item_sound_event")),
    item_written_book_page |-> All(<<Nbt, Nbt>>)]

Functions767_1 == Functions766_1
Functions767_2 == Functions766_2
Functions767_3 == Functions766_3
Functions767_4 == Functions766_4
Functions767_5 == [
    item_sound_holder |-> Holder(Call("item_sound_event")),
    item_written_book_page |-> All(<<Nbt, Nbt>>),
    jukebox_song_data |-> All(<<Call("item_sound_holder"), Nbt, Finite, VarInt>>)]

Functions768_1 == [
    armor_trim_material |-> All(<<Text, VarInt, Many(All(<<Text, Text>>)), Nbt>>),
    armor_trim_pattern |-> All(<<Text, VarInt, Nbt, Bool>>),
    banner_pattern_layer |-> All(<<Call("item_sound_holder"), VarInt>>)]
Functions768_2 == Functions766_2
Functions768_3 == [
    item_block_predicate |-> All(<<Opt(IdSet), Opt(Many(Call("item_block_property"))), Nbt>>),
    item_block_property |-> All(<<Text, Either(All(<<Text, Text>>), Text)>>),
    item_book_page |-> All(<<Text, Opt(Text)>>),
    item_consume_effect |-> Switch(<<All(<<Many(Call("item_potion_effect")), Finite>>),
        Call("idset"), Unit, Finite, Call("item_sound_holder")>>)]
Functions768_4 == Functions766_4
Functions768_5 == Functions767_5

Functions769_1 == Functions766_1
Functions769_2 == Functions766_2
Functions769_3 == Functions768_3
Functions769_4 == Functions766_4
Functions769_5 == Functions767_5

Functions770_1 == [
    armor_trim_material |-> All(<<Text, Many(All(<<Text, Text>>)), Nbt>>),
    armor_trim_pattern |-> All(<<Text, Nbt, Bool>>),
    banner_pattern |-> All(<<Text, Text>>),
    banner_pattern_layer |-> All(<<Holder(Call("banner_pattern")), VarInt>>)]
Functions770_2 == [
    data_component_matchers |-> All(<<Call("exact_component_matcher"), Many(VarInt)>>),
    entity_metadata_painting_variant |-> All(<<Int32, Int32, Text, Opt(Nbt), Opt(Nbt)>>),
    exact_component_matcher |-> Many(Call("slot_component"))]
Functions770_3 == Functions766_2
Functions770_4 == [
    item_block_predicate |-> All(<<Opt(IdSet), Opt(Many(Call("item_block_property"))),
        Nbt, Call("data_component_matchers")>>),
    item_block_property |-> All(<<Text, Either(All(<<Text, Text>>), Text)>>),
    item_book_page |-> All(<<Text, Opt(Text)>>),
    item_consume_effect |-> Switch(<<All(<<Many(Call("item_potion_effect")), Finite>>),
        Call("idset"), Unit, Finite, Call("item_sound_holder")>>)]
Functions770_5 == Functions766_4
Functions770_6 == Functions767_5

Functions771_1 == Functions770_1
Functions771_2 == Functions770_2
Functions771_3 == Functions766_2
Functions771_4 == Functions770_4
Functions771_5 == Functions766_4
Functions771_6 == Functions767_5

Functions772_1 == Functions770_1
Functions772_2 == Functions770_2
Functions772_3 == Functions766_2
Functions772_4 == Functions770_4
Functions772_5 == Functions766_4
Functions772_6 == Functions767_5

Functions773_1 == Functions770_1
Functions773_2 == [
    data_component_matchers |-> All(<<Call("exact_component_matcher"), Many(VarInt)>>),
    entity_metadata_painting_variant |-> All(<<Int32, Int32, Text, Opt(Nbt), Opt(Nbt)>>),
    exact_component_matcher |-> Many(Call("slot_component")),
    game_profile |-> All(<<Uuid, Text, Many(Call("game_profile_property"))>>),
    game_profile_property |-> All(<<Text, Text, Opt(Text)>>),
    global_pos |-> All(<<Text, Position>>)]
Functions773_3 == Functions766_2
Functions773_4 == Functions770_4
Functions773_5 == Functions766_4
Functions773_6 == Functions767_5
Functions773_7 == [
    partial_resolvable_profile |-> All(<<Opt(Text), Opt(Uuid),
        Many(Call("game_profile_property"))>>),
    player_skin_patch |-> All(<<Opt(Text), Opt(Text), Opt(Text), Opt(Enum(2))>>),
    resolvable_profile |-> All(<<Switch(<<Call("partial_resolvable_profile"),
        Call("game_profile")>>), Call("player_skin_patch")>>)]

Functions774_1 == [
    armor_trim_material |-> All(<<Text, Many(All(<<Text, Text>>)), Nbt>>),
    armor_trim_pattern |-> All(<<Text, Nbt, Bool>>),
    banner_pattern |-> All(<<Text, Text>>),
    banner_pattern_layer |-> All(<<Holder(Call("banner_pattern")), VarInt>>),
    damage_type_data |-> All(<<Text, Enum(3), Finite, Enum(6), Enum(3)>>)]
Functions774_2 == Functions773_2
Functions774_3 == Functions766_2
Functions774_4 == Functions770_4
Functions774_5 == Functions766_4
Functions774_6 == Functions767_5
Functions774_7 == [
    kinetic_weapon_condition |-> All(<<VarInt, Finite, Finite>>)]
Functions774_8 == Functions773_7

Functions775_1 == Functions774_1
Functions775_2 == [
    data_component_matchers |-> All(<<Call("exact_component_matcher"), Many(VarInt)>>),
    dye_color |-> Enum(16),
    entity_metadata_painting_variant |-> All(<<Int32, Int32, Text, Opt(Nbt), Opt(Nbt)>>),
    exact_component_matcher |-> Many(Call("slot_component")),
    game_profile |-> All(<<Uuid, Text, Many(Call("game_profile_property"))>>),
    game_profile_property |-> All(<<Text, Text, Opt(Text)>>),
    global_pos |-> All(<<Text, Position>>)]
Functions775_3 == Functions766_2
Functions775_4 == Functions770_4
Functions775_5 == Functions766_4
Functions775_6 == Functions767_5
Functions775_7 == Functions774_7
Functions775_8 == Functions773_7

Functions777_1 == [
    armor_trim_material26_3 |-> All(<<Text, Nbt>>),
    armor_trim_pattern |-> All(<<Text, Nbt, Bool>>),
    banner_pattern |-> All(<<Text, Text>>),
    banner_pattern_layer |-> All(<<Holder(Call("banner_pattern")), VarInt>>),
    damage_type_data |-> All(<<Text, Enum(3), Finite, Enum(6), Enum(3)>>)]
Functions777_2 == Functions775_2
Functions777_3 == [
    idset |-> IdSet,
    instrument_data26_3 |-> All(<<Call("item_sound_holder"), Finite, Finite, VarInt, Nbt>>)]
Functions777_4 == [
    item_block_predicate |-> All(<<Opt(IdSet), Opt(Many(Call("item_block_property"))),
        Nbt, Call("data_component_matchers")>>),
    item_block_property |-> All(<<Text, Either(All(<<Text, Text>>), Text)>>),
    item_book_page |-> All(<<Text, Opt(Text)>>),
    item_consume_effect26_3 |-> Switch(<<All(<<Many(Call("item_potion_effect")),
        Finite>>), Call("idset"), Unit, All(<<Finite, Bool>>),
        Call("item_sound_holder")>>)]
Functions777_5 == Functions766_4
Functions777_6 == [
    item_sound_holder |-> Holder(Call("item_sound_event")),
    item_stack_template |-> All(<<VarInt, VarInt, Counts(Call("slot_component"),
        Call("slot_component_type"))>>),
    item_written_book_page |-> All(<<Nbt, Nbt>>),
    jukebox_song_data |-> All(<<Call("item_sound_holder"), Nbt, Finite, VarInt>>)]
Functions777_7 == Functions774_7
Functions777_8 == [
    partial_resolvable_profile |-> All(<<Opt(Text), Opt(Uuid),
        Many(Call("game_profile_property"))>>),
    player_skin_patch |-> All(<<Opt(Text), Opt(Text), Opt(Text), Opt(Enum(2))>>),
    resolvable_float |-> Either(Text, Finite), resolvable_int |-> Either(Text, Int32),
    resolvable_profile |-> All(<<Switch(<<Call("partial_resolvable_profile"),
        Call("game_profile")>>), Call("player_skin_patch")>>)]

-----------------------------------------------------------------------------
(* The branches of each version's slot_component, in the order of the type. *)

Components766_1 == <<        \* types 0..17
    Nbt, VarInt, VarInt, VarInt, Bool, Nbt, Nbt, Many(Nbt), Enum(4), All(<<Pairs, Bool>>),
    All(<<Predicates, Bool>>), All(<<Predicates, Bool>>), All(<<ModifiersByUuid, Bool>>),
    VarInt, Unit, Unit, VarInt, Unit>>
Components766_2 == <<        \* types 18..30
    Bool, Nbt, FoodWithRemainder, Unit, All(<<ToolRules, Finite, VarInt>>),
    All(<<Pairs, Bool>>), All(<<Int32, Bool>>), Int32, VarInt, Nbt, VarInt, Many(Item),
    Many(Item)>>
Components766_3 == <<        \* types 31..44
    PotionContents, Pairs, Many(Call("item_book_page")), WrittenBook,
    All(<<Holder(Call("armor_trim_material")), Holder(Call("armor_trim_pattern")), Bool>>),
    Nbt, Nbt, Nbt, Nbt, Holder(Call("instrument_data")), VarInt, Nbt, Lodestone,
    Call("item_firework_explosion")>>
Components766_4 == <<        \* types 45..55
    All(<<VarInt, Many(Call("item_firework_explosion"))>>), Profile, Text,
    Many(Call("banner_pattern_layer")), VarInt, Many(VarInt), Many(Item),
    Many(All(<<Text, Text>>)), Many(All(<<Nbt, VarInt, VarInt>>)), Nbt, Nbt>>

Components767_1 == <<        \* types 0..18
    Nbt, VarInt, VarInt, VarInt, Bool, Nbt, Nbt, Many(Nbt), Enum(4), All(<<Pairs, Bool>>),
    All(<<Predicates, Bool>>), All(<<Predicates, Bool>>), All(<<Modifiers10, Bool>>),
    VarInt, Unit, Unit, VarInt, Unit, Bool>>
Components767_2 == <<        \* types 19..30
    Nbt, FoodWithRemainder, Unit, All(<<ToolRules, Finite, VarInt>>), All(<<Pairs, Bool>>),
    All(<<Int32, Bool>>), Int32, VarInt, Nbt, VarInt, Many(Item), Many(Item)>>
Components767_3 == <<        \* types 31..43
    PotionContents, Pairs, Many(Call("item_book_page")), WrittenBook,
    All(<<Holder(Call("armor_trim_material")), Holder(Call("armor_trim_pattern")), Bool>>),
    Nbt, Nbt, Nbt, Nbt, Holder(Call("instrument_data")), VarInt, All(<<HeldSong, Bool>>),
    Nbt>>
Components767_4 == <<        \* types 44..56
    Lodestone, Call("item_firework_explosion"),
    All(<<VarInt, Many(Call("item_firework_explosion"))>>), Profile, Text,
    Many(Call("banner_pattern_layer")), VarInt, Many(VarInt), Many(Item),
    Many(All(<<Text, Text>>)), Many(All(<<Nbt, VarInt, VarInt>>)), Nbt, Nbt>>

Components768_1 == <<        \* types 0..13
    Nbt, VarInt, VarInt, VarInt, Bool, Nbt, Nbt, Text, Many(Nbt), Enum(4),
    All(<<Pairs, Bool>>), All(<<Predicates, Bool>>), All(<<Predicates, Bool>>),
    All(<<Modifiers10, Bool>>)>>
Components768_2 == <<        \* types 14..25
    ModelData, Unit, Unit, VarInt, Unit, Bool, Nbt, All(<<VarInt, Finite, Bool>>),
    Consumable10, Item, All(<<Finite, Opt(Text)>>), Text>>
Components768_3 == <<        \* types 26..39
    All(<<ToolRules, Finite, VarInt>>), VarInt, Equippable7, Call("idset"), Unit, Text,
    Many(Call("item_consume_effect")), All(<<Pairs, Bool>>), All(<<Int32, Bool>>), Int32,
    VarInt, Nbt, VarInt, Many(Item)>>
Components768_4 == <<        \* types 40..51
    Many(Item), PotionContents, Pairs, Many(Call("item_book_page")), WrittenBook,
    All(<<Holder(Call("armor_trim_material")), Holder(Call("armor_trim_pattern")), Bool>>),
    Nbt, Nbt, Nbt, Nbt, Holder(Call("instrument_data")), VarInt>>
Components768_5 == <<        \* types 52..63
    All(<<HeldSong, Bool>>), Nbt, Lodestone, Call("item_firework_explosion"),
    All(<<VarInt, Many(Call("item_firework_explosion"))>>), Profile, Text,
    Many(Call("banner_pattern_layer")), VarInt, Many(VarInt), Many(Item),
    Many(All(<<Text, Text>>))>>
Components768_6 == <<        \* types 64..66
    Many(All(<<Nbt, VarInt, VarInt>>)), Nbt, Nbt>>

Components769_1 == Components768_1
Components769_2 == Components768_2
Components769_3 == Components768_3
Components769_4 == Components768_4
Components769_5 == Components768_5
Components769_6 == Components768_6

Components770_1 == <<        \* types 0..13
    Nbt, VarInt, VarInt, VarInt, Unit, Nbt, Nbt, Text, Many(Nbt), Enum(4), Pairs,
    Predicates, Predicates, Modifiers11>>
Components770_2 == <<        \* types 14..24
    ModelData, All(<<Bool, Many(VarInt)>>), VarInt, Unit, Bool, Unit,
    All(<<VarInt, Finite, Bool>>), Consumable11, Item, All(<<Finite, Opt(Text)>>), Text>>
Components770_3 == <<        \* types 25..32
    All(<<ToolRules, Finite, VarInt, Bool>>), All(<<VarInt, Finite>>), VarInt, Equippable8,
    Call("idset"), Unit, Text, Many(Call("item_consume_effect"))>>
Components770_4 == <<        \* types 33..41
    BlocksAttacks, Pairs, Int32, Int32, VarInt, Nbt, VarInt, Many(Item), Many(Item)>>
Components770_5 == <<        \* types 42..52
    PotionContents, Finite, Pairs, Many(Call("item_book_page")), WrittenBook, Trim, Nbt,
    Nbt, Nbt, Nbt, HeldInstrument>>
Components770_6 == <<        \* types 53..65
    HeldTrimMaterial, VarInt, HeldSong, Text, Nbt, Lodestone,
    Call("item_firework_explosion"),
    All(<<VarInt, Many(Call("item_firework_explosion"))>>), Profile, Text,
    Many(Call("banner_pattern_layer")), VarInt, Many(VarInt)>>
Components770_7 == <<        \* types 66..92
    Many(Item), Many(All(<<Text, Text>>)), Many(All(<<Nbt, VarInt, VarInt>>)), Nbt, Nbt,
    Call("item_sound_holder"), VarInt, VarInt, VarInt, VarInt, VarInt, VarInt, VarInt,
    VarInt, VarInt, VarInt, VarInt, VarInt, VarInt, VarInt, Holder(Text), VarInt, VarInt,
    Holder(Call("entity_metadata_painting_variant")), VarInt, VarInt, VarInt>>
Components770_8 == <<        \* types 93..95
    VarInt, VarInt, VarInt>>

Components771_1 == <<        \* types 0..13
    Nbt, VarInt, VarInt, VarInt, Unit, Nbt, Nbt, Text, Many(Nbt), Enum(4), Pairs,
    Predicates, Predicates, ModifiersShown>>
Components771_2 == Components770_2
Components771_3 == <<        \* types 25..32
    All(<<ToolRules, Finite, VarInt, Bool>>), All(<<VarInt, Finite>>), VarInt,
    EquippableSheared, Call("idset"), Unit, Text, Many(Call("item_consume_effect"))>>
Components771_4 == Components770_4
Components771_5 == Components770_5
Components771_6 == Components770_6
Components771_7 == Components770_7
Components771_8 == Components770_8

Components772_1 == Components771_1
Components772_2 == Components770_2
Components772_3 == Components771_3
Components772_4 == Components770_4
Components772_5 == Components770_5
Components772_6 == Components770_6
Components772_7 == Components770_7
Components772_8 == Components770_8

Components773_1 == Components771_1
Components773_2 == Components770_2
Components773_3 == Components771_3
Components773_4 == Components770_4
Components773_5 == <<        \* types 42..52
    PotionContents, Finite, Pairs, Many(Call("item_book_page")), WrittenBook, Trim, Nbt,
    All(<<VarInt, Nbt>>), Nbt, All(<<VarInt, Nbt>>), HeldInstrument>>
Components773_6 == <<        \* types 53..65
    HeldTrimMaterial, VarInt, HeldSong, Text, Nbt, All(<<Opt(Call("global_pos")), Bool>>),
    Call("item_firework_explosion"),
    All(<<VarInt, Many(Call("item_firework_explosion"))>>), Call("resolvable_profile"),
    Text, Many(Call("banner_pattern_layer")), VarInt, Many(VarInt)>>
Components773_7 == Components770_7
Components773_8 == Components770_8

Components774_1 == <<        \* types 0..15
    Nbt, VarInt, VarInt, VarInt, Unit, All(<<Bool, Bool, Finite>>), Nbt, Finite,
    Either(Text, Holder(Call("damage_type_data"))), Nbt, Text, Many(Nbt), Enum(4), Pairs,
    Predicates, Predicates>>
Components774_2 == <<        \* types 16..24
    ModifiersShown, ModelData, All(<<Bool, Many(VarInt)>>), VarInt, Unit, Bool, Unit,
    All(<<VarInt, Finite, Bool>>), Consumable11>>
Components774_3 == <<        \* types 25..35
    Item, All(<<Finite, Opt(Text)>>), Text, All(<<ToolRules, Finite, VarInt, Bool>>),
    All(<<VarInt, Finite>>), SixFinite, VarInt, EquippableSheared, Call("idset"), Unit,
    Text>>
Components774_4 == <<        \* types 36..40
    Many(Call("item_consume_effect")), BlocksAttacks, SoundPair, KineticWeapon,
    All(<<Enum(3), VarInt>>)>>
Components774_5 == <<        \* types 41..53
    Pairs, Int32, Int32, VarInt, Nbt, VarInt, Many(Item), Many(Item), PotionContents, Finite,
    Pairs, Many(Call("item_book_page")), WrittenBook>>
Components774_6 == <<        \* types 54..71
    Trim, Nbt, All(<<VarInt, Nbt>>), Nbt, All(<<VarInt, Nbt>>), HeldInstrument,
    HeldTrimMaterial, VarInt, HeldSong, Text, Nbt, All(<<Opt(Call("global_pos")), Bool>>),
    Call("item_firework_explosion"),
    All(<<VarInt, Many(Call("item_firework_explosion"))>>), Call("resolvable_profile"),
    Text, Many(Call("banner_pattern_layer")), VarInt>>
Components774_7 == <<        \* types 72..96
    Many(VarInt), Many(Item), Many(All(<<Text, Text>>)),
    Many(All(<<Nbt, VarInt, VarInt>>)), Nbt, Nbt, Call("item_sound_holder"), VarInt,
    VarInt, VarInt, VarInt, VarInt, VarInt, VarInt, VarInt, VarInt, VarInt, VarInt, VarInt,
    VarInt, VarInt, Holder(Text), Holder(Text), VarInt, VarInt>>
Components774_8 == <<        \* types 97..103
    Holder(Call("entity_metadata_painting_variant")), VarInt, VarInt, VarInt, VarInt,
    VarInt, VarInt>>

Components775_1 == Components774_1
Components775_2 == Components774_2
Components775_3 == Components774_3
Components775_4 == Components774_4
Components775_5 == <<        \* types 41..54
    VarInt, Pairs, Call("dye_color"), Int32, Int32, VarInt, Nbt, VarInt, Many(Item),
    Many(Item), PotionContents, Finite, Pairs, Many(Call("item_book_page"))>>
Components775_6 == <<        \* types 55..70
    WrittenBook, Trim, Nbt, All(<<VarInt, Nbt>>), Nbt, All(<<VarInt, Nbt>>),
    HeldInstrument, HeldTrimMaterial, VarInt, HeldSong, Text, Nbt,
    All(<<Opt(Call("global_pos")), Bool>>), Call("item_firework_explosion"),
    All(<<VarInt, Many(Call("item_firework_explosion"))>>), Call("resolvable_profile")>>
Components775_7 == <<        \* types 71..96
    Text, Many(Call("banner_pattern_layer")), Call("dye_color"), Many(VarInt), Many(Item),
    Many(All(<<Text, Text>>)), Many(All(<<Nbt, VarInt, VarInt>>)), Nbt, Nbt,
    Call("item_sound_holder"), VarInt, VarInt, VarInt, Call("dye_color"), VarInt, VarInt,
    VarInt, VarInt, Call("dye_color"), Call("dye_color"), VarInt, VarInt, VarInt, VarInt,
    VarInt, VarInt>>
Components775_8 == <<        \* types 97..109
    Holder(Text), Holder(Text), Holder(Text), VarInt, VarInt,
    Holder(Call("entity_metadata_painting_variant")), VarInt, VarInt, VarInt, VarInt,
    Call("dye_color"), Call("dye_color"), Call("dye_color")>>

Components777_1 == Components774_1
Components777_2 == <<        \* types 16..23
    ModifiersShown, ModelData, All(<<Bool, Many(VarInt)>>), VarInt, Unit, Bool, Nbt,
    All(<<VarInt, Finite, Bool>>)>>
Components777_3 == <<        \* types 24..31
    Consumable26_3, Call("item_stack_template"), All(<<Finite, Opt(Text)>>), Text,
    All(<<ToolRules, Finite, VarInt, Bool>>), All(<<VarInt, Finite>>), SixFinite, VarInt>>
Components777_4 == <<        \* types 32..38
    EquippableSheared, Call("idset"), Unit, Text, Many(Call("item_consume_effect26_3")),
    BlocksAttacks, SoundPair>>
Components777_5 == <<        \* types 39..52
    KineticWeapon, All(<<Enum(3), VarInt>>), All(<<Enum(3), VarInt>>), VarInt, VarInt,
    VarInt, Pairs, Call("dye_color"), Int32, VarInt, Nbt, VarInt,
    Many(Call("item_stack_template")), Many(Call("item_stack_template"))>>
Components777_6 == <<        \* types 53..63
    PotionContents, Finite, Pairs, Many(Call("item_book_page")), WrittenBook,
    All(<<Holder(Call("armor_trim_material26_3")), Holder(Call("armor_trim_pattern"))>>),
    Nbt, All(<<VarInt, Nbt>>), Nbt, All(<<VarInt, Nbt>>),
    Either(Text, Holder(Call("instrument_data26_3")))>>
Components777_7 == <<        \* types 64..78
    Either(Text, Holder(Call("armor_trim_material26_3"))), VarInt, HeldSong, Text, Nbt,
    All(<<Opt(Call("global_pos")), Bool>>), Call("item_firework_explosion"),
    All(<<VarInt, Many(Call("item_firework_explosion"))>>), Call("resolvable_profile"),
    Text, Many(Call("banner_pattern_layer")), Call("dye_color"), FourTemplates,
    Many(Opt(Call("item_stack_template"))), Many(All(<<Text, Text>>))>>
Components777_8 == <<        \* types 79..108
    Many(All(<<Nbt, VarInt, VarInt>>)), Item, Nbt, Nbt, Call("item_sound_holder"),
    Call("resolvable_int"), All(<<Call("resolvable_int"), Call("resolvable_float")>>),
    All(<<Call("resolvable_int"), Call("resolvable_float")>>),
    All(<<Call("idset"), Finite>>), VarInt, VarInt, VarInt, Call("dye_color"), VarInt,
    VarInt, VarInt, VarInt, Call("dye_color"), Call("dye_color"), VarInt, VarInt, VarInt,
    VarInt, VarInt, VarInt, Holder(Text), Holder(Text), Holder(Text), VarInt, VarInt>>
Components777_9 == <<        \* types 109..121
    Holder(Call("entity_metadata_painting_variant")), VarInt, VarInt, VarInt, VarInt,
    Call("dye_color"), Call("dye_color"), Call("dye_color"), VarInt, SignText, SignText,
    Unit, Call("dye_color")>>

-----------------------------------------------------------------------------
(* The tables. *)

Components == [v \in Versions |->
    CASE v = 766 -> Components766_1 \o Components766_2 \o Components766_3 \o Components766_4
      [] v = 767 -> Components767_1 \o Components767_2 \o Components767_3 \o Components767_4
      [] v = 768 -> Components768_1 \o Components768_2 \o Components768_3 \o Components768_4
                    \o Components768_5 \o Components768_6
      [] v = 769 -> Components769_1 \o Components769_2 \o Components769_3 \o Components769_4
                    \o Components769_5 \o Components769_6
      [] v = 770 -> Components770_1 \o Components770_2 \o Components770_3 \o Components770_4
                    \o Components770_5 \o Components770_6 \o Components770_7 \o
                    Components770_8
      [] v = 771 -> Components771_1 \o Components771_2 \o Components771_3 \o Components771_4
                    \o Components771_5 \o Components771_6 \o Components771_7 \o
                    Components771_8
      [] v = 772 -> Components772_1 \o Components772_2 \o Components772_3 \o Components772_4
                    \o Components772_5 \o Components772_6 \o Components772_7 \o
                    Components772_8
      [] v = 773 -> Components773_1 \o Components773_2 \o Components773_3 \o Components773_4
                    \o Components773_5 \o Components773_6 \o Components773_7 \o
                    Components773_8
      [] v = 774 -> Components774_1 \o Components774_2 \o Components774_3 \o Components774_4
                    \o Components774_5 \o Components774_6 \o Components774_7 \o
                    Components774_8
      [] v = 775 -> Components775_1 \o Components775_2 \o Components775_3 \o Components775_4
                    \o Components775_5 \o Components775_6 \o Components775_7 \o
                    Components775_8
      [] v = 777 -> Components777_1 \o Components777_2 \o Components777_3 \o Components777_4
                    \o Components777_5 \o Components777_6 \o Components777_7 \o
                    Components777_8 \o Components777_9]

Functions == [v \in Versions |->
    CASE v = 766 -> Functions766_1 ++ Functions766_2 ++ Functions766_3 ++ Functions766_4 ++
                    Functions766_5
      [] v = 767 -> Functions767_1 ++ Functions767_2 ++ Functions767_3 ++ Functions767_4 ++
                    Functions767_5
      [] v = 768 -> Functions768_1 ++ Functions768_2 ++ Functions768_3 ++ Functions768_4 ++
                    Functions768_5
      [] v = 769 -> Functions769_1 ++ Functions769_2 ++ Functions769_3 ++ Functions769_4 ++
                    Functions769_5
      [] v = 770 -> Functions770_1 ++ Functions770_2 ++ Functions770_3 ++ Functions770_4 ++
                    Functions770_5 ++ Functions770_6
      [] v = 771 -> Functions771_1 ++ Functions771_2 ++ Functions771_3 ++ Functions771_4 ++
                    Functions771_5 ++ Functions771_6
      [] v = 772 -> Functions772_1 ++ Functions772_2 ++ Functions772_3 ++ Functions772_4 ++
                    Functions772_5 ++ Functions772_6
      [] v = 773 -> Functions773_1 ++ Functions773_2 ++ Functions773_3 ++ Functions773_4 ++
                    Functions773_5 ++ Functions773_6 ++ Functions773_7
      [] v = 774 -> Functions774_1 ++ Functions774_2 ++ Functions774_3 ++ Functions774_4 ++
                    Functions774_5 ++ Functions774_6 ++ Functions774_7 ++ Functions774_8
      [] v = 775 -> Functions775_1 ++ Functions775_2 ++ Functions775_3 ++ Functions775_4 ++
                    Functions775_5 ++ Functions775_6 ++ Functions775_7 ++ Functions775_8
      [] v = 777 -> Functions777_1 ++ Functions777_2 ++ Functions777_3 ++ Functions777_4 ++
                    Functions777_5 ++ Functions777_6 ++ Functions777_7 ++ Functions777_8]

\* The number of types slot_component_type accepts.
MutantOnlyValidated == [v \in Versions |->
    CASE v = 766 -> 56 [] v = 767 -> 57 [] v \in 768..769 -> 67 [] v \in 770..773 -> 96
      [] v = 774 -> 104 [] v \in {775, 777} -> 110]
ComponentTypes == [v \in Versions |->
    CASE v = 766 -> 56 [] v = 767 -> 57 [] v \in 768..769 -> 67 [] v \in 770..773 -> 96
      [] v = 774 -> 104 [] v = 775 -> 110 [] v = 777 -> 122]

=============================================================================
