---------------------------- MODULE BlockRegistry ----------------------------
(***************************************************************************)
(* block_registry and sptr_magic: what names lead to a block.  A block's    *)
(* constructors and destructors enter and remove it step by step, in        *)
(* whatever thread makes or lets go of it, while others look it up by its   *)
(* name or alias; each call to the registry holds d_mutex throughout.       *)
(* A block is the place in memory it stands at, which may be used again.    *)
(***************************************************************************)
EXTENDS Naturals, Sequences, FiniteSets

CONSTANTS
    Places,       \* where blocks stand
    NameOf,       \* the name of the block made at each place
    Hiers,        \* the places of hierarchical blocks
    Aliases,
    Text,         \* each number as it is written, from 0 on
    MaxBorn,      \* bound: blocks constructed
    MaxRefs       \* bound: references to one block

VARIABLES
    d_map,         \* for each name, the places by their symbolic ids
    d_ref_map,     \* places by symbolic name or alias
    primitive_map, \* places of plain blocks, by symbolic name
    s_map,         \* hierarchical blocks whose first sptr waits for make()
    life,         \* how far each block is constructed or destroyed
    refs,          \* sptrs to it
    symbolic_id, d_symbol_alias,
    renaming,      \* the alias set_block_alias has entered and not yet assigned
    born           \* constructors begun

rvars == <<d_map, d_ref_map, primitive_map, s_map, life, refs, symbolic_id, d_symbol_alias, renaming, born>>

NoAlias == <<>>

\* The empty string is no alias: it would be entered in d_ref_map, and
\* alias_set() would deny it.
ASSUME AliasAssumption == NoAlias \notin Aliases
alias_set(b) == d_symbol_alias[b] # NoAlias
symbol_name(b) == NameOf[b] \o Text[symbolic_id[b]]
AliasOf(b) == IF alias_set(b) THEN {d_symbol_alias[b]} ELSE {}
NamesOf(b) == {symbol_name(b)} \cup AliasOf(b)

\* What a block is known by: while it is renamed, by its new alias.
KnownBy(b) == IF renaming[b] = NoAlias THEN NamesOf(b) ELSE {symbol_name(b), renaming[b]}

With(f, k, v) == [x \in DOMAIN f \cup {k} |-> IF x = k THEN v ELSE f[x]]
Less(f, ks)   == [x \in DOMAIN f \ ks |-> f[x]]
None == [x \in {} |-> 0]

RInit ==
    /\ d_map = [n \in {NameOf[b] : b \in Places} |-> None]
    /\ d_ref_map = None /\ primitive_map = None /\ s_map = {}
    /\ life = [b \in Places |-> "none"] /\ refs = [b \in Places |-> 0]
    /\ symbolic_id = [b \in Places |-> 0] /\ d_symbol_alias = [b \in Places |-> NoAlias]
    /\ renaming = [b \in Places |-> NoAlias] /\ born = 0

Reach(b, where) == life' = [life EXCEPT ![b] = where]

FreeId(ids) == CHOOSE i \in 0 .. Cardinality(DOMAIN ids) :
                  i \notin DOMAIN ids /\ \A k \in 0 .. i - 1 : k \in DOMAIN ids

\* basic_block's constructor: block_register ...
block_register(b) ==
    /\ life[b] = "none" /\ born < MaxBorn
    /\ born' = born + 1 /\ Reach(b, "registered")
    /\ symbolic_id' = [symbolic_id EXCEPT ![b] = FreeId(d_map[NameOf[b]])]
    /\ d_map' = [d_map EXCEPT ![NameOf[b]] = With(@, FreeId(@), b)]
    /\ UNCHANGED <<d_ref_map, primitive_map, s_map, refs, d_symbol_alias, renaming>>

\* Mutant: nobody looks whether a name is in use.
Taken_never(key) == FALSE
Taken_by(key) == key \in DOMAIN d_ref_map

\* ... and register_symbolic_name.  It throws when a block of another name, or
\* an alias, is written the same; no destructor runs then, and the id stays in
\* d_map, which nobody follows.
register_symbolic_name(b) ==
    /\ life[b] = "registered"
    /\ IF Taken_by(symbol_name(b)) THEN Reach(b, "none") /\ d_ref_map' = d_ref_map
       ELSE Reach(b, "named") /\ d_ref_map' = With(d_ref_map, symbol_name(b), b)
    /\ UNCHANGED <<d_map, primitive_map, s_map, refs, symbolic_id, d_symbol_alias, renaming, born>>

\* The constructor of hier_block2 or block.
Construct(b) ==
    /\ life[b] = "named" /\ Reach(b, "built")
    /\ IF b \in Hiers
       THEN s_map' = s_map \cup {b} /\ refs' = [refs EXCEPT ![b] = 1] /\ primitive_map' = primitive_map
       ELSE primitive_map' = With(primitive_map, symbol_name(b), b) /\ UNCHANGED <<s_map, refs>>
    /\ UNCHANGED <<d_map, d_ref_map, symbolic_id, d_symbol_alias, renaming, born>>

\* The constructor of the derived class returns, and make() gets the sptr ...
fetch_initial_sptr(b) ==
    /\ life[b] = "built" /\ Reach(b, "alive")
    /\ s_map' = s_map \ {b} /\ refs' = [refs EXCEPT ![b] = 1]
    /\ UNCHANGED <<d_map, d_ref_map, primitive_map, symbolic_id, d_symbol_alias, renaming, born>>

\* ... or throws: what has been constructed is destroyed.
ConstructorThrows(b) ==
    /\ life[b] = "built" /\ Reach(b, "dying")
    /\ UNCHANGED <<d_map, d_ref_map, primitive_map, s_map, refs, symbolic_id, d_symbol_alias, renaming, born>>

\* Whoever holds a reference names the block, one thread at a time: the registry
\* first, where a name in use throws, ...
set_block_alias(b, a) ==
    /\ life[b] = "alive" /\ renaming[b] = NoAlias /\ ~Taken_by(a)
    /\ d_ref_map' = With(Less(d_ref_map, AliasOf(b)), a, b)
    /\ renaming' = [renaming EXCEPT ![b] = a]
    /\ UNCHANGED <<d_map, primitive_map, s_map, life, refs, symbolic_id, d_symbol_alias, born>>

\* ... then the block.
AssignAlias(b) ==
    /\ renaming[b] # NoAlias
    /\ d_symbol_alias' = [d_symbol_alias EXCEPT ![b] = renaming[b]]
    /\ renaming' = [renaming EXCEPT ![b] = NoAlias]
    /\ UNCHANGED <<d_map, d_ref_map, primitive_map, s_map, life, refs, symbolic_id, born>>

\* A block that is being destroyed gives no reference: shared_from_this throws.
\* Others use a name once make() has returned.
block_lookup(key) ==
    /\ key \in DOMAIN d_ref_map
    /\ LET b == d_ref_map[key] IN
       /\ life[b] = "alive" /\ refs[b] < MaxRefs
       /\ refs' = [refs EXCEPT ![b] = @ + 1]
    /\ UNCHANGED <<d_map, d_ref_map, primitive_map, s_map, life, symbolic_id, d_symbol_alias, renaming, born>>

\* The thread that renames it keeps its reference.
Release(b) ==
    /\ life[b] = "alive" /\ refs[b] > (IF renaming[b] = NoAlias THEN 0 ELSE 1)
    /\ refs' = [refs EXCEPT ![b] = @ - 1]
    /\ IF refs[b] = 1 THEN Reach(b, "dying") ELSE life' = life
    /\ UNCHANGED <<d_map, d_ref_map, primitive_map, s_map, symbolic_id, d_symbol_alias, renaming, born>>

\* Mutant: a constructor that throws leaves its sptr in the map.
Cancelled_kept(m, b) == m
Cancelled(m, b) == m \ {b}

\* Mutant: it is removed under the name it goes by.
PrimitiveName_alias(b) == IF alias_set(b) THEN d_symbol_alias[b] ELSE symbol_name(b)
PrimitiveName(b) == symbol_name(b)

\* ~hier_block2, which disarms an sptr that make() never fetched, or ~block.
DestroyDerived(b) ==
    /\ life[b] = "dying" /\ Reach(b, "erased")
    /\ IF b \in Hiers
       THEN s_map' = Cancelled(s_map, b) /\ refs' = [refs EXCEPT ![b] = 0] /\ primitive_map' = primitive_map
       ELSE primitive_map' = Less(primitive_map, {PrimitiveName(b)}) /\ UNCHANGED <<s_map, refs>>
    /\ UNCHANGED <<d_map, d_ref_map, symbolic_id, d_symbol_alias, renaming, born>>

\* Mutant: the alias stays.
Removed_name(b) == {symbol_name(b)}
Removed(b) == NamesOf(b)

\* ~basic_block, and the memory is free.
block_unregister(b) ==
    /\ life[b] = "erased" /\ Reach(b, "none")
    /\ d_map' = [d_map EXCEPT ![NameOf[b]] = Less(@, {symbolic_id[b]})]
    /\ d_ref_map' = Less(d_ref_map, Removed(b))
    /\ d_symbol_alias' = [d_symbol_alias EXCEPT ![b] = NoAlias]
    /\ UNCHANGED <<primitive_map, s_map, refs, symbolic_id, renaming, born>>

RNext ==
    \/ \E b \in Places :
          \/ block_register(b) \/ register_symbolic_name(b) \/ Construct(b)
          \/ fetch_initial_sptr(b) \/ ConstructorThrows(b)
          \/ AssignAlias(b) \/ Release(b) \/ DestroyDerived(b) \/ block_unregister(b)
          \/ \E a \in Aliases : set_block_alias(b, a)
    \/ \E key \in DOMAIN d_ref_map : block_lookup(key)

-----------------------------------------------------------------------------
(* No name leads to memory that has been freed, or to a block that does not  *)
(* go by it: block_lookup follows every pointer it finds.                    *)
RefsAlive ==
    \A key \in DOMAIN d_ref_map :
        LET b == d_ref_map[key] IN
        life[b] \in {"named", "built", "alive", "dying", "erased"} /\ key \in KnownBy(b)

(* A block is found under its name and its alias as long as anybody holds    *)
(* it, whatever names other blocks take meanwhile; so no two blocks have one *)
(* name, though "x" with number 10 and "x1" with number 0 are written alike. *)
Findable ==
    \A b \in Places : life[b] = "alive" =>
        \A key \in KnownBy(b) : key \in DOMAIN d_ref_map /\ d_ref_map[key] = b

(* A plain block that is alive can be notified under its symbolic name, and  *)
(* no notification follows a pointer to one whose destructor has begun with  *)
(* its members.                                                              *)
PrimitivesAlive ==
    /\ \A key \in DOMAIN primitive_map : life[primitive_map[key]] \in {"built", "alive", "dying"}
    /\ \A b \in Places \ Hiers :
          life[b] = "alive" => symbol_name(b) \in DOMAIN primitive_map /\ primitive_map[symbol_name(b)] = b

(* An sptr is stashed only for a hierarchical block under construction: a    *)
(* constructor that throws leaves none behind for the next block at its      *)
(* place.                                                                    *)
StashLive == \A b \in s_map : life[b] \in {"built", "dying"}

(* block_registry and sptr_magic as a whole: whoever asks for a block by a   *)
(* name gets the living block of that name, and no pointer to a block        *)
(* outlives it.                                                              *)
RegistrySound == RefsAlive /\ Findable /\ PrimitivesAlive /\ StashLive
=============================================================================
