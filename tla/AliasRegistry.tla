---------------------------- MODULE AliasRegistry ----------------------------
(***************************************************************************)
(* AliasRegistry (alias.rs): the four maps that a birth fills and that     *)
(* data of the same scope is read with.  A registry is a value; bind and   *)
(* try_bind give the next one.  An absent option is None.                  *)
(***************************************************************************)
EXTENDS Integers, Sequences

LOCAL INSTANCE SequencesExt
LOCAL INSTANCE TLC

CONSTANT None

\* Registry with every map empty: new, and what clear leaves.
Cleared ==
    [name_to_alias |-> << >>, alias_to_name |-> << >>, dt_by_name |-> << >>, dt_by_alias |-> << >>]

\* HashMap::insert and get.
LOCAL Insert(map, key, v) == (key :> v) @@ map
LOCAL Find(map, key) == IF key \in DOMAIN map THEN map[key] ELSE None

\* Overwrites the binding of the same name and that of the same alias; what they
\* were bound to before keeps its own half.
Bind(reg, name, alias, type) ==
    LET named == [reg EXCEPT !.dt_by_name = Insert(@, name, type)] IN
    IF alias = None
    THEN named
    ELSE [named EXCEPT
            !.name_to_alias = Insert(@, name, alias),
            !.alias_to_name = Insert(@, alias, name),
            !.dt_by_alias = Insert(@, alias, type)]

\* An alias that belongs to another name.
Duplicate(reg, name, alias) ==
    alias # None /\ Find(reg.alias_to_name, alias) \notin {None, name}

\* try_bind: Err leaves the registry as it is.
TryBind(reg, name, alias, type) ==
    IF Duplicate(reg, name, alias) THEN reg ELSE Bind(reg, name, alias, type)

DatatypeForName(reg, name) == Find(reg.dt_by_name, name)
DatatypeForAlias(reg, alias) == Find(reg.dt_by_alias, alias)
NameForAlias(reg, alias) == Find(reg.alias_to_name, alias)
AliasForName(reg, name) == Find(reg.name_to_alias, name)

-----------------------------------------------------------------------------
(* A host binds a birth: clear, then try_bind for each metric that has a   *)
(* name.                                                                   *)

LOCAL Bound(metrics, n) ==
    FoldLeft(LAMBDA reg, m : IF m.name = None THEN reg ELSE TryBind(reg, m.name, m.alias, m.type),
             Cleared, SubSeq(metrics, 1, n))

BindBirth(metrics) == Bound(metrics, Len(metrics))

\* One of the try_binds returns Err.
DuplicateAlias(metrics) ==
    \E n \in DOMAIN metrics :
        /\ metrics[n].name # None
        /\ Duplicate(Bound(metrics, n - 1), metrics[n].name, metrics[n].alias)

\* A host completes the names of data that was decoded with reg.
ResolveNames(reg, metrics) ==
    [n \in DOMAIN metrics |->
        IF metrics[n].name = None /\ metrics[n].alias # None
        THEN [metrics[n] EXCEPT !.name = NameForAlias(reg, metrics[n].alias)]
        ELSE metrics[n]]
=============================================================================
