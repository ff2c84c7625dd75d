------------------------------ MODULE Element ------------------------------
(***************************************************************************)
(* hyperon::element (hyperon/element.cpp): the children of one node of the  *)
(* configuration tree.  They are kept twice, in the list _elements and in   *)
(* the multimap _elementsHash from an index item (a name with the values of *)
(* the key attributes) to a place of the list.  Children of the types that  *)
(* the element map declares mandatory are made on first use, as not loaded  *)
(* placeholders filed under the bare name, and again whenever the list has  *)
(* become empty.                                                            *)
(***************************************************************************)
EXTENDS Naturals, Sequences, FiniteSets, SequencesExt

CONSTANTS
    Names,          \* the names of the element map
    Keyed,          \* those whose type has a key attribute
    Mandatory,      \* the MANDATORY_ELEMENT_ENTRYs, in their order
    Keys,           \* values of a key attribute
    Unknown,        \* a name that is not in the map
    MaxChildren,    \* bound on the children
    MaxStored       \* bound on the children of a stored element

ASSUME MapAssumption == /\ Mandatory \in Seq(Names) /\ IsInjective(Mandatory)
                        /\ Keyed \subseteq Names /\ Unknown \notin Names
                        /\ MaxChildren \in Nat /\ MaxStored \in Nat

VARIABLES elements,      \* _elements, a sequence of objects
          hash,          \* _elementsHash, a set of <<index item, object>>
          child          \* what the objects are: name, keys, loaded

elementVars == <<elements, hash, child>>

Objects == 1 .. MaxChildren + Len(Mandatory)
Absent == [name |-> Unknown, keys |-> <<>>, loaded |-> FALSE]

Item(n, k) == [name |-> n, keys |-> k]
Bare(n) == Item(n, <<>>)
IndexItem(e) == Item(e.name, e.keys)
Wellformed == {Bare(n) : n \in Names \ Keyed}
                \cup {Item(n, <<k>>) : n \in Keyed, k \in Keys}
Items == Wellformed \cup {Bare(n) : n \in Names \cup {Unknown}}

\* The three containers travel through the operators below as one record.
Tree == [list |-> elements, hash |-> hash, child |-> child]
Becomes(t) == elements' = t.list /\ hash' = t.hash /\ child' = t.child

Unused(t) == CHOOSE o \in Objects : t.child[o] = Absent
                                    /\ \A p \in Objects : t.child[p] = Absent => o <= p

\* insert at the end of the list, and in the multimap.
Filed(t, e) ==
    LET o == Unused(t) IN
    [list |-> Append(t.list, o),
     hash |-> t.hash \cup {<<IndexItem(e), o>>},
     child |-> [t.child EXCEPT ![o] = e]]

\* The list l without the objects of S.
Without(l, S) == FoldLeft(LAMBDA k, o : IF o \in S THEN k ELSE Append(k, o), <<>>, l)

\* delete *itEl and the two erases, for the objects of S.
Dropped(t, S) ==
    [list |-> Without(t.list, S),
     hash |-> {h \in t.hash : h[2] \notin S},
     child |-> [o \in Objects |-> IF o \in S THEN Absent ELSE t.child[o]]]

Under(t, item) == {h[2] : h \in {g \in t.hash : g[1] = item}}

\* getElements, getElementsHash, getFactory: initElements if _elements is empty.
Ready(t) ==
    IF t.list # <<>> THEN t
    ELSE FoldLeft(LAMBDA u, n : Filed(u, [name |-> n, keys |-> <<>>, loaded |-> FALSE]),
                  t, Mandatory)

\* Mistake: placeholders are looked for under the index of the new child.
AddedByIndex(t, n, k) ==
    LET u == Ready(t)
        stale == {o \in Under(u, Item(n, k)) : ~u.child[o].loaded}
    IN  Filed(Dropped(u, stale), [name |-> n, keys |-> k, loaded |-> TRUE])

\* addElement(element*).  The search under the full index finds loaded
\* children only: those that are not are filed under a bare name, and gone.
Added(t, n, k) ==
    LET u == Ready(t)
        stale == {o \in Under(u, Bare(n)) : ~u.child[o].loaded}
    IN  Filed(Dropped(u, stale), [name |-> n, keys |-> k, loaded |-> TRUE])

ElementInit == elements = <<>> /\ hash = {} /\ child = [o \in Objects |-> Absent]

\* findElement for an index of one item, on a node without keys of its own: what
\* the multimap finds answers when it has the index itself.
Finds(t, item) == \E o \in Under(t, item) : IndexItem(t.child[o]) = item

\* addElement(index_item): throws if there is such a child, does nothing for an
\* unknown name, throws on a wrong number of keys; the list is initialised
\* in every case.
AddElement(item) ==
    LET t == Ready(Tree) IN
    /\ Len(t.list) < MaxChildren
    /\ Becomes(IF ~Finds(t, item) /\ item \in Wellformed
                 THEN Added(t, item.name, item.keys) ELSE t)

RemoveElements(item) ==
    LET t == Ready(Tree) IN
    Becomes(Dropped(t, Under(t, item)))

\* The children of a stored element, in order: a name and a value each.
Stored == {Item(n, <<k>>) : n \in Names \cup {Unknown}, k \in Keys}
KeysOf(s) == IF s.name \in Keyed THEN s.keys ELSE <<>>

\* Mistake: a stored child that exists already is skipped.
LoadChildOnce(t, s) ==
    LET u == Ready(t) IN
    IF s.name \in Names /\ ~Finds(u, Item(s.name, KeysOf(s)))
      THEN Added(u, s.name, KeysOf(s)) ELSE u

LoadChild(t, s) ==
    LET u == Ready(t) IN
    IF s.name \in Names THEN Added(u, s.name, KeysOf(s)) ELSE u

\* fromStorage: the factory makes the children of known names, which load
\* themselves and are added whether or not they exist.
FromStorage(doc) ==
    /\ Len(elements) + Len(doc) <= MaxChildren
    /\ Becomes(FoldLeft(LoadChild, Tree, doc))

Docs == UNION {[1 .. n -> Stored] : n \in 0 .. MaxStored}

\* toStorage, findElement and getElements initialise the list.
Look == Becomes(Ready(Tree))

ElementNext == \/ \E item \in Items : AddElement(item) \/ RemoveElements(item)
               \/ \E doc \in Docs : FromStorage(doc)
               \/ Look

ElementSpec == ElementInit /\ [][ElementNext]_elementVars
-----------------------------------------------------------------------------
ToStorage(t) == [i \in DOMAIN t.list |-> t.child[t.list[i]].name]

\* The list and the multimap hold the same objects, each once, filed under the
\* index it answers to; every object that lives is in them, and none that was
\* deleted.
HashFollowsList ==
    /\ IsInjective(elements)
    /\ hash = {<<IndexItem(child[o]), o>> : o \in ToSet(elements)}
    /\ ToSet(elements) = {o \in Objects : child[o] # Absent}

\* A placeholder stands only for a name of which nothing has been added, once,
\* and it has no keys.
PlaceholderAlone ==
    \A o \in ToSet(elements) : ~child[o].loaded =>
        /\ child[o].keys = <<>> /\ child[o].name \in ToSet(Mandatory)
        /\ \A p \in ToSet(elements) \ {o} : child[p].name # child[o].name

\* findElement through the multimap and getElements through the list tell the same
\* tree, in which a placeholder gives way to the first child that is added.
ChildrenSound == HashFollowsList /\ PlaceholderAlone

\* A stored element that is loaded into a new one and stored again is what it
\* was, in its order, after the mandatory children that it lacks; names that
\* the map does not know are lost.
StoredAgain ==
    [][elements = <<>> /\ elements' # <<>> =>
       \A doc \in Docs \ {<<>>} : FromStorage(doc) =>
          LET names == [i \in DOMAIN doc |-> doc[i].name] IN
          ToStorage(Tree)' =
             Without(Mandatory, ToSet(names)) \o Without(names, {Unknown})]_elementVars
=============================================================================
