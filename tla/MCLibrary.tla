----------------------------- MODULE MCLibrary -----------------------------
(***************************************************************************)
(* The components of the libraries that do not call each other, in one      *)
(* instance: a behaviour is one of a single component, the subject.         *)
(***************************************************************************)
EXTENDS ThreadBundle, SmartPtr, UserMempool, Storage, Singleton,
        Element, SnmpTable, XmlAgent

CONSTANT Subjects       \* the components that are looked at

VARIABLE subject

MCUses == [t \in Types |-> IF t = "timers" THEN <<"trace">> ELSE <<>>]
MCUsesAtEnd == [t \in Types |-> IF t = "timers" THEN <<"trace", "log">> ELSE <<>>]

\* What UsedOutlivesUser needs holds of these constructors and destructors.
ASSUME RankedAssumption == RankedAtEnd

MCMandatory == <<"agent", "log">>
MCIndices == {<<1, 1>>, <<1, 2>>, <<2, 1>>}
MCRemovedBy == MCIndices \cup {<<1>>}

LibraryInit ==
    /\ subject \in Subjects
    /\ BundleInit /\ PtrInit /\ PoolInit /\ StorageInit /\ HolderInit
    /\ ElementInit /\ TableInit /\ AgentInit

Idle(s, v) == subject # s => UNCHANGED v

LibraryNext ==
    /\ \/ subject = "thread bundle" /\ BundleNext
       \/ subject = "smart pointer" /\ PtrNext
       \/ subject = "user pool" /\ PoolNext
       \/ subject = "storage" /\ StorageNext
       \/ subject = "singleton" /\ HolderNext
       \/ subject = "element" /\ ElementNext
       \/ subject = "table" /\ TableNext
       \/ subject = "agent" /\ AgentNext
    /\ Idle("thread bundle", bundleVars)
    /\ Idle("smart pointer", ptrVars) /\ Idle("user pool", poolVars)
    /\ Idle("storage", storageVars) /\ Idle("singleton", holderVars)
    /\ Idle("element", elementVars) /\ Idle("table", tableVars)
    /\ Idle("agent", agentVars)
    /\ UNCHANGED subject

allVars == <<subject, bundleVars, ptrVars, poolVars, storageVars, holderVars,
             elementVars, tableVars, agentVars>>

LibrarySpec == /\ LibraryInit /\ [][LibraryNext]_allVars
               /\ HolderFairness
               /\ subject # "agent" \/ AgentFairness
=============================================================================
