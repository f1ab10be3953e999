------------------------------ MODULE MCRecords ------------------------------
(***************************************************************************)
(* Components that keep a record of what somebody else knows or is owed:   *)
(* the agent's own identity, the store's policy, the inventory report, the *)
(* files the neighbours share, the notifications shown and the talk with   *)
(* the assistant.  They share no state that one of these properties is     *)
(* about, and are checked side by side: a behaviour runs the one it has in *)
(* focus, and the others stay as they began.                               *)
(***************************************************************************)
EXTENDS AgentContext, StorePolicy, Inventory, ArtifactDownload, NotificationCenter,
        ChatStream, TLC

\* The downloads are alike, and so are the neighbours asked.
Alike == Permutations(Pull) \cup Permutations(Peer)

VARIABLE focus

recordVars == <<focus, contextVars, storeVars, inventoryVars, artifactVars,
                notificationVars, chatVars>>

\* A component out of focus begins in one of its initial states only.
RecordsInit ==
    /\ focus \in {"context", "store", "inventory", "artifact", "notification", "chat"}
    /\ InitContext /\ (focus # "context" => installed = 1)
    /\ InitStore /\ InitInventory /\ InitArtifact
    /\ InitNotification /\ InitChat

RunContext ==
    /\ focus = "context" /\ NextContext
    /\ UNCHANGED <<focus, storeVars, inventoryVars, artifactVars,
                   notificationVars, chatVars>>
RunStore ==
    /\ focus = "store" /\ NextStore
    /\ UNCHANGED <<focus, contextVars, inventoryVars, artifactVars,
                   notificationVars, chatVars>>
RunInventory ==
    /\ focus = "inventory" /\ NextInventory
    /\ UNCHANGED <<focus, contextVars, storeVars, artifactVars,
                   notificationVars, chatVars>>
RunArtifact ==
    /\ focus = "artifact" /\ NextArtifact
    /\ UNCHANGED <<focus, contextVars, storeVars, inventoryVars,
                   notificationVars, chatVars>>
RunNotification ==
    /\ focus = "notification" /\ NextNotification
    /\ UNCHANGED <<focus, contextVars, storeVars, inventoryVars,
                   artifactVars, chatVars>>
RunChat ==
    /\ focus = "chat" /\ NextChat
    /\ UNCHANGED <<focus, contextVars, storeVars, inventoryVars,
                   artifactVars, notificationVars>>

RecordsNext ==
    \/ RunContext \/ RunStore \/ RunInventory \/ RunArtifact
    \/ RunNotification \/ RunChat

RecordsSpec == RecordsInit /\ [][RecordsNext]_recordVars

-----------------------------------------------------------------------------
\* The ranges of the variables of all six.
RecordsTypeOK ==
    /\ ContextTypeOK /\ StoreTypeOK /\ InventoryTypeOK
    /\ ArtifactTypeOK /\ NotificationTypeOK /\ ChatTypeOK
=============================================================================
