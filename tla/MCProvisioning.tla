--------------------------- MODULE MCProvisioning ---------------------------
(***************************************************************************)
(* How the agent comes by its credentials, by the rest of its              *)
(* configuration and by its neighbours.  The three share no state; they    *)
(* are checked side by side, a behaviour running one of them.              *)
(***************************************************************************)
EXTENDS Provisioning, AgentConfig, PeerDiscovery

\* b starts again once, with a new key.
TwoHostsOfB == [a \in {"a", "b"} |-> IF a = "a" THEN 1 ELSE 2]

\* A pinned one, one that leaves switches as they are, and one that takes back.
ConfigurationOf(hash, enforce, handshake, p2pSwitch, site) ==
    [hash |-> hash, enforce |-> enforce, handshake |-> handshake, p2p |-> p2pSwitch, site |-> site]
ThreeConfigurations ==
    {ConfigurationOf("A", "on", "absent", "off", 1), ConfigurationOf("B", "absent", "on", "absent", 2),
     ConfigurationOf("", "off", "off", "on", 1)}

VARIABLE focus

agentVars == <<focus, provisioningVars, configVars, discoveryVars>>

AgentInit ==
    /\ focus \in {"credentials", "settings", "neighbours"}
    /\ InitProvisioning /\ (focus # "credentials" => override = "none" /\ regs = 0 /\ file.data.key)
    /\ InitAgentConfig /\ (focus # "settings" => connection.known /\ answer.of.hash = "A")
    /\ InitDiscovery

RunProvisioning ==
    focus = "credentials" /\ NextProvisioning /\ UNCHANGED <<focus, configVars, discoveryVars>>
RunAgentConfig ==
    focus = "settings" /\ NextAgentConfig /\ UNCHANGED <<focus, provisioningVars, discoveryVars>>
RunDiscovery ==
    focus = "neighbours" /\ NextDiscovery /\ UNCHANGED <<focus, provisioningVars, configVars>>

AgentSpec == AgentInit /\ [][RunProvisioning \/ RunAgentConfig \/ RunDiscovery]_agentVars
=============================================================================
