-------------------------- MODULE MCArtifactDownload --------------------------
(* ArtifactDownload for TLC, by itself and as the code has it. *)
EXTENDS ArtifactDownload

ArtifactSpec == InitArtifact /\ [][NextArtifact]_artifactVars
=============================================================================
