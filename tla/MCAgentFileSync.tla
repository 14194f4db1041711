-------------------------- MODULE MCAgentFileSync --------------------------
(* AgentFileSync instantiated for TLC: two config files of one namespace. *)
EXTENDS AgentFileSync

CONSTANTS f1, f2

MCFiles == {f1, f2}
MCOneFile == {f1}

(* An SDK that starts without the file. *)
MCSdkNone == {NoFile}
=============================================================================
