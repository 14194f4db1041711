---------------------------- MODULE AgentConfig ----------------------------
(***************************************************************************)
(* How the agent builds its configuration (cmd/agent/app/options.go):     *)
(* the command-line flags are parsed into a copy of the defaults, the     *)
(* config file is unmarshalled into an empty struct, and completeConfig   *)
(* merges the two over the defaults with the reflective ref.Diff and      *)
(* ref.Union (pkg/util/ref/reflect.go).  The comment on completeConfig    *)
(* promises "input args > load from file > default args".                 *)
(*                                                                         *)
(* A struct is a function from field names to values; a field of         *)
(* StructFields holds a nested struct.  Scalar values are abstracted to   *)
(* 0 (Go's zero value: "", 0, false), 1 (the default) and 2 (another      *)
(* value).  The agent's configuration has no slices, pointer fields or   *)
(* keys, so the slice and key branches of Diff and Union never run and    *)
(* are left out.  The struct is a part of AgentConfiguration: ID and      *)
(* WorkDir (flags with an empty and a non-empty default), GRPCPort (file  *)
(* only) and LeaderElection with LeaderElect and ResourceLock.            *)
(***************************************************************************)
EXTENDS Naturals

VARIABLES
    given,      \* the flags given on the command line
    argv,       \* the value given to each flag
    present,    \* the leaf fields the config file sets
    filev       \* the value the file gives each of them

vars == <<given, argv, present, filev>>

Leaves == {"ID", "WorkDir", "GRPCPort", "LeaderElect", "ResourceLock"}
StructFields == {"LeaderElection"}
Values == 0..2

(* The shape of AgentConfiguration: LeaderElection nests a struct.       *)
Shape(leaf) ==
    [ID |-> leaf["ID"], WorkDir |-> leaf["WorkDir"], GRPCPort |-> leaf["GRPCPort"],
     LeaderElection |-> [LeaderElect |-> leaf["LeaderElect"],
                         ResourceLock |-> leaf["ResourceLock"]]]

(* NewDefaultConfig: WorkDir, GRPCPort and ResourceLock have non-empty    *)
(* defaults, ID is empty and LeaderElect false.                          *)
DefaultLeaf == [ID |-> 0, WorkDir |-> 1, GRPCPort |-> 1, LeaderElect |-> 0, ResourceLock |-> 1]
Default == Shape(DefaultLeaf)

(* AddFlags: the flags bound into opt.config (of the fields modelled).    *)
Flags == {"ID", "WorkDir"}

(* NewOptions and pflag: opt.config is a default config whose flag       *)
(* fields the given flags overwrite.                                      *)
Input == Shape([l \in Leaves |-> IF l \in given THEN argv[l] ELSE DefaultLeaf[l]])

(* loadConfigFromFile: yaml.Unmarshal into an empty struct sets the       *)
(* fields the file names and leaves the others zero.                      *)
FileConfig == Shape([l \in Leaves |-> IF l \in present THEN filev[l] ELSE 0])

(* isBlank: a zero scalar, or a struct equal to the zero struct.         *)
RECURSIVE IsBlank(_, _)
IsBlank(v, f) ==
    IF f \in StructFields THEN \A g \in DOMAIN v : IsBlank(v[g], g) ELSE v = 0

(* Diff(x, y): x's fields that differ from y's; equal fields are zero,    *)
(* nested structs are diffed field by field.                             *)
RECURSIVE Diff(_, _)
Diff(x, y) ==
    [f \in DOMAIN x |-> IF f \in StructFields THEN Diff(x[f], y[f])
                        ELSE IF x[f] # y[f] THEN x[f] ELSE 0]

(* Union(x, y): a copy of x (of x itself when the two are deeply equal)   *)
(* whose fields y sets to a non-blank value are overwritten by y's,       *)
(* nested structs merged by Union.                                        *)
RECURSIVE Union(_, _)
Union(x, y) ==
    IF x = y THEN x
    ELSE [f \in DOMAIN x |-> IF IsBlank(y[f], f) THEN x[f]
                             ELSE IF f \in StructFields THEN Union(x[f], y[f])
                             ELSE y[f]]

(* completeConfig: input = Diff(opt.config, def), load = Diff(cfg, def),  *)
(* du = Union(load, input), and the result Union(def, du).               *)
completeConfig ==
    Union(Default, Union(Diff(FileConfig, Default), Diff(Input, Default)))

(* Any command line over the flags, and any file over the leaves.         *)
Init ==
    /\ given \in SUBSET Flags
    /\ argv \in [given -> Values]
    /\ present \in SUBSET Leaves
    /\ filev \in [present -> Values]

(* The configuration is built once, at start-up.                         *)
Next == UNCHANGED vars

Spec == Init /\ [][Next]_vars

-----------------------------------------------------------------------------
(* Properties.                                                             *)

TypeOK ==
    /\ given \subseteq Flags /\ argv \in [given -> Values]
    /\ present \subseteq Leaves /\ filev \in [present -> Values]

(* The order completeConfig's comment states, field by field: a value     *)
(* given on the command line wins, else a value the file sets, else the   *)
(* default.                                                                *)
Intended == Shape([l \in Leaves |-> IF l \in given THEN argv[l]
                                    ELSE IF l \in present THEN filev[l]
                                    ELSE DefaultLeaf[l]])

(* completeConfig implements "input args > load from file > default args"  *)
(* for every command line and every config file.                          *)
InputOverFileOverDefault == completeConfig = Intended
=============================================================================
