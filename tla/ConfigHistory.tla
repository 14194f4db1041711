---------------------------- MODULE ConfigHistory ----------------------------
(***************************************************************************)
(* What the config server promises for one config file, as its users see  *)
(* it: an append-only history of contents (the versions) and an          *)
(* append-only list of releases, each naming a version.  An edit adds a   *)
(* version only when the content changes; a release needs a version newer *)
(* than the last release; a rollback adds a version carrying the content  *)
(* of the release before the last one.  ConfigServer refines this.        *)
(***************************************************************************)
EXTENDS Naturals, Sequences

CONSTANTS Contents, MaxVer, MaxRel

VARIABLES hist, rels

LastOf(s) == s[Len(s)]

Init == hist = <<>> /\ rels = <<>>

Create(c) ==
    /\ hist = <<>>
    /\ hist' = <<c>>
    /\ UNCHANGED rels

Edit(c) ==
    /\ hist # <<>>
    /\ Len(hist) < MaxVer
    /\ c # LastOf(hist)
    /\ hist' = Append(hist, c)
    /\ UNCHANGED rels

Release ==
    /\ hist # <<>>
    /\ Len(rels) < MaxRel
    /\ rels = <<>> \/ LastOf(rels) # Len(hist)
    /\ rels' = Append(rels, Len(hist))
    /\ UNCHANGED hist

Rollback ==
    /\ Len(rels) >= 2
    /\ Len(hist) < MaxVer
    /\ hist' = Append(hist, hist[rels[Len(rels) - 1]])
    /\ UNCHANGED rels

Next == Release \/ Rollback \/ \E c \in Contents : Create(c) \/ Edit(c)

Spec == Init /\ [][Next]_<<hist, rels>>
=============================================================================
