--------------------------- MODULE AtomicFileStore ---------------------------
(***************************************************************************)
(* What a file db driver promises for one path, as its callers use it:    *)
(* the path holds one stored content or nothing readable; a store         *)
(* replaces the content whole; a read returns the content held at one     *)
(* moment together with its own digest, or fails when nothing readable is *)
(* held.  A store in progress, or interrupted by a restart, may leave the *)
(* path unreadable.  A content stands for its digest.  FileStore's        *)
(* drivers are checked against this.                                      *)
(***************************************************************************)
CONSTANTS Readers, Contents

None == "None"
NoRes == [op |-> "none", d |-> None, c |-> None]   \* nothing read yet
Err == [op |-> "err", d |-> None, c |-> None]      \* the read failed

VARIABLES stored, res

Result == {NoRes, Err} \cup [op : {"get", "exists"}, d : Contents, c : Contents \cup {None}]

Init == stored = None /\ res = [r \in Readers |-> NoRes]

Store(c) == stored' = c /\ UNCHANGED res

Spoil == stored' = None /\ UNCHANGED res

Get(r) ==
    /\ res' = [res EXCEPT ![r] = IF stored = None THEN Err
                                 ELSE [op |-> "get", d |-> stored, c |-> stored]]
    /\ UNCHANGED stored

Exists(r) ==
    /\ res' = [res EXCEPT ![r] = IF stored = None THEN Err
                                 ELSE [op |-> "exists", d |-> stored, c |-> None]]
    /\ UNCHANGED stored

Forget == res' = [r \in Readers |-> NoRes] /\ UNCHANGED stored

Next == Spoil \/ Forget \/ (\E c \in Contents : Store(c))
        \/ \E r \in Readers : Get(r) \/ Exists(r)

Spec == Init /\ [][Next]_<<stored, res>>
=============================================================================
