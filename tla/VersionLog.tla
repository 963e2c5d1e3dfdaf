----------------------------- MODULE VersionLog -----------------------------
(***************************************************************************)
(* What the version manager promises while no version is pruned: each file *)
(* has an append-only log of contents, version n is its n-th entry, and a  *)
(* call of createVersion either appends one entry in one step or changes   *)
(* nothing.  An entry is never overwritten; only deleting the file removes *)
(* its log.                                                                *)
(***************************************************************************)
EXTENDS Sequences

CONSTANTS Files,     \* file ids
          Contents   \* the chunk lists a version may have

VARIABLES present,   \* files that exist
          log        \* log[f] is the sequence of the contents of f's versions

logVars == <<present, log>>

LogInit ==
    /\ present = Files
    /\ log = [f \in Files |-> << >>]

AppendVersion(f, content) ==
    /\ f \in present
    /\ log' = [log EXCEPT ![f] = Append(@, content)]
    /\ UNCHANGED present

RemoveFile(f) ==
    /\ f \in present
    /\ present' = present \ {f}
    /\ log' = [log EXCEPT ![f] = << >>]

LogNext ==
    \E f \in Files :
        \/ RemoveFile(f)
        \/ \E content \in Contents : AppendVersion(f, content)

LogSpec == LogInit /\ [][LogNext]_logVars
=============================================================================
