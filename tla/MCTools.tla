------------------------------- MODULE MCTools -------------------------------
(***************************************************************************)
(* Tools for TLC: in a behaviour only the one moves that `which' names.    *)
(***************************************************************************)
EXTENDS Tools, TLC

CONSTANTS P1, P2, C1, C2, F1, F2, A, B

VARIABLE which

-----------------------------------------------------------------------------
(* LocalStore: two processes, two canvases of two files.                   *)

\* One batch that can be made, and one that fails at its second edit.
Rewrite == <<[old |-> A, new |-> <<B, B>>, all |-> FALSE], [old |-> B, new |-> <<A>>, all |-> TRUE]>>
Breaks == <<[old |-> A, new |-> <<B>>, all |-> TRUE], [old |-> A, new |-> <<B>>, all |-> TRUE]>>

Edit(c, edits) == [op |-> "edit", c |-> c, f |-> F1, edits |-> edits]
Write(c) == [op |-> "write", c |-> c, f |-> F2, body |-> <<B>>]
Snap(c) == [op |-> "snap", c |-> c]
Revert(c, name) == [op |-> "revert", c |-> c, name |-> name]
Copy(overwrite) == [op |-> "copy", c |-> C1, to |-> C2, overwrite |-> overwrite]
Rm(c) == [op |-> "rm", c |-> c]

LocalScenarios ==
    LET Pair(s, t) == (P1 :> s) @@ (P2 :> t)
    IN  { Pair(<<Snap(C1), Revert(C1, 0)>>, <<Write(C1), Edit(C1, Rewrite)>>),
          Pair(<<Snap(C1), Edit(C1, Rewrite), Revert(C1, 1)>>, <<Revert(C1, 0)>>),
          Pair(<<Snap(C2), Write(C2), Revert(C2, 1), Rm(C2)>>, <<Copy(TRUE), Edit(C2, Breaks)>>),
          Pair(<<Rm(C2), Copy(FALSE), Snap(C2)>>, <<Write(C2), Copy(TRUE), Revert(C2, 0)>>) }

Held(files, body) == [n \in {F1, F2, P1, P2} |-> IF n \in files THEN body ELSE None]
LocalContents ==
    {(<<"live", C1>> :> Held({F1, F2}, <<A>>)) @@ (<<"live", C2>> :> Held({F2}, <<A, A>>))}

-----------------------------------------------------------------------------
(* HubTools: one agent's tools per workload, with inputs that are turned   *)
(* down; -1 and -2 are NotAName and Dots.                                  *)

Tool(tool, c) == [tool |-> tool, id |-> c]
Put(path, body) == [tool |-> "write_file", id |-> C1, path |-> path, body |-> body]
Patch(path, single, batch, new) ==
    [tool |-> "edit_file", id |-> C1, path |-> path, single |-> single, batch |-> batch,
     edits |-> <<[old |-> A, new |-> new, all |-> FALSE]>>]
Return(c, name) == [tool |-> "revert", id |-> c, name |-> name]
Duplicate(from, to, overwrite) == [tool |-> "copy_canvas", id |-> from, to |-> to, overwrite |-> overwrite]
Share(k, target) == [tool |-> "share_canvas", id |-> C1, kind |-> k, target |-> target]

Files == {Put("dotted", <<B>>), Put("escapes", <<B>>), Put("plain", <<A, A, A>>),
          Patch("plain", TRUE, FALSE, <<B>>), Patch("dotted", FALSE, TRUE, <<A, B>>),
          Patch("plain", TRUE, TRUE, <<B>>), Tool("add", C1), Return(C1, -2)}
Versions == {Tool("snap", C1), Return(C1, 0), Return(C1, 1), Return(C1, -1),
             Put("plain", <<B>>)}
Canvases == {Tool("add", C1), Tool("rm", C1), Tool("add", BadId),
             Duplicate(C2, C1, TRUE), Duplicate(C1, C2, FALSE),
             Share("user", "t"), Share("link", ""), Share("user", "")}
HubWorkloads == {Files, Versions, Canvases}
HubInitial == (C1 :> <<A>>) @@ (C2 :> <<B>>)

-----------------------------------------------------------------------------

\* Those that do not move start at one state of their own.
MCInit ==
    /\ which \in {"daemon", "local", "hub"}
    /\ Init /\ (which # "local" => left = CHOOSE s \in Scenarios : TRUE)
    /\ Hub!Init /\ (which # "hub" => work = Files)
    /\ Spawn!Init /\ (which # "daemon" => daemon = [d \in Daemon |-> "unborn"])

MCNext ==
    \/ which = "local" /\ Next /\ UNCHANGED <<which, hubVars, spawnVars>>
    \/ which = "hub" /\ Hub!Next /\ UNCHANGED <<which, vars, spawnVars>>
    \/ which = "daemon" /\ Spawn!Next /\ UNCHANGED <<which, vars, hubVars>>

MCSpec == MCInit /\ [][MCNext]_<<which, vars, hubVars, spawnVars>>

Symm == Permutations(Daemon)
=============================================================================
