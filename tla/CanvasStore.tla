----------------------------- MODULE CanvasStore -----------------------------
(***************************************************************************)
(* What the hub promises about the contents of its canvases: every request *)
(* takes effect at one instant, or has no effect.  HubContent, which has   *)
(* the handlers' steps, implements it.                                     *)
(*                                                                         *)
(* A directory is a function from its files to their contents, and a       *)
(* content is the set of requests that contributed to it.                  *)
(***************************************************************************)
EXTENDS Sequences, Integers

CONSTANTS Canvas, File, Req, Absent

VARIABLES
    content,    \* the directory of each canvas, or Absent
    versions    \* its snapshots, oldest first

vars == <<content, versions>>

Dir == UNION {[F -> SUBSET Req] : F \in SUBSET File}

Original == [f \in File |-> {}]
Pushed(r) == [f \in File |-> {r}]

Init == /\ content \in [Canvas -> {Absent, Original}]
        /\ versions = [i \in Canvas |-> <<>>]

\* A push replaces the whole directory.
Push(i, r) == /\ content' = [content EXCEPT ![i] = Pushed(r)]
              /\ UNCHANGED versions

\* A file is replaced, or made, in a canvas that exists.
Put(i, f, r) ==
    /\ content[i] # Absent
    /\ content' = [content EXCEPT ![i] =
                      [g \in DOMAIN @ \cup {f} |-> IF g = f THEN {r} ELSE @[g]]]
    /\ UNCHANGED versions

\* An edit keeps what every earlier edit put in the file.
Edit(i, f, r) ==
    /\ content[i] # Absent /\ f \in DOMAIN content[i]
    /\ content' = [content EXCEPT ![i][f] = @ \cup {r}]
    /\ UNCHANGED versions

Copy(from, to) ==
    /\ content[from] # Absent
    /\ content' = [content EXCEPT ![to] = content[from]]
    /\ UNCHANGED versions

Snapshot(i) ==
    /\ content[i] # Absent
    /\ versions' = [versions EXCEPT ![i] = Append(@, content[i])]
    /\ UNCHANGED content

Revert(i, k) ==
    /\ content' = [content EXCEPT ![i] = versions[i][k]]
    /\ UNCHANGED versions

Next == \E i \in Canvas :
            \/ \E r \in Req : Push(i, r)
            \/ \E r \in Req, f \in File : Put(i, f, r) \/ Edit(i, f, r)
            \/ \E from \in Canvas : Copy(from, i)
            \/ Snapshot(i)
            \/ \E k \in DOMAIN versions[i] : Revert(i, k)

Spec == Init /\ [][Next]_vars
=============================================================================
