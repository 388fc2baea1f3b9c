----------------------------- MODULE MountTree -----------------------------
(***************************************************************************)
(* The mounts of one mount namespace, as the kernel keeps them and as      *)
(* inject.rs changes them.                                                 *)
(*                                                                         *)
(* A path is a sequence of names.  A mount sits on another mount at a      *)
(* path, and two mounts never sit on the same one at the same path, so a   *)
(* mount is named by the paths from the root mount down to it: <<a>> is    *)
(* mounted on the root at a, <<a, a>> is stacked on it, and <<a, b>> is    *)
(* mounted on <<a>> at b.  A tree maps those names to what is mounted.     *)
(***************************************************************************)
EXTENDS Integers, Sequences, SequencesExt

\* No mount but the root.
Bare == [k \in {} |-> {}]

\* The elements of s that are in T, in their order.
Those(s, T) ==
    FoldLeft(LAMBDA chosen, x : IF x \in T THEN Append(chosen, x) ELSE chosen, <<>>, s)

Parent(p) == SubSeq(p, 1, Len(p) - 1)

\* p with the prefix d taken off.
Below(d, p) == SubSeq(p, Len(d) + 1, Len(p))

\* The mount a path leads to: at each directory on the way the walk goes to
\* the last mount stacked there.
Top(tree, p) ==
    LET Stacked(k, q) ==
            {j \in DOMAIN tree \union {k} :
                IsPrefix(k, j) /\ \A i \in Len(k) + 1 .. Len(j) : j[i] = q}
        Walk[n \in 0 .. Len(p)] ==
            IF n = 0
            THEN <<>>
            ELSE LET q == SubSeq(p, 1, n)
                 IN CHOOSE j \in Stacked(Walk[n - 1], q) : Append(j, q) \notin DOMAIN tree
    IN Walk[Len(p)]

IsMountPoint(tree, p) ==
    LET t == Top(tree, p) IN t # <<>> /\ Last(t) = p

\* The mounts that go when k is unmounted.
Subtree(tree, k) == {j \in DOMAIN tree : IsPrefix(k, j)}

Without(tree, gone) == [k \in DOMAIN tree \ gone |-> tree[k]]

\* Attach: move_mount onto what is visible at p.
Attach(tree, p, what) ==
    LET k == Append(Top(tree, p), p)
    IN [j \in DOMAIN tree \union {k} |-> IF j = k THEN what ELSE tree[j]]

\* Detach: the mount on top at p, with everything on it.
Detach(tree, p) == Without(tree, Subtree(tree, Top(tree, p)))

\* Replace: the tree `new` takes the place of the mount on top at p, whose
\* own mounts go with it.  The root of `new` is the mount at p.
Replace(tree, p, what) ==
    LET k == Top(tree, p)
    IN [j \in DOMAIN Detach(tree, p) \union {k} |-> IF j = k THEN what ELSE tree[j]]

============================================================================
