---------------------------- MODULE ConfigWatch ----------------------------
(***************************************************************************)
(* The config watch (supervisor.rs watch_config and ConfigWatch): a config *)
(* is evaluated again whenever something changes in a directory it read.   *)
(*                                                                         *)
(* The config file is in `sandboxes`, which always exists; it may import a *)
(* file in `profiles`, which comes and goes inside `config`.  What a file  *)
(* says is its version.  Inotify watches are on directories as they are,   *)
(* not on their paths, and have descriptors that are never used again.     *)
(***************************************************************************)
EXTENDS Integers, Sequences, SequencesExt

CONSTANTS
    MaxChanges,     \* bound on changes of files and directories
    None            \* no directory, nothing read

VARIABLES
    files,          \* the versions of the config and of the import (0: not
                    \* there), and what kind of config it is
    dir,            \* the directory at `profiles`: its identity, or None
    dirs,           \* directories made so far
    changes,        \* changes so far
    watches,        \* the kernel's watches: descriptor -> directory
    wds,            \* descriptors given out
    queue,          \* inotify events
    watched,        \* ConfigWatch.watched: path -> descriptor
    phase,          \* what the thread does
    read,           \* what this evaluation has read
    want,           \* the directories the evaluation is to be watched by
    seen,           \* what the last evaluation read
    blind           \* a change the watch does not see has happened

vars == << files, dir, dirs, changes, watches, wds, queue, watched, phase, read, want, seen, blind >>

Paths == {"config", "sandboxes", "profiles"}
Kinds == {"plain", "imports", "broken"}
Phases == {"idle", "watchMain", "readMain", "watchImport", "readImport", "dirs", "add"}

\* The directories that stay, and the one at a path.
ConfigDir == -1
SandboxesDir == -2
DirAt(path) == CASE path = "config" -> ConfigDir
                 [] path = "sandboxes" -> SandboxesDir
                 [] OTHER -> dir

\* What an evaluation would read now; 0 for an import that is not there.
Current == [main   |-> files.main,
            kind   |-> files.kind,
            import |-> IF files.kind = "imports" THEN files.import ELSE 0]

\* The kernel's queue holds at most one event of a kind for a watch that was
\* not read yet in a row.
Post(q, e) == IF q # <<>> /\ q[Len(q)] = e THEN q ELSE Append(q, e)

Event(wd) == [wd |-> wd, ignored |-> FALSE]
Ignored(wd) == [wd |-> wd, ignored |-> TRUE]

\* The events of a change in directory d.
Posted(d) ==
    LET wd == {w \in DOMAIN watches : watches[w] = d}
    IN IF wd = {} THEN queue ELSE Post(queue, Event(CHOOSE w \in wd : TRUE))

Init ==
    /\ files \in [main : {1}, import : {0, 1}, kind : Kinds]
    /\ dir \in {None, 1}
    /\ dir = None => files.import = 0
    /\ dirs = 1
    /\ changes = 0
    \* ConfigWatch::new
    /\ watches = [w \in {1} |-> SandboxesDir]
    /\ wds = 1
    /\ watched = [p \in {"sandboxes"} |-> 1]
    /\ queue = <<>>
    /\ phase = "watchMain"
    /\ read = None
    /\ want = {}
    /\ seen = None
    /\ blind = FALSE

(***************************************************************************)
(* The user, at any moment.                                                *)
(***************************************************************************)

Change == changes < MaxChanges /\ changes' = changes + 1

EditMain ==
    /\ Change
    /\ \E k \in Kinds : files' = [files EXCEPT !.main = @ + 1, !.kind = k]
    /\ queue' = Posted(SandboxesDir)
    /\ UNCHANGED << dir, dirs, watches, wds, watched, phase, read, want, seen, blind >>

\* The import is written, made or removed.
EditImport ==
    /\ Change
    /\ dir # None
    /\ \E v \in {0, changes + 2} : files' = [files EXCEPT !.import = v]
    /\ queue' = Posted(dir)
    /\ UNCHANGED << dir, dirs, watches, wds, watched, phase, read, want, seen, blind >>

\* The directory is made, with or without the import in it.  An evaluation
\* that could not watch it, and does not watch its parent yet, misses that.
MakeDir ==
    /\ Change
    /\ dir = None
    /\ dirs' = dirs + 1
    /\ dir' = dirs + 1
    /\ files' \in {files, [files EXCEPT !.import = changes + 2]}
    /\ queue' = Posted(ConfigDir)
    /\ blind' = \/ blind
                \/ /\ phase \in {"readImport", "dirs", "add"}
                   /\ DOMAIN watched \intersect {"config", "profiles"} = {}
    /\ UNCHANGED << watches, wds, watched, phase, read, want, seen >>

\* The directory and what is in it are removed: its watch goes with it.
RemoveDir ==
    LET gone == {w \in DOMAIN watches : watches[w] = dir} IN
    /\ Change
    /\ dir # None
    /\ dir' = None
    /\ files' = [files EXCEPT !.import = 0]
    /\ watches' = [w \in DOMAIN watches \ gone |-> watches[w]]
    /\ queue' = LET q == IF gone = {} THEN queue
                         ELSE LET w == CHOOSE x \in gone : TRUE
                              IN Post(Post(queue, Event(w)), Ignored(w))
                    up == {w \in DOMAIN watches : watches[w] = ConfigDir}
                IN IF up = {} THEN q ELSE Post(q, Event(CHOOSE w \in up : TRUE))
    /\ UNCHANGED << dirs, wds, watched, phase, read, want, seen, blind >>

\* The directory is moved away.  Its watch stays with it, and the path still
\* counts as watched.
MoveDir ==
    /\ Change
    /\ dir # None
    /\ dir' = None
    /\ files' = [files EXCEPT !.import = 0]
    /\ queue' = LET q == Posted(dir)
                    up == {w \in DOMAIN watches : watches[w] = ConfigDir}
                IN IF up = {} THEN q ELSE Post(q, Event(CHOOSE w \in up : TRUE))
    /\ blind' = (blind \/ "profiles" \in DOMAIN watched)
    /\ UNCHANGED << dirs, watches, wds, watched, phase, read, want, seen >>

(***************************************************************************)
(* The thread.                                                             *)
(***************************************************************************)

\* Watches a path that exists and is not watched yet (add).  A directory
\* already watched by the kernel keeps its descriptor.
Add(w, path) ==
    LET d == DirAt(path)
        old == {x \in DOMAIN w.watches : w.watches[x] = d}
        wd == IF old = {} THEN w.wds + 1 ELSE CHOOSE x \in old : TRUE
    IN IF path \in DOMAIN w.watched \/ d = None THEN w
       ELSE [watches |-> [x \in DOMAIN w.watches \union {wd} |-> IF x = wd THEN d ELSE w.watches[x]],
             wds     |-> IF old = {} THEN wd ELSE w.wds,
             watched |-> [p \in DOMAIN w.watched \union {path} |-> IF p = path THEN wd ELSE w.watched[p]]]

Watch == [watches |-> watches, wds |-> wds, watched |-> watched]

Becomes(w) == watches' = w.watches /\ wds' = w.wds /\ watched' = w.watched

\* Events for directories no longer watched are nothing; a watch the kernel
\* dropped is forgotten (relevant).
ReadEvents ==
    /\ phase = "idle"
    /\ queue # <<>>
    /\ LET gone == {i \in DOMAIN queue : queue[i].ignored}
           left == [p \in {x \in DOMAIN watched : \A i \in gone : queue[i].wd # watched[x]} |-> watched[p]]
           known == \E i \in DOMAIN queue, p \in DOMAIN watched : queue[i].wd = watched[p]
       IN /\ watched' = left
          /\ phase' = IF gone # {} \/ known THEN "watchMain" ELSE "idle"
    /\ queue' = <<>>
    /\ UNCHANGED << files, dir, dirs, changes, watches, wds, read, want, seen, blind >>

\* Mutant: a file's directory is watched only after the evaluation.
WatchFirstNot(path) == Watch

\* before_read: a file's directory is watched before the file is read.
WatchFirst(path) == Add(Watch, path)

WatchMain ==
    /\ phase = "watchMain"
    /\ Becomes(WatchFirst("sandboxes"))
    /\ phase' = "readMain"
    /\ UNCHANGED << files, dir, dirs, changes, queue, read, want, seen, blind >>

ReadMain ==
    /\ phase = "readMain"
    /\ read' = [main |-> files.main, kind |-> files.kind, import |-> 0]
    /\ phase' = IF files.kind = "imports" THEN "watchImport" ELSE "dirs"
    /\ UNCHANGED << files, dir, dirs, changes, watches, wds, queue, watched, want, seen, blind >>

WatchImport ==
    /\ phase = "watchImport"
    /\ Becomes(WatchFirst("profiles"))
    /\ phase' = "readImport"
    /\ UNCHANGED << files, dir, dirs, changes, queue, read, want, seen, blind >>

ReadImport ==
    /\ phase = "readImport"
    /\ read' = [read EXCEPT !.import = files.import]
    /\ phase' = "dirs"
    /\ UNCHANGED << files, dir, dirs, changes, watches, wds, queue, watched, want, seen, blind >>

\* A config that is broken, or whose import is missing, fails.
Failed == read.kind = "broken" \/ (read.kind = "imports" /\ read.import = 0)

\* The directories of the files read; for a missing one the nearest parent
\* that exists (dirs).
ChooseDirs ==
    /\ phase = "dirs"
    /\ want' = {"sandboxes"} \union
               (IF read.kind # "imports" THEN {}
                ELSE IF read.import # 0 \/ dir # None THEN {"profiles"} ELSE {"config"})
    /\ phase' = "add"
    /\ UNCHANGED << files, dir, dirs, changes, watches, wds, queue, watched, read, seen, blind >>

AddAll(paths) ==
    LET one(w, p) == IF p \in paths THEN Add(w, p) ELSE w
    IN one(one(one(Watch, "sandboxes"), "profiles"), "config")

\* After a success the other watches go, and the kernel says so (set); after
\* a failure they stay (keep).
Drops == ~Failed

AddWatches ==
    LET w == AddAll(want)
        drop == IF Drops THEN DOMAIN w.watched \ want ELSE {}
        gone == {w.watched[p] : p \in drop} \intersect DOMAIN w.watches
    IN
    /\ phase = "add"
    /\ watched' = [p \in DOMAIN w.watched \ drop |-> w.watched[p]]
    /\ watches' = [x \in DOMAIN w.watches \ gone |-> w.watches[x]]
    /\ wds' = w.wds
    /\ queue' = queue \o SetToSeq({Ignored(x) : x \in gone})
    /\ seen' = read
    /\ phase' = "idle"
    /\ UNCHANGED << files, dir, dirs, changes, read, want, blind >>

Thread ==
    ReadEvents \/ WatchMain \/ ReadMain \/ WatchImport \/ ReadImport \/ ChooseDirs \/ AddWatches

Next == EditMain \/ EditImport \/ MakeDir \/ RemoveDir \/ MoveDir \/ Thread

\* The thread runs whenever it has something to do.
Fairness == WF_vars(Thread)

Spec == Init /\ [][Next]_vars /\ Fairness

(***************************************************************************)
(* Properties.                                                             *)
(***************************************************************************)

\* Whatever is changed, and whenever in an evaluation, the thread comes to
\* rest (its own removal of watches sends it events too) and has then read
\* what the files say, except for a directory it could not watch: one made
\* while an evaluation that missed it runs, or moved away (watch_config).
ConfigFollows ==
    <>[](phase = "idle" /\ queue = <<>> /\ (blind \/ seen = Current))

============================================================================
