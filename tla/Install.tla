------------------------------ MODULE Install ------------------------------
(***************************************************************************)
(* `psbox install` (install.rs, cli.rs): the desktop entries of every       *)
(* configured sandbox.  The configs are loaded, every entry is generated    *)
(* from them and from the entries the host has, the generated files are     *)
(* written one by one, and the psbox files nobody claims any more are       *)
(* removed.  The user and package managers change the same files, a config  *)
(* may fail to load, an entry may have nothing to be copied from, and the   *)
(* run may be cut short at any step and be run again.                       *)
(*                                                                          *)
(* One desktop id stands for all: its application entry and its autostart   *)
(* entry are the two files, which several sandboxes may claim.  A body is   *)
(* abstracted to who it was made for, from which version of the config and  *)
(* from which entry.  A file that cannot be read, or parsed as an entry, is *)
(* "unreadable".  The temporary file a body is written to before it is      *)
(* renamed is no desktop file, so only the rename shows.                    *)
(***************************************************************************)
EXTENDS Naturals, Sequences

CONSTANTS Sandboxes,    \* 1..n, the sandboxes in name order
          Asked,        \* what a config may ask for, file -> entry
          MaxEdits      \* bound on changes from outside

Entry == {"app", "auto"}   \* the two files; a config asks for "none", "scratch" or "copy" in each

ASSUME InstallAssumption ==
  Sandboxes \subseteq Nat /\ Asked \subseteq [Entry -> {"none", "scratch", "copy"}]

VARIABLES config,       \* sandbox -> its config file and the entries it asks for
          hostEntry,    \* file -> whether the host's directories have an entry
          disk,         \* file -> what is in the user's directory
          step,         \* where the command is
          dryRun,       \* whether it only reports
          specs, failedSandboxes,  \* what was loaded, and what could not be
          generated, notGenerated, \* Generation.entries and .failed
          report,
          before,       \* ghost: the disk when the configs were loaded
          undisturbed,  \* ghost: nothing changed from outside since
          edits

installVars == <<config, hostEntry, disk, step, dryRun, specs, failedSandboxes, generated, notGenerated, report,
          before, undisturbed, edits>>

-----------------------------------------------------------------------------
Foreign(kind) == [kind |-> kind, by |-> 0, ver |-> 0, from |-> <<>>]

\* A generated body: marker, the sandbox it names, and what it was made of.
Body(s, v, from) == [kind |-> "psbox", by |-> s, ver |-> v, from |-> from]

\* owner(): only a psbox file has one, and an untagged one names no sandbox.
IsGenerated(c) == c.kind \in {"psbox", "untagged"}

Absent == Foreign("absent")

\* What the disk may hold to begin with.
Contents == {Foreign(k) : k \in {"absent", "foreign", "unreadable", "untagged"}}
              \cup {Body(s, 1, <<>>) : s \in Sandboxes}

\* The config file of a sandbox: whether it loads, and the version of what it asks for.
Config(state, v, entry) == [state |-> state, ver |-> v, entry |-> entry]

NoEntries == [f \in Entry |-> "none"]

\* Spec::names and load_all: the configs there are, those that load and those that do not.
Loaded     == {s \in Sandboxes : config[s].state = "ok"}
NotLoading == {s \in Sandboxes : config[s].state = "broken"}

NoSpecs == [s \in Sandboxes |-> Config("missing", 0, NoEntries)]

NoReport == [added |-> {}, updated |-> {}, unchanged |-> {}, removed |-> {}, skipped |-> {}]

-----------------------------------------------------------------------------
(* Generating.  The user's own directory is searched before the host's, and *)
(* applications after autostart entries.                                    *)

Search(f) ==
  IF f = "app" THEN <<<<"app", "own">>, <<"app", "host">>>>
  ELSE <<<<"auto", "own">>, <<"auto", "host">>, <<"app", "own">>, <<"app", "host">>>>

\* Mutant: a file psbox wrote is taken for the host's.
IsHostEntryAny(place) ==
  IF place[2] = "host" THEN hostEntry[place[1]] ELSE disk[place[1]].kind # "absent"

\* find_host: a file psbox wrote is no host entry; one that cannot be read counts as one.
IsHostEntry(place) ==
  IF place[2] = "host" THEN hostEntry[place[1]]
  ELSE disk[place[1]].kind \in {"foreign", "unreadable"}

Readable(place) == place[2] = "own" => disk[place[1]].kind # "unreadable"

FoundAt(f) == {i \in 1..Len(Search(f)) :
                 /\ IsHostEntry(Search(f)[i])
                 /\ \A j \in 1..(i - 1) : ~IsHostEntry(Search(f)[j])}

\* build: the bodies an entry can be made into, none when it cannot be built.
Built(s, f) ==
  CASE specs[s].entry[f] = "none" -> {}
    [] specs[s].entry[f] = "scratch" -> {Body(s, specs[s].ver, <<>>)}
    [] OTHER -> {Body(s, specs[s].ver, Search(f)[i]) : i \in {i \in FoundAt(f) : Readable(Search(f)[i])}}

Claims(s, f) == specs[s].entry[f] # "none"

\* generate: the first sandbox in name order that can build the file gets it.
Firsts(f) == {s \in Sandboxes : Built(s, f) # {} /\ \A r \in Sandboxes : r < s => Built(r, f) = {}}

Generated == UNION {{[path |-> f, body |-> b] : b \in UNION {Built(s, f) : s \in Firsts(f)}} : f \in Entry}

\* Generation.failed: claimed by a sandbox that cannot build it, or that is not the first.
Failed ==
  {f \in Entry : \E s \in Sandboxes :
     Claims(s, f) /\ (Built(s, f) = {} \/ \E r \in Sandboxes : r < s /\ Built(r, f) # {})}

-----------------------------------------------------------------------------
InstallInit ==
  /\ config \in [Sandboxes -> {Config("broken", 1, NoEntries)} \cup {Config("ok", 1, e) : e \in Asked}]
  /\ hostEntry \in [Entry -> BOOLEAN]
  /\ disk \in [Entry -> Contents]
  /\ step = "off" /\ dryRun = FALSE
  /\ specs = NoSpecs /\ failedSandboxes = {} /\ generated = {} /\ notGenerated = {}
  /\ report = NoReport
  /\ before = disk /\ undisturbed = FALSE /\ edits = 0

run == <<dryRun, specs, failedSandboxes, generated, notGenerated, report, before>>

\* install, to the end of load_all.  The sandboxes directory cannot be read: nothing is done.
Load(dry) ==
  /\ step = "off"
  /\ step' = "loaded"
  /\ dryRun' = dry
  /\ specs' = [s \in Sandboxes |-> IF s \in Loaded THEN config[s] ELSE NoSpecs[s]]
  /\ failedSandboxes' = NotLoading
  /\ generated' = {} /\ notGenerated' = {} /\ report' = NoReport
  /\ before' = disk /\ undisturbed' = TRUE
  /\ UNCHANGED <<config, hostEntry, disk, edits>>

Generate ==
  /\ step = "loaded"
  /\ step' = "writing"
  /\ generated' = Generated
  /\ notGenerated' = Failed
  /\ UNCHANGED <<config, hostEntry, disk, dryRun, specs, failedSandboxes, report, before, undisturbed, edits>>

Settled == report.added \cup report.updated \cup report.unchanged \cup report.skipped

\* The first loop of apply, up to replace.
Next1(g) == step = "writing" /\ g \in generated /\ g.path \notin Settled

Keep(g) ==
  /\ Next1(g)
  /\ \/ /\ disk[g.path] = g.body
        /\ report' = [report EXCEPT !.unchanged = @ \cup {g.path}]
     \/ /\ disk[g.path].kind \in {"foreign", "unreadable"}
        /\ report' = [report EXCEPT !.skipped = @ \cup {g.path}]
  /\ UNCHANGED <<config, hostEntry, disk, step, dryRun, specs, failedSandboxes, generated, notGenerated, before,
                 undisturbed, edits>>

Noted(f, old) ==
  IF old.kind = "absent" THEN [report EXCEPT !.added = @ \cup {f}] ELSE [report EXCEPT !.updated = @ \cup {f}]

\* replace: the body is renamed into place whole, or, in a dry run, would be.
Write(g) ==
  /\ Next1(g)
  /\ disk[g.path] # g.body /\ disk[g.path].kind \notin {"foreign", "unreadable"}
  /\ disk' = IF dryRun THEN disk ELSE [disk EXCEPT ![g.path] = g.body]
  /\ report' = Noted(g.path, disk[g.path])
  /\ UNCHANGED <<config, hostEntry, step, dryRun, specs, failedSandboxes, generated, notGenerated, before, undisturbed,
                 edits>>

\* Whether the second loop of apply removes a file.
Stale(f) ==
  /\ \A g \in generated : g.path # f
  /\ f \notin notGenerated
  /\ \/ disk[f].kind = "untagged"
     \/ disk[f].kind = "psbox" /\ disk[f].by \notin failedSandboxes

\* The second loop: applications, then autostart entries, when everything is written.
Sweep ==
  /\ step = "writing"
  /\ \A g \in generated : g.path \in Settled
  /\ step' = "done"
  /\ LET stale == {f \in Entry : Stale(f)}
     IN /\ disk' = IF dryRun THEN disk ELSE [f \in Entry |-> IF f \in stale THEN Absent ELSE disk[f]]
        /\ report' = [report EXCEPT !.removed = stale]
  /\ UNCHANGED <<config, hostEntry, dryRun, specs, failedSandboxes, generated, notGenerated, before, undisturbed, edits>>

\* The report is shown, or the run was cut short by an error or a signal; it can be run again.
Finish ==
  /\ step # "off"
  /\ step' = "off"
  /\ dryRun' = FALSE /\ specs' = NoSpecs /\ failedSandboxes' = {} /\ generated' = {} /\ notGenerated' = {}
  /\ report' = NoReport /\ before' = disk /\ undisturbed' = FALSE
  /\ UNCHANGED <<config, hostEntry, disk, edits>>

-----------------------------------------------------------------------------
(* Others.                                                                  *)

Others ==
  /\ edits < MaxEdits
  /\ edits' = edits + 1
  /\ undisturbed' = FALSE
  /\ UNCHANGED <<step, run>>

\* The config is broken, mended, removed or asks for other keys.
EditConfig(s, state) ==
  /\ Others
  /\ config[s].state # "missing"
  /\ config' = [config EXCEPT ![s] = Config(state, IF state = "ok" THEN @.ver + 1 ELSE @.ver, @.entry)]
  /\ UNCHANGED <<hostEntry, disk>>

Package(f) == Others /\ hostEntry' = [hostEntry EXCEPT ![f] = ~@] /\ UNCHANGED <<config, disk>>

UserWrites(f, k) == Others /\ disk' = [disk EXCEPT ![f] = Foreign(k)] /\ UNCHANGED <<config, hostEntry>>

InstallNext ==
  \/ \E dry \in BOOLEAN : Load(dry)
  \/ Generate
  \/ \E g \in generated : Keep(g) \/ Write(g)
  \/ Sweep \/ Finish
  \/ \E s \in Sandboxes, state \in {"missing", "broken", "ok"} : EditConfig(s, state)
  \/ \E f \in Entry : Package(f)
  \/ \E f \in Entry, k \in {"absent", "foreign"} : UserWrites(f, k)

InstallSpec == InstallInit /\ [][InstallNext]_installVars

-----------------------------------------------------------------------------
(* What a run that nothing disturbed leaves behind, said from the configs   *)
(* and the files it started from.                                           *)

\* The entries a copy may be made of: never one psbox wrote.
Sources(f) ==
  {i \in 1..Len(Search(f)) :
     LET p == Search(f)[i] IN IF p[2] = "host" THEN hostEntry[p[1]] ELSE ~IsGenerated(before[p[1]]) /\ before[p[1]] # Absent}

Wants(s, f) == config[s].state = "ok" /\ config[s].entry[f] # "none"

\* There is one, and the first can be read.
Copyable(f) ==
  \E i \in Sources(f) : /\ \A j \in Sources(f) : i <= j
                        /\ Search(f)[i][2] = "own" => before[Search(f)[i][1]].kind = "foreign"

Can(s, f) == Wants(s, f) /\ (config[s].entry[f] = "scratch" \/ Copyable(f))

\* The file is not psbox's to change.
Theirs(f) == before[f].kind \in {"foreign", "unreadable"}

Could(f) == \E s \in Sandboxes : Can(s, f)

\* It stays as it is.
Stays(f) ==
  \/ Theirs(f)
  \/ /\ ~Could(f)
     /\ \/ \E s \in Sandboxes : Wants(s, f)
        \/ before[f].kind = "psbox" /\ config[before[f].by].state = "broken"

\* The entry of the first sandbox that can have one, made of what is found first.
Best(f, c) ==
  /\ c.kind = "psbox" /\ c.by \in Sandboxes /\ Can(c.by, f) /\ c.ver = config[c.by].ver
  /\ \A s \in Sandboxes : Can(s, f) => c.by <= s
  /\ IF config[c.by].entry[f] = "scratch" THEN c.from = <<>>
     ELSE \E i \in Sources(f) : c.from = Search(f)[i] /\ \A j \in Sources(f) : i <= j

Right(f, c) ==
  /\ Stays(f) => c = before[f]
  /\ ~Stays(f) /\ Could(f) => Best(f, c)
  /\ ~Stays(f) /\ ~Could(f) => c = Absent

\* The config the entry was made for does not load, and another sandbox can have the file: the
\* other's entry is written over the one that was to be kept.
Contested(f) == before[f].kind = "psbox" /\ config[before[f].by].state = "broken" /\ Could(f)

\* A run of the command that nothing disturbs leaves each desktop file right, whatever was there
\* before, earlier runs cut short included: a file psbox did not write as it was; else the entry of
\* the first sandbox in name order that can have it made, from its config as it is and never from
\* another generated entry; else what was there if a config asks for it or the config it was made
\* for does not load; else nothing.  A dry run leaves everything, and either reports exactly the
\* files that are, or would be, added, changed and removed (install.rs apply, generate).  Of a
\* contested file nothing is said but that a dry run leaves it.
EntriesFollow ==
  step = "done" /\ undisturbed =>
    \A f \in Entry :
      /\ dryRun => disk[f] = before[f]
      /\ ~Contested(f) =>
           /\ ~dryRun => Right(f, disk[f])
           /\ f \in report.added => before[f] = Absent
           /\ f \in report.updated => IsGenerated(before[f])
           /\ (f \in report.added \cup report.updated \cup report.removed) <=> ~Right(f, before[f])
           /\ f \in report.removed => Right(f, Absent)

\* install.rs:394-396 says the entries of configs that did not load are kept; a contested one
\* is written over.
FailedKept ==
  step = "done" /\ undisturbed =>
    \A f \in Entry :
      before[f].kind = "psbox" /\ config[before[f].by].state = "broken" => disk[f] = before[f]
=============================================================================
