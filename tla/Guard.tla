------------------------------- MODULE Guard -------------------------------
(***************************************************************************)
(* The folder guard.  Before each tool call of the assistant a hook runs   *)
(* guard.py, which loads a configuration, reads the markers of the folders *)
(* above every path the call names and lets the call run or denies it.     *)
(* Meanwhile the user marks and unmarks folders and edits the              *)
(* configuration, and the file system may fail.  A path is a node of a     *)
(* small tree; what a shell command does with paths is kept as one change  *)
(* of directory and one word it reads, before or after it.  Where the scan *)
(* of a command is simplified, the model lets pass more than the code: it  *)
(* leaves out paths that the guard makes up by joining a word to the wrong *)
(* directory.                                                              *)
(***************************************************************************)
EXTENDS Naturals, FiniteSets

CONSTANTS
    File, Folder,
    Over,        \* [node -> the folders it lies in, itself if a folder]
    Depth,       \* [folder -> its depth]
    Leads,       \* [node -> the node that resolve() gives]
    MarkerFile,  \* the files named .bubble-shield.json
    Exts,        \* [file -> its extension]
    Project,     \* CLAUDE_PROJECT_DIR
    Mounted,     \* folders mounted into the sandbox under /sessions/<name>/mnt
    Infra,       \* ... those that are the assistant's own (_COWORK_INFRA_MNT)
    Call,        \* the tool calls
    Markings,    \* bound: the pairs <<folder, marker>> the user makes
    MaxEdits,    \* bound: the user's edits during one call of the hook
    Lapses,      \* bound: the sets of look-ups that fail in one scan
    Markers,     \* what a marker file may hold: [allow, exts, bash]
    Configs,     \* what a configuration may hold: markers with [protected]
    None,        \* no such file
    Torn         \* a file that cannot be parsed

Node == File \cup Folder
MaxTries == 3    \* _MAX_RETRIES

Namespace == {"host", "mnt"}
Place     == [ns : Namespace, dir : Folder]
Command   == [cwd : Place,
              cd : {"none", "plain", "spaced", "unseen", "hidden", "unresolvable"},
              to : Place, named : BOOLEAN, after : BOOLEAN,
              word : [form : {"abs", "rel", "bare", "var", "glob", "wild", "opaque"},
                      ns : Namespace, base : Folder, node : Node],
              reader : BOOLEAN, eval : BOOLEAN]

\* What a scan asks the file system: where a link leads, whether there is such
\* a path, whether a folder has a marker, what is in it, and which folders near
\* the session's directory, or below a pattern, have one.
Lookup == ({"link", "stat"} \X Node) \cup ({"marker", "read", "walk"} \X Folder)

\* The tree: folders in folders, and links that resolve() follows to the end.
\* A folder is no link.
TreeAssumption ==
    /\ IsFiniteSet(Folder) /\ File \cap Folder = {}
    /\ Over \in [Node -> SUBSET Folder] /\ Leads \in [Node -> Node]
    /\ Depth \in [Folder -> 0..Cardinality(Folder)] /\ Exts \in [File -> STRING]
    /\ \A f \in Folder : f \in Over[f] /\ Leads[f] = f
    /\ \A n \in Node : Leads[Leads[n]] = Leads[n] /\ \A d \in Over[n] : Over[d] \subseteq Over[n]
    /\ \A n \in Node : \A a, b \in Over[n] : Depth[a] = Depth[b] => a = b
    /\ MarkerFile \subseteq File /\ Infra \subseteq Mounted
    /\ Mounted \subseteq Folder /\ Project \in Folder
    /\ None \notin Markers \cup Configs /\ Torn \notin Markers \cup Configs
    /\ None # Torn /\ None \notin Folder /\ MaxEdits \in Nat
    /\ \A l \in Lapses : l \subseteq Lookup

CallAssumption ==
    \A c \in Call :
       \/ c.kind = "bash" /\ c.cmd \in Command
       \/ c.kind \in {"file", "search", "names", "mail", "nofile"} /\ c.node \in Node

VARIABLES
    marker,   \* [folder -> the marker it carries]
    config,   \* the global configuration file
    host,     \* a confirmed host, not the sandbox
    pc,       \* where the guard is: idle, load, scan, done
    call,     \* the call it decides on
    tries,    \* attempts so far
    cfg,      \* the configuration it loaded
    lapse,    \* the look-ups that fail in the scan under way
    verdict,  \* "allow", "deny"; what it said last
    kept,     \* observed: <<node, means>> protected ever since the call came
    met,      \* observed: the grounds for a denial there were since then
    edits     \* bounded: the user's edits since the call came

vars == <<marker, config, host, pc, call, tries, cfg, lapse, verdict,
          kept, met, edits>>
-----------------------------------------------------------------------------
(* Loading a configuration and deciding on one path.                       *)

Blank == [allow |-> {}, exts |-> {}, bash |-> TRUE]

\* The project's configuration file has the name of a marker: the marker of
\* the project folder is taken for a configuration without protected folders.
AsConfig(m) == IF m = Torn THEN Torn
               ELSE [protected |-> {}, allow |-> m.allow, exts |-> m.exts, bash |-> m.bash]

ConfigAssumption ==
    /\ Torn \notin {AsConfig(m) : m \in Markers \cup {Blank}} /\ AsConfig(Blank) \in Configs
    /\ Markings \subseteq Folder \X (Markers \cup {None, Torn})

\* The first file that exists is the configuration; none is an empty one.
LoadConfig ==
    IF marker[Project] # None THEN AsConfig(marker[Project])
    ELSE IF config # None THEN config ELSE AsConfig(Blank)

\* An error in the scan is swallowed where it occurs: a path that cannot be
\* looked at has no marker over it, a folder of which that is not known has none.
Fails(what, n) == <<what, n>> \in lapse

Marked(n) ==
    IF Fails("stat", n) THEN {}
    ELSE {d \in Over[n] : marker[d] # None /\ ~Fails("marker", d)}

\* resolve() and realpath() take a link they cannot look at for no link.
Target(n) == IF Fails("link", n) THEN n ELSE Leads[n]

\* The marker of the nearest marked folder; one that cannot be read protects.
Nearest(n) ==
    LET d == CHOOSE d \in Marked(n) : \A e \in Marked(n) : Depth[e] <= Depth[d]
    IN  [at |-> d, data |-> IF marker[d] = Torn \/ Fails("read", d) THEN Blank ELSE marker[d]]

Or(s, t) == IF s # {} THEN s ELSE t

Exempt(n, allow, exts) ==
    \/ (Over[n] \cup {n}) \cap allow # {}
    \/ n \in File /\ Exts[n] \in exts

DecideBlock(node, c) ==
    LET n == Target(node) IN
    /\ n \notin MarkerFile
    /\ IF Marked(n) # {}
       THEN LET m == Nearest(n).data
            IN  ~Exempt(n, Or(m.allow, c.allow), Or(m.exts, c.exts))
       ELSE Over[n] \cap c.protected # {} /\ ~Exempt(n, c.allow, c.exts)
-----------------------------------------------------------------------------
(* Shell commands.  A command record holds                                 *)
(*   cwd : the place the event names, [ns, dir], ns "host" or "mnt"        *)
(*   cd  : "none", "plain", "spaced" (a path with a space in it), "unseen" *)
(*         (behind a line end, a pipe or a keyword), "hidden" (a subshell, *)
(*         sh -c, pushd, eval) or "unresolvable" (a variable, a            *)
(*         substitution, -, a pattern)                                     *)
(*   to  : the place cd moves to; named: by its absolute path              *)
(*   word: what is read, [form, ns, base, node], all that is below it if   *)
(*         it is a folder; a "rel" (with a slash) or "bare" word names     *)
(*         node from the folder base only; "var" takes it from a variable  *)
(*         assigned before; "glob" is an absolute pattern the guard can    *)
(*         expand, "wild" one that it cannot, below the folder base;       *)
(*         "opaque" is a word the shell computes, a pattern without a      *)
(*         slash among them                                                *)
(*   after: the word is read after the change of directory                 *)
(*   reader: the command that reads is among _READ_VERBS                   *)
(*   eval: the command is an eval of a substitution                        *)

Below == [n \in Node |-> {Leads[m] : m \in {m \in Node : m = n \/ n \in Over[m]}}]

At(c) == IF c.cd # "none" /\ c.after THEN c.to ELSE c.cwd

Reads(c) ==
    LET w == c.word IN
    IF w.form \in {"rel", "bare"} /\ w.base # At(c).dir THEN {} ELSE Below[Leads[w.node]]

\* One directory for the whole command.  A target with a space in it is cut
\* there, so that it is no folder of the tree.
EffectiveCwd(c) ==
    CASE c.cd = "plain"  -> c.to
      [] c.cd = "spaced" -> [ns |-> c.to.ns, dir |-> None]
      [] OTHER           -> c.cwd

\* A literal assignment made in the command is put in place of its variable.
ResolveAssignments(c) ==
    IF c.word.form = "var" THEN [c EXCEPT !.word.form = "abs"] ELSE c

CdTarget(c) ==
    IF c.cd \notin {"none", "unresolvable"} /\ c.named
    THEN {[ns |-> c.to.ns, node |-> c.to.dir]} ELSE {}

\* The absolute paths that stand in the text, quoted and escaped ones included.
Literal(c) ==
    CdTarget(c) \cup
    IF c.word.form = "abs" THEN {[ns |-> c.word.ns, node |-> c.word.node]} ELSE {}

\* Folders in which a walk through the tree comes upon a marker.
Walked(d) == marker[d] # None /\ ~Fails("walk", d)

\* A pattern stands for its matches, else for the marked folders it may reach.
GlobPaths(c) ==
    LET w == c.word
        reached == {d \in Folder : Walked(d) /\ w.base \in Over[d]}
        expands == w.form = "glob" /\ (w.ns = "mnt" \/ ~Fails("stat", Leads[w.node]))
    IN  {[ns |-> w.ns, node |-> n] :
            n \in IF expands THEN {w.node} ELSE IF w.form \in {"glob", "wild"} THEN reached ELSE {}}

\* Mutant: relative words are taken from the event's directory only.
CommandPathsAtCwd(c, place) ==
    Literal(c) \cup GlobPaths(c) \cup
    IF c.word.form = "rel" /\ c.word.base = c.cwd.dir
    THEN {[ns |-> c.cwd.ns, node |-> c.word.node]} ELSE {}

CommandPaths(c, place) ==
    Literal(c) \cup GlobPaths(c) \cup
    IF c.word.form = "rel" /\ c.word.base = place.dir
    THEN {[ns |-> place.ns, node |-> c.word.node]} ELSE {}

HidingConstruct(c)   == c.cd \in {"hidden", "unresolvable"} \/ c.eval
MentionsSessionMnt(c) == \E t \in Literal(c) : t.ns = "mnt"
RelativeRead(c)      == c.word.form = "rel" \/ (c.reader /\ c.word.form \in {"bare", "opaque"})

\* The classes the guard cannot follow, denied as such.
DeniedByClass(c) ==
    \/ HidingConstruct(c) /\ MentionsSessionMnt(c)
    \/ ~host /\ (c.eval \/ (c.cd = "unresolvable" /\ RelativeRead(c)))

BashOptOut(n) == Marked(Target(n)) # {} /\ ~Nearest(Target(n)).data.bash

DeniedByPath(c) ==
    \E t \in CommandPaths(c, EffectiveCwd(c)) :
        t.ns = "host" /\ DecideBlock(t.node, cfg) /\ ~BashOptOut(t.node)

\* A bare word is resolved where the event says and denied from outside only.
RootsOver(n) == IF Marked(n) # {} THEN {Nearest(n).at} ELSE Over[n] \cap cfg.protected

DeniedByBareWord(c) ==
    LET n == Target(c.word.node) IN
    /\ c.word.form = "bare" /\ c.cwd.ns = "host" /\ c.word.base = c.cwd.dir
    /\ ~Fails("stat", n) /\ DecideBlock(n, cfg) /\ ~BashOptOut(n)
    /\ RootsOver(n) \cap Over[c.cwd.dir] = {}

\* Marked folders near the event's directory (_discover_marker_roots).
Near(c) ==
    IF c.cwd.ns = "mnt" THEN {}
    ELSE {d \in Folder : Walked(d) /\ (d \in Over[c.cwd.dir] \/ c.cwd.dir \in Over[d])}

\* A path in the sandbox's mounts: the host sees no marker there.
DeniedByMount(c) ==
    \E t \in CommandPaths(c, c.cwd) \cup CommandPaths(c, EffectiveCwd(c)) :
        /\ t.ns = "mnt"
        /\ \E m \in Over[t.node] \cap Mounted :
              m \notin Infra \/ m \in cfg.protected \/ m \in Near(c)

\* The name of a protected folder, or of a marked one near the event's
\* directory, stands in the text.
DeniedByNeedle(c) ==
    \E t \in Literal(c) :
        t.ns = "host" /\ Over[t.node] \cap (cfg.protected \cup Near(c)) # {}

DenyBash(c) ==
    cfg.bash /\ (\/ DeniedByClass(c) \/ DeniedByPath(c) \/ DeniedByBareWord(c)
                 \/ DeniedByMount(c) \/ DeniedByNeedle(c))
-----------------------------------------------------------------------------
(* Tool calls: [kind, node, cmd].  "file" is a native tool that returns or *)
(* writes content (Read, Edit, Write, NotebookEdit, Grep) or a foreign MCP *)
(* tool with a path; "search" is a Grep without one, from the session's    *)
(* directory node; "names" is Glob, a viewer or one of our own tools;      *)
(* "mail" is a mail connector; "nofile" an MCP tool without a path.        *)

CandidatePaths(c) == IF c.kind = "file" THEN {c.node} ELSE {}

Denies(c) ==
    CASE c.kind = "bash" -> DenyBash(ResolveAssignments(c.cmd))
      [] c.kind = "mail" -> FALSE
      [] OTHER -> \E n \in CandidatePaths(c) : DecideBlock(n, cfg)

\* What the call brings into the assistant's context, if it runs.
ReadBy(c) == CASE c.kind \in {"file", "search"} -> Below[Leads[c.node]]
               [] c.kind = "bash" -> Reads(c.cmd)
               [] OTHER -> {}

\* Mutant: every internal error denies.
NothingIsHarmless(c) == FALSE

TouchesNoFile(c) == c.kind \in {"mail", "nofile"}
-----------------------------------------------------------------------------
(* Observation.  A node is protected by a marker, or by the configuration  *)
(* the hook would load; Shields leaves out all that any allow list or      *)
(* opt-out might mean.                                                     *)

Shields(mk, cf, c, n) ==
    LET hook  == IF mk[Project] = None /\ cf \in Configs THEN cf.protected ELSE {}
        lists == ({mk[d] : d \in Folder} \cup {cf}) \ {None, Torn}
        open  == \E l \in lists : Exempt(n, l.allow, l.exts) \/ (c.kind = "bash" /\ ~l.bash)
    IN  IF n \in MarkerFile \/ open THEN {}
        ELSE (IF \E d \in Over[n] : mk[d] # None THEN {<<n, "marker">>} ELSE {})
             \cup (IF Over[n] \cap hook # {} THEN {<<n, "config">>} ELSE {})

Shielded(mk, cf, c) == UNION {Shields(mk, cf, c, n) : n \in ReadBy(c)}

\* The grounds for denying a call of a file tool.
Grounds(mk, cf, c) ==
    {n \in CandidatePaths(c) : \E d \in Over[Leads[n]] :
                                  mk[d] # None \/ (cf \in Configs /\ d \in cf.protected)}
    \cup (IF cf = Torn \/ mk[Project] = Torn THEN {"torn"} ELSE {})
-----------------------------------------------------------------------------
Init ==
    /\ marker \in [Folder -> {None}] /\ config = None /\ host \in BOOLEAN
    /\ pc = "idle" /\ call \in {None} /\ tries = 0 /\ cfg = AsConfig(Blank) /\ lapse = {}
    /\ verdict = "allow" /\ kept = {} /\ met = {} /\ edits = 0

\* The assistant calls a tool.  Nothing is mounted on a confirmed host.
OnHost(c) == c.kind = "bash" =>
    "mnt" \notin {c.cmd.cwd.ns, c.cmd.to.ns, c.cmd.word.ns}

Event(c) ==
    /\ pc = "idle" /\ (host => OnHost(c))
    /\ pc' = "load" /\ call' = c /\ tries' = 1
    /\ kept' = Shielded(marker, config, c) /\ met' = Grounds(marker, config, c)
    /\ UNCHANGED <<marker, config, host, cfg, lapse, verdict, edits>>

Say(v) == /\ pc' = "done" /\ verdict' = v

\* A configuration that cannot be read or parsed denies.
Load ==
    /\ pc = "load"
    /\ \/ /\ LoadConfig # Torn
          /\ pc' = "scan" /\ cfg' = LoadConfig /\ lapse' \in Lapses /\ UNCHANGED <<verdict, met>>
       \/ /\ LoadConfig = Torn
          /\ Say("deny") /\ UNCHANGED <<cfg, lapse, met>>
       \/ /\ marker[Project] # None \/ config # None
          /\ Say("deny") /\ met' = met \cup {"unread"} /\ UNCHANGED <<cfg, lapse>>
    /\ UNCHANGED <<marker, config, host, call, tries, kept, edits>>

Scan ==
    /\ pc = "scan"
    /\ Say(IF Denies(call) THEN "deny" ELSE "allow")
    /\ UNCHANGED <<marker, config, host, call, tries, cfg, lapse, kept, met, edits>>

\* An error that nothing swallows: in looking for the configuration, or in a
\* marker whose fields have the wrong types.  A passing one is tried again from
\* the start; a lasting one, or the last one, denies unless the call can read no
\* file.
Retry ==
    /\ tries < MaxTries /\ pc' = "load" /\ tries' = tries + 1
    /\ UNCHANGED <<verdict, met>>

GiveUp ==
    /\ Say(IF TouchesNoFile(call) THEN "allow" ELSE "deny")
    /\ met' = met \cup {"error"} /\ UNCHANGED tries

Error(passing) ==
    /\ pc = "load" \/ (pc = "scan" /\ ~passing)
    /\ \/ passing /\ Retry
       \/ ~(passing /\ tries < MaxTries) /\ GiveUp
    /\ UNCHANGED <<marker, config, host, call, cfg, lapse, kept, edits>>

Return ==
    /\ pc = "done" /\ pc' = "idle"
    /\ call' = None /\ tries' = 0 /\ cfg' = AsConfig(Blank) /\ lapse' = {} /\ verdict' = "allow"
    /\ kept' = {} /\ met' = {} /\ edits' = 0
    /\ UNCHANGED <<marker, config, host>>

\* The user marks a folder, changes or breaks its marker or removes it, and
\* edits or breaks the configuration. (Once the verdict is said, what
\* he edits matters to the next call only.)
Edit(mk, cf) ==
    /\ pc # "done" /\ edits' = (IF pc = "idle" THEN 0 ELSE edits + 1)
    /\ edits' <= MaxEdits
    /\ marker' = mk /\ config' = cf
    /\ IF pc \in {"load", "scan"}
       THEN /\ kept' = kept \cap Shielded(mk, cf, call)
            /\ met' = met \cup Grounds(mk, cf, call)
       ELSE UNCHANGED <<kept, met>>
    /\ UNCHANGED <<host, pc, call, tries, cfg, lapse, verdict>>

Mark(d, m)    == m # marker[d] /\ Edit([marker EXCEPT ![d] = m], config)
Configure(c)  == c # config /\ Edit(marker, c)

\* bubble_shield_enable_global merges one flag into the file and writes it
\* in place: one it cannot parse is replaced, and a kill leaves half of it.
EnableGlobal ==
    \E c \in {Torn, IF config \in {None, Torn} THEN AsConfig(Blank) ELSE config} :
        Configure(c)

Next ==
    \/ pc = "idle" /\ \E c \in Call : Event(c)
    \/ Load \/ Scan \/ Return
    \/ \E passing \in BOOLEAN : Error(passing)
    \/ \E e \in Markings : Mark(e[1], e[2])
    \/ \E c \in Configs \cup {None, Torn} : Configure(c)
    \/ EnableGlobal

Spec == Init /\ [][Next]_vars
-----------------------------------------------------------------------------
(* Properties.                                                             *)

TypeOK ==
    /\ marker \in [Folder -> Markers \cup {None, Torn}]
    /\ config \in Configs \cup {None, Torn} /\ host \in BOOLEAN
    /\ pc \in {"idle", "load", "scan", "done"} /\ call \in Call \cup {None}
    /\ tries \in 0..MaxTries /\ cfg # Torn /\ verdict \in {"allow", "deny"}
    /\ lapse \subseteq Lookup
    /\ kept \subseteq Node \X {"marker", "config"}
    /\ met \subseteq Node \cup {"torn", "unread", "error"} /\ edits \in 0..MaxEdits

\* The path that the call names, and where the shell finds it.
Named(c) == IF c.kind = "bash" THEN c.cmd.word.node ELSE c.node
OnMount(c) == c.kind = "bash" /\ "mnt" = (IF c.cmd.word.form \in {"rel", "bare"}
                                          THEN At(c.cmd).ns ELSE c.cmd.word.ns)

\* A search that starts above what is protected, or follows a link out of where
\* it starts: the guard looks at its start only (_candidate_paths).
SearchedFromAbove(c, n, means) ==
    LET t == Leads[Named(c)]
    IN  /\ n # t
        /\ \/ t \notin Over[n]
           \/ IF means = "marker" THEN \A d \in Over[t] : marker[d] = None
              ELSE Over[t] \cap cfg.protected = {}

\* The guard's look-ups of the path failed and it went on as if there were no
\* link, no path or no marker (_find_marker_root).
LookupsFailed(c, means) ==
    LET t == Leads[Named(c)]
    IN  /\ ~OnMount(c)
        /\ \/ Fails("link", Named(c))
           \/ Fails("stat", t) /\ (means = "marker" \/ c.kind = "bash")
           \/ means = "marker" /\ \A d \in Over[t] : marker[d] # None => Fails("marker", d)

\* A change of directory that the guard reads wrongly, or not at all, before
\* the word is read.
Misled(c) ==
    c.after /\ (\/ c.cd \in {"spaced", "unseen"}
                \/ c.cd = "hidden" /\ ~(c.to.ns = "mnt" /\ c.named)
                \/ c.cd = "unresolvable" /\ host)

\* A path in one of the assistant's own mounts, or that of all mounts, where
\* the guard compares the mount itself with what the configuration protects.
InOwnMount(c, means) ==
    LET w == c.cmd.word
    IN  /\ OnMount(c) /\ Over[w.node] \cap Mounted \subseteq Infra
        /\ \/ means = "marker" \/ Leads[w.node] # w.node
           \/ Over[w.node] \cap Mounted = {} \/ ~(Over[w.node] \subseteq Mounted)

\* What the guard gives up for a shell command: a word that the shell computes;
\* a pattern it cannot expand, unless it starts at or above a marked folder that
\* holds what it reads; a relative word after a change of directory that misleads
\* it, or before one; a bare name read from inside the folder or after a change
\* of directory; the assistant's own mounts.
Residual(c, n, means) ==
    LET w == c.cmd.word
    IN  \/ w.form = "opaque"
        \/ /\ w.form = "wild"
           /\ \/ means = "config" \/ w.ns = "mnt"
              \/ \A d \in Over[n] :
                    \/ marker[d] = None \/ w.base \notin Over[d]
                    \/ Fails("walk", d) \/ Fails("marker", d) \/ Fails("stat", d)
        \/ w.form \in {"rel", "bare"} /\ Misled(c.cmd)
        \/ /\ w.form = "rel" /\ c.cmd.cd \in {"plain", "spaced"} /\ ~c.cmd.after
           /\ c.cmd.cwd.ns = "host"
        \/ /\ w.form = "bare"
           /\ \/ c.cmd.cd # "none" /\ c.cmd.after
              \/ c.cmd.cwd.ns = "mnt"
              \/ RootsOver(Leads[w.node]) \cap Over[c.cmd.cwd.dir] # {}
        \/ InOwnMount(c, means)

\* GuardHolds: a call that the guard lets pass reads nothing that one marker
\* or the configuration protected from the hook's start to its verdict, with
\* no allow list or opt-out in between, whatever the user edits and through
\* whichever link, relative path or change of directory the call names it, but
\* for a search from above, look-ups that failed and what the guard gives up for
\* shell commands (guard.py: main, _main).
GuardHolds ==
    pc = "done" /\ verdict = "allow" =>
        \A n \in ReadBy(call) : \A means \in {"marker", "config"} :
            <<n, means>> \in kept =>
                \/ call.kind = "search"
                \/ SearchedFromAbove(call, n, means) \/ LookupsFailed(call, means)
                \/ call.kind = "bash" /\ Residual(call, n, means)

\* DenialsHaveReasons: a call of a file tool is denied only if, since the
\* hook started, its path was protected, a configuration was unreadable or
\* the guard failed for good, or because a link was taken for the file; a call
\* that touches no file is never denied because the guard failed
\* (guard.py:1402, _touches_no_file).
DenialsHaveReasons ==
    pc = "done" /\ verdict = "deny" /\ call.kind # "bash" =>
        \/ met \cap {"torn", "unread"} # {}
        \/ call.kind \notin {"mail", "nofile"} /\ met \cap {call.node, "error"} # {}
        \/ call.kind = "file" /\ Fails("link", call.node)
=============================================================================
