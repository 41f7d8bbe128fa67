------------------------------- MODULE MCHooks -------------------------------
(***************************************************************************)
(* Small instances of the hooks.  Their installation: two processes, two   *)
(* versions of the plugin, one entry of the user's own.  The guard: a      *)
(* client folder with a folder that may be allowed, a folder to work in    *)
(* with a link into the client folder, a project folder that is the        *)
(* assistant's own outputs, and two mounts of the sandbox, the client      *)
(* folder and the outputs.                                                 *)
(***************************************************************************)
EXTENDS Hooks, TLC

CONSTANTS s1, s2

MCProc == {s1, s2}
Perms  == Permutations(MCProc)

MCFile   == {"avis", "clean.txt", "notes", "link", "client.marker"}
MCFolder == {"home", "client", "clean", "work", "outputs"}
MCOver   == [home |-> {"home"}, client |-> {"home", "client"},
             clean |-> {"home", "client", "clean"},
             work |-> {"home", "work"}, outputs |-> {"outputs"}] @@
            ("avis" :> {"home", "client"}) @@ ("clean.txt" :> {"home", "client", "clean"}) @@
            ("notes" :> {"home", "work"}) @@ ("link" :> {"home", "work"}) @@
            ("client.marker" :> {"home", "client"})
MCDepth  == [home |-> 0, client |-> 1, clean |-> 2, work |-> 1, outputs |-> 1]
MCLeads  == [n \in MCFile \cup MCFolder |-> IF n = "link" THEN "avis" ELSE n]
MCExts   == [f \in MCFile |-> IF f \in {"clean.txt", "notes"} THEN "txt" ELSE "pdf"]

Free == [allow |-> {}, exts |-> {}, bash |-> TRUE]
MCMarkers == {Free, [Free EXCEPT !.allow = {"clean"}, !.bash = FALSE]}
NoConfig  == [protected |-> {}, allow |-> {}, exts |-> {}, bash |-> TRUE]
MCConfigs == {NoConfig, [NoConfig EXCEPT !.protected = {"client"}, !.exts = {"txt"}]}
MCMarkings == {"client"} \X (MCMarkers \cup {None, Torn})
              \cup {"outputs"} \X {Free, None}

At(ns, d) == [ns |-> ns, dir |-> d]
Word(form, ns, base, n) == [form |-> form, ns |-> ns, base |-> base, node |-> n]

\* What a command reads: the client's file by its path, by a link, through a
\* variable or a pattern; a folder above it; its mounts; a computed word.
Absolute == {Word("abs", "host", "work", n) : n \in {"avis", "notes", "link", "home"}}
            \cup {Word(f, "host", "home", "avis") : f \in {"var", "glob", "wild"}}
            \cup {Word("wild", "host", "clean", "clean.txt")}
            \cup {Word("abs", "mnt", "work", n) : n \in {"avis", "outputs", "home"}}
            \cup {Word("opaque", "host", "work", "avis")}

\* ... or by a name relative to the directory it is read in.
Relative(d) == {Word(f, "host", d, "avis") : f \in {"rel", "bare"}}
               \cup {Word("bare", "host", d, "link")}

Home == At("host", "work")
Cwds == {Home, At("mnt", "outputs"), At("host", "client")}

\* How a command moves: <<cd, where to, by an absolute path>>.
Seen   == {<<"plain", At("host", "outputs"), TRUE>>, <<"plain", At("mnt", "outputs"), FALSE>>,
           <<"spaced", At("host", "outputs"), FALSE>>, <<"spaced", At("mnt", "client"), TRUE>>}
Unseen == {<<"unseen", At("host", "outputs"), FALSE>>, <<"hidden", At("mnt", "outputs"), TRUE>>,
           <<"hidden", At("host", "outputs"), FALSE>>,
           <<"unresolvable", At("mnt", "client"), TRUE>>,
           <<"unresolvable", At("host", "outputs"), FALSE>>}

Stay(p, w, e) == [cwd |-> p, cd |-> "none", to |-> p, named |-> FALSE, after |-> FALSE,
                  word |-> w, reader |-> TRUE, eval |-> e]

\* A relative link is read by a command that the guard does not know to read.
Move(m, w, after) ==
    [cwd |-> Home, cd |-> m[1], to |-> m[2], named |-> m[3], after |-> after,
     word |-> w, reader |-> w.node = "avis", eval |-> FALSE]

Computed == {w \in Absolute : w.form = "opaque"}
Commands ==
    {Stay(Home, w, FALSE) : w \in Absolute} \cup {Stay(Home, w, TRUE) : w \in Computed}
    \cup {Stay(p, w, FALSE) : p \in Cwds, w \in {w \in Absolute : w.ns = "mnt"}}
    \cup UNION {{Stay(p, w, FALSE) : w \in Relative(p.dir)} : p \in Cwds}
    \cup UNION {{Move(m, w, TRUE) : w \in Relative(m[2].dir)} : m \in Seen \cup Unseen}
    \cup {Move(m, w, FALSE) : m \in Seen, w \in Relative(Home.dir)}
    \cup {Move(m, w, TRUE) : m \in Unseen,
              w \in Computed \cup {Word("abs", "host", "work", "avis")}}

ToolCall(kind, n) == [kind |-> kind, node |-> n]
MCCall == {ToolCall("file", n) : n \in MCFile \cup {"client", "home"}}
          \cup {ToolCall("search", n) : n \in {"home", "client"}}
          \cup {ToolCall(k, "avis") : k \in {"names", "mail", "nofile"}}
          \cup {[kind |-> "bash", cmd |-> c] : c \in Commands}

\* Look-ups that fail together: none; a link, a marker's text and a walk through
\* the folders; the file, and whether its folder has a marker.
MCLapses == {{}, {<<"link", "link">>, <<"read", "client">>, <<"walk", "client">>},
             {<<"stat", "avis">>, <<"marker", "client">>}}
=============================================================================
