--------------------------- MODULE MCModuleManager ---------------------------
(***************************************************************************)
(* Small instances of ModuleManager.  The names are those of real modules: *)
(* the configuration runs i3lock while locked, and, while idle, lock, the  *)
(* sender with its bus client, and xbacklight, reconfigured when locked.   *)
(***************************************************************************)
EXTENDS ModuleManager

CONSTANTS server, busClient, sender, fade, fastFade, session, i3lock, lock

MCPlain == {server, busClient, sender, fade, fastFade}
MCSession == {session}
MCLauncher == {i3lock}
MCPerSession == MCLauncher \X MCSession

MCRequires == [m \in MCPlain \cup MCSession \cup MCLauncher
                      \cup MCPerSession \cup {lock} |->
                 IF m = sender THEN {busClient} ELSE {}]

MCConfig == [c \in BOOLEAN \X BOOLEAN |->
  CASE c = <<TRUE, FALSE>> -> {lock, sender, fade}
    [] c = <<TRUE, TRUE>> -> {i3lock, sender, fastFade}
    [] c = <<FALSE, TRUE>> -> {i3lock}
    [] OTHER -> {}]

MCReconfigurable == {fade, fastFade} \X {fade, fastFade}

\* The runs with failures: xset is configured for the first threshold, which
\* changes as it passes; the sender starts and the system locks then.
CONSTANTS xset60, xset300

FailPlain == {server, busClient, sender}
FailLauncher == {xset60, xset300}
FailPerSession == FailLauncher \X MCSession
FailRequires == [m \in FailPlain \cup MCSession \cup FailLauncher
                        \cup FailPerSession \cup {lock} |->
                   IF m = sender THEN {busClient} ELSE {}]
FailConfig == [c \in BOOLEAN \X BOOLEAN |->
  CASE c = <<TRUE, FALSE>> -> {xset300, sender, lock}
    [] c = <<TRUE, TRUE>> -> {xset300, sender}
    [] OTHER -> {xset60}]
FailMisfit == {p \in FailPerSession \X FailPerSession : p[1] # p[2]}
FailMayFailStart == FailPerSession \cup {session, busClient}
FailMayFailStop == FailPerSession \cup {busClient}

\* A smaller instance, without the sender and its dependency.
SmallPlain == {server}
SmallRequires == [m \in SmallPlain \cup MCSession \cup FailLauncher
                         \cup FailPerSession \cup {lock} |-> {}]
SmallConfig == [c \in BOOLEAN \X BOOLEAN |-> FailConfig[c] \ {sender}]
=============================================================================
