---------------------------- MODULE ToolSelection ----------------------------
(***************************************************************************)
(* Which tools a process serves: parseOptions with the config file, the    *)
(* environment and the flags, resolveEnabledTools, the gates of            *)
(* validateOptions, and the controller, whose choice of tiers is passed on *)
(* to the agent it launches in the session.                                *)
(*                                                                         *)
(* A setting a source leaves alone is Unset there.  Names of tools are     *)
(* compared without regard to case in the code, so a name is a tool or     *)
(* unknown.  Settings that decide nothing here (ports, logging, the text   *)
(* of errors) are left out.                                                *)
(***************************************************************************)
EXTENDS Integers

CONSTANTS
  Tier1, Tier2, Tier3,
  Unset,
  Files,       \* config files there may be
  NoFile,      \* what a missing one amounts to, a member of Files
  Keys,        \* auth keys; "" is none
  CommandLines \* flags an operator may start a standalone agent with

Tools == Tier1 \cup Tier2 \cup Tier3

ASSUME TiersAssumption ==
  Tier1 \cap Tier2 = {} /\ Tier1 \cap Tier3 = {} /\ Tier2 \cap Tier3 = {}
ASSUME NoFileAssumption ==
  /\ NoFile \in Files
  /\ NoFile.tier3 = Unset /\ NoFile.noTier2 = Unset
  /\ NoFile.enable = {} /\ NoFile.exclude = {}
ASSUME UnsetAssumption == Unset \notin BOOLEAN /\ Unset # {}

VARIABLES
  stage,    \* new, refused, serving (standalone), controlling, relaying
  opts,     \* the options of the process the client talks to
  file,     \* the config file its agent found
  flags,    \* the flags its agent was started with
  agent     \* the tools its agent serves

vars == <<stage, opts, file, flags, agent>>

NoOptions == [transport |-> "none"]

TypeOK ==
  /\ stage \in {"new", "refused", "serving", "controlling", "relaying"}
  /\ file \in Files
  /\ stage \in {"serving", "relaying"} => agent \subseteq Tools
  /\ stage \in {"serving", "controlling", "relaying"} => opts.enabled \subseteq Tools

Init ==
  /\ stage = "new"
  /\ opts = NoOptions
  /\ file = NoFile
  /\ flags = NoOptions
  /\ agent = {}

-----------------------------------------------------------------------------
(* Mutant: the file has the last word. *)
PickFileLast(fileValue, envValue, flagValue, default) ==
  IF fileValue # Unset THEN fileValue
  ELSE IF flagValue # Unset THEN flagValue
  ELSE IF envValue # Unset THEN envValue
  ELSE default

\* The precedence chain: default, config file, environment, flag.
Pick(fileValue, envValue, flagValue, default) ==
  IF flagValue # Unset THEN flagValue
  ELSE IF envValue # Unset THEN envValue
  ELSE IF fileValue # Unset THEN fileValue
  ELSE default

PickBool(fileValue, flagValue) == Pick(fileValue, Unset, flagValue, FALSE)

\* A list on the command line replaces the file's, an empty one too.
PickList(fileList, flagList) == IF flagList # Unset THEN flagList ELSE fileList

\* An explicit list wins over the tiers; an empty one is none.
Selected(sel) ==
  IF sel.explicit # {} THEN sel.explicit
  ELSE IF sel.all THEN Tools
  ELSE Tier1 \cup (IF sel.noTier2 THEN {} ELSE Tier2) \cup (IF sel.tier3 THEN Tier3 ELSE {})

KnownNames(sel) == sel.explicit \subseteq Tools /\ sel.exclude \subseteq Tools

(* Mutant: an explicit list is taken as it is. *)
EnabledAsListed(sel) ==
  IF sel.explicit # {} THEN sel.explicit ELSE Selected(sel) \ sel.exclude

\* Exclusions are taken off last.
Enabled(sel) == Selected(sel) \ sel.exclude

Selection(f, c) ==
  [explicit |-> PickList(f.enable, c.tools),
   exclude  |-> PickList(f.exclude, c.exclude),
   all      |-> c.all,
   tier3    |-> PickBool(f.tier3, c.tier3),
   noTier2  |-> PickBool(f.noTier2, c.noTier2)]

Options(f, env, c) ==
  [transport |-> c.transport,
   dir       |-> c.dir,
   loopback  |-> Pick(f.loopback, Unset, c.loopback, TRUE),
   authKey   |-> Pick(f.authKey, IF env = "" THEN Unset ELSE env, c.authKey, ""),
   insecure  |-> PickBool(f.insecure, c.insecure),
   oauth     |-> c.oauth,
   tls       |-> c.tls,
   enabled   |-> Enabled(Selection(f, c))]

Authenticated(o) == o.authKey # "" \/ o.oauth \in {"complete", "no redirect"}

(* Mutant: the acknowledgement covers every tool. *)
NetworkGateAcknowledged(o) ==
  o.transport = "stdio" \/ o.loopback \/ Authenticated(o) \/ o.insecure

\* What an HTTP server, reachable from other machines, must have.
NetworkGate(o) ==
  \/ o.transport = "stdio" \/ o.loopback \/ Authenticated(o)
  \/ o.enabled \cap Tier3 = {} /\ o.insecure

Valid(o) ==
  \/ o.transport = "dir" /\ o.dir
  \/ /\ o.transport \in {"stdio", "streamable-http"}
     /\ o.oauth \in {"none", "complete"}
     /\ o.tls \in {"none", "complete"}
     /\ NetworkGate(o)

-----------------------------------------------------------------------------
Starts(f, env, c) == KnownNames(Selection(f, c)) /\ Valid(Options(f, env, c))

\* An operator starts a standalone agent.
Start(f, env, c) ==
  /\ stage = "new"
  /\ Starts(f, env, c)
  /\ stage' = "serving"
  /\ opts' = Options(f, env, c)
  /\ agent' = opts'.enabled
  /\ file' = f /\ flags' = c

StartRefused(f, env, c) ==
  /\ stage = "new"
  /\ ~Starts(f, env, c)
  /\ stage' = "refused"
  /\ UNCHANGED <<opts, file, flags, agent>>

\* An operator starts a controller, which has the toggles only.
Control(all, tier3, noTier2) ==
  /\ stage = "new"
  /\ stage' = "controlling"
  /\ LET sel == [explicit |-> {}, exclude |-> {}, all |-> all,
                 tier3 |-> tier3, noTier2 |-> noTier2]
     IN  opts' = [transport |-> "control", enabled |-> Enabled(sel)]
  /\ UNCHANGED <<file, flags, agent>>

(* Mutant: tier 2 is left at its default. *)
tierFlagsUp(enabled) ==
  [transport |-> "dir", dir |-> TRUE, all |-> FALSE,
   tier3   |-> IF enabled \cap Tier3 # {} THEN TRUE ELSE Unset,
   noTier2 |-> Unset,
   tools |-> Unset, exclude |-> Unset,
   loopback |-> Unset, authKey |-> Unset, insecure |-> Unset,
   oauth |-> "none", tls |-> "none"]

\* The flags that stand for a set of tools on the agent's command line.
tierFlags(enabled) ==
  [transport |-> "dir", dir |-> TRUE, all |-> FALSE,
   tier3   |-> IF enabled \cap Tier3 # {} THEN TRUE ELSE Unset,
   noTier2 |-> IF enabled \cap Tier2 = {} THEN TRUE ELSE Unset,
   tools |-> Unset, exclude |-> Unset,
   loopback |-> Unset, authKey |-> Unset, insecure |-> Unset,
   oauth |-> "none", tls |-> "none"]

\* The bootstrap has launched the agent, which reads the config file of the
\* user it runs as, if there is one.
Launch(f, env) ==
  /\ stage = "controlling"
  /\ LET c == tierFlags(opts.enabled)
     IN  /\ Starts(f, env, c)
         /\ agent' = Options(f, env, c).enabled
         /\ flags' = c
  /\ stage' = "relaying"
  /\ file' = f
  /\ UNCHANGED opts

Next ==
  \/ /\ stage = "new"
     /\ \/ \E f \in Files, env \in Keys, c \in CommandLines :
             Start(f, env, c) \/ StartRefused(f, env, c)
        \/ \E all, tier3, noTier2 \in BOOLEAN : Control(all, tier3, noTier2)
  \/ \E f \in Files, env \in Keys : Launch(f, env)

Spec == Init /\ [][Next]_vars
-----------------------------------------------------------------------------
(* Properties *)

\* The last source that speaks of a setting says v.
LastSays(v, flagValue, fileValue) ==
  (flagValue = v) \/ (flagValue = Unset /\ fileValue = v)

\* No tier 3 tool is served on a network bind without authentication, however
\* it came to be enabled and whatever was acknowledged, and the other tools
\* only if the last source that speaks of it allows that.
NetworkNeedsKey ==
  /\ stage = "serving" /\ flags.transport = "streamable-http"
  /\ LastSays(FALSE, flags.loopback, file.loopback)
  /\ opts.authKey = "" /\ flags.oauth # "complete"
  => agent \cap Tier3 = {} /\ LastSays(TRUE, flags.insecure, file.insecure)

\* A tier 3 tool is served only if an explicit list in force names it or,
\* without one, the last source that speaks of tier 3 asks for it.
Tier3OnlyIfAsked ==
  stage = "serving" =>
    \A t \in agent \cap Tier3 :
      LET list == IF flags.tools # Unset THEN flags.tools ELSE file.enable
      IN  \/ t \in list
          \/ list = {} /\ (flags.all \/ LastSays(TRUE, flags.tier3, file.tier3))

\* What is excluded by the source in force is not served, listed or not.
ExcludedStayOff ==
  stage = "serving" =>
    agent \cap (IF flags.exclude # Unset THEN flags.exclude ELSE file.exclude) = {}

\* An agent that finds no config file, or one that is silent about tools,
\* serves what its controller lists.
SurfaceReproduced ==
  /\ stage = "relaying"
  /\ file.tier3 = Unset /\ file.noTier2 = Unset /\ file.enable = {} /\ file.exclude = {}
  => agent = opts.enabled

\* tierFlags "reproduces the controller's tool selection on the agent, so the
\* agent enables the same surface".
SameSurface == stage = "relaying" => agent = opts.enabled
=============================================================================
