------------------------- MODULE ToolSelectionProofs -------------------------
(***************************************************************************)
(* Theorems about ToolSelection for any tiers that do not overlap, and any *)
(* files, keys and command lines.                                          *)
(***************************************************************************)
EXTENDS ToolSelection, TLAPS

(* What a controller makes of its three toggles.                           *)
Toggles(all, tier3, noTier2) ==
  [explicit |-> {}, exclude |-> {}, all |-> all, tier3 |-> tier3, noTier2 |-> noTier2]

(* Where the tools of every process come from.                             *)
Origin ==
  /\ stage \in {"new", "refused", "serving", "controlling", "relaying"}
  /\ file \in Files
  /\ stage \in {"new", "controlling"} => file = NoFile
  /\ stage = "serving" =>
       \E env \in Keys :
         /\ Starts(file, env, flags)
         /\ opts = Options(file, env, flags)
         /\ agent = opts.enabled
  /\ stage \in {"controlling", "relaying"} =>
       \E all, tier3, noTier2 \in BOOLEAN : opts.enabled = Enabled(Toggles(all, tier3, noTier2))
  /\ stage = "relaying" =>
       /\ flags = tierFlags(opts.enabled)
       /\ KnownNames(Selection(file, flags))
       /\ agent = Enabled(Selection(file, flags))

LEMMA OriginInit == Init => Origin
BY NoFileAssumption DEF Init, Origin

LEMMA OriginNext == Origin /\ [Next]_vars => Origin'
<1> SUFFICES ASSUME Origin, [Next]_vars PROVE Origin'
  OBVIOUS
<1>1. ASSUME NEW f \in Files, NEW env \in Keys, NEW c \in CommandLines, Start(f, env, c)
      PROVE  Origin'
  BY <1>1 DEF Start, Origin
<1>2. ASSUME NEW f \in Files, NEW env \in Keys, NEW c \in CommandLines,
             StartRefused(f, env, c)
      PROVE  Origin'
  BY <1>2 DEF StartRefused, Origin
<1>3. ASSUME NEW all \in BOOLEAN, NEW tier3 \in BOOLEAN, NEW noTier2 \in BOOLEAN,
             Control(all, tier3, noTier2)
      PROVE  Origin'
  <2>1. opts'.enabled = Enabled(Toggles(all, tier3, noTier2))
    BY <1>3 DEF Control, Toggles
  <2>2. stage = "new" /\ stage' = "controlling" /\ file' = file
    BY <1>3 DEF Control
  <2>3. QED
    BY <2>1, <2>2 DEF Origin
<1>4. ASSUME NEW f \in Files, NEW env \in Keys, Launch(f, env) PROVE Origin'
  <2>1. /\ stage = "controlling" /\ stage' = "relaying" /\ file' = f /\ opts' = opts
        /\ flags' = tierFlags(opts.enabled)
        /\ KnownNames(Selection(f, flags'))
        /\ agent' = Enabled(Selection(f, flags'))
    BY <1>4 DEF Launch, Starts, Options
  <2>2. QED
    BY <2>1 DEF Origin
<1>5. ASSUME UNCHANGED vars PROVE Origin'
  BY <1>5 DEF vars, Origin
<1>6. QED
  BY <1>1, <1>2, <1>3, <1>4, <1>5 DEF Next

LEMMA OriginAlways == Spec => []Origin
BY OriginInit, OriginNext, PTL DEF Spec

(* Known names select known tools.                                         *)
LEMMA EnabledKnown ==
  ASSUME NEW sel, KnownNames(sel)
  PROVE  Enabled(sel) \subseteq Tools
BY DEF KnownNames, Enabled, Selected, Tools

(* Every reachable state is well typed: whatever a process serves or lists *)
(* is a tool.                                                              *)
THEOREM TypeCorrect == Spec => []TypeOK
<1>1. ASSUME Origin PROVE TypeOK
  <2>1. stage = "serving" => agent \subseteq Tools /\ opts.enabled \subseteq Tools
    <3>1. SUFFICES ASSUME stage = "serving"
                   PROVE  agent \subseteq Tools /\ opts.enabled \subseteq Tools
      OBVIOUS
    <3>2. PICK env \in Keys : /\ KnownNames(Selection(file, flags))
                              /\ opts = Options(file, env, flags)
                              /\ agent = opts.enabled
      BY <1>1, <3>1 DEF Origin, Starts
    <3>3. opts.enabled = Enabled(Selection(file, flags))
      BY <3>2 DEF Options
    <3>4. QED
      BY <3>2, <3>3, EnabledKnown
  <2>2. stage \in {"controlling", "relaying"} => opts.enabled \subseteq Tools
    BY <1>1 DEF Origin, Toggles, Enabled, Selected, Tools
  <2>3. stage = "relaying" => agent \subseteq Tools
    BY <1>1, EnabledKnown DEF Origin
  <2>4. QED
    BY <1>1, <2>1, <2>2, <2>3 DEF TypeOK, Origin
<1>2. QED
  BY <1>1, OriginAlways, PTL

(* A server that other machines can reach without authenticating serves no *)
(* tier 3 tool.                                                            *)
THEOREM NetworkIsGuarded == Spec => []NetworkNeedsKey
<1>1. ASSUME Origin PROVE NetworkNeedsKey
  <2>1. SUFFICES ASSUME stage = "serving", flags.transport = "streamable-http",
                        LastSays(FALSE, flags.loopback, file.loopback),
                        opts.authKey = "", flags.oauth # "complete"
                 PROVE  agent \cap Tier3 = {} /\ LastSays(TRUE, flags.insecure, file.insecure)
    BY DEF NetworkNeedsKey
  <2>2. PICK env \in Keys : /\ Valid(opts)
                            /\ opts = Options(file, env, flags)
                            /\ agent = opts.enabled
    BY <1>1, <2>1 DEF Origin, Starts
  <2>3. /\ opts.transport = "streamable-http" /\ opts.oauth = flags.oauth
        /\ opts.loopback = Pick(file.loopback, Unset, flags.loopback, TRUE)
        /\ opts.insecure = PickBool(file.insecure, flags.insecure)
    BY <2>1, <2>2 DEF Options
  <2>4. opts.loopback = FALSE
    BY <2>1, <2>3, UnsetAssumption DEF Pick, LastSays
  <2>5. NetworkGate(opts) /\ ~Authenticated(opts)
    BY <2>1, <2>2, <2>3 DEF Valid, Authenticated
  <2>6. opts.enabled \cap Tier3 = {} /\ opts.insecure
    BY <2>3, <2>4, <2>5 DEF NetworkGate
  <2>7. LastSays(TRUE, flags.insecure, file.insecure)
    BY <2>3, <2>6 DEF PickBool, Pick, LastSays
  <2>8. QED
    BY <2>2, <2>6, <2>7
<1>2. QED
  BY <1>1, OriginAlways, PTL

(* Nothing but an explicit list, the switch for all tools or the last word *)
(* on tier 3 brings a tier 3 tool.                                         *)
THEOREM Tier3IsAskedFor == Spec => []Tier3OnlyIfAsked
<1>1. ASSUME Origin PROVE Tier3OnlyIfAsked
  <2>1. SUFFICES ASSUME stage = "serving", NEW t \in agent \cap Tier3
                 PROVE  \/ t \in PickList(file.enable, flags.tools)
                        \/ /\ PickList(file.enable, flags.tools) = {}
                           /\ flags.all \/ LastSays(TRUE, flags.tier3, file.tier3)
    BY DEF Tier3OnlyIfAsked, PickList
  <2>2. PICK env \in Keys : opts = Options(file, env, flags) /\ agent = opts.enabled
    BY <1>1, <2>1 DEF Origin
  <2> DEFINE sel == Selection(file, flags)
  <2>3. agent = Enabled(sel)
    BY <2>2 DEF Options
  <2>4. /\ sel.explicit = PickList(file.enable, flags.tools)
        /\ sel.all = flags.all
        /\ sel.tier3 = PickBool(file.tier3, flags.tier3)
    BY DEF Selection
  <2> HIDE DEF sel
  <2>5. CASE sel.explicit # {}
    BY <2>1, <2>3, <2>4, <2>5 DEF Enabled, Selected
  <2>6. CASE sel.explicit = {} /\ ~sel.all
    <3>1. sel.tier3
      BY <2>1, <2>3, <2>6, TiersAssumption DEF Enabled, Selected
    <3>2. LastSays(TRUE, flags.tier3, file.tier3)
      BY <3>1, <2>4 DEF PickBool, Pick, LastSays
    <3>3. QED
      BY <2>4, <2>6, <3>2
  <2>7. CASE sel.explicit = {} /\ sel.all
    BY <2>4, <2>7
  <2>8. QED
    BY <2>5, <2>6, <2>7
<1>2. QED
  BY <1>1, OriginAlways, PTL

(* Excluding a tool is final.                                              *)
THEOREM ExclusionsHold == Spec => []ExcludedStayOff
<1>1. ASSUME Origin PROVE ExcludedStayOff
  <2>1. SUFFICES ASSUME stage = "serving" PROVE agent \cap PickList(file.exclude, flags.exclude) = {}
    BY DEF ExcludedStayOff, PickList
  <2>2. PICK env \in Keys : opts = Options(file, env, flags) /\ agent = opts.enabled
    BY <1>1, <2>1 DEF Origin
  <2>3. agent = Enabled(Selection(file, flags))
    BY <2>2 DEF Options
  <2>4. Selection(file, flags).exclude = PickList(file.exclude, flags.exclude)
    BY DEF Selection
  <2>5. QED
    BY <2>3, <2>4 DEF Enabled
<1>2. QED
  BY <1>1, OriginAlways, PTL

(* A silent config file leaves the agent with its controller's tools: the  *)
(* three toggles make unions of whole tiers, which the two flags of        *)
(* tierFlags tell apart because tiers do not overlap.                      *)
THEOREM SurfaceIsReproduced == Spec => []SurfaceReproduced
<1>1. ASSUME Origin PROVE SurfaceReproduced
  <2>1. SUFFICES ASSUME stage = "relaying", file.tier3 = Unset, file.noTier2 = Unset,
                        file.enable = {}, file.exclude = {}
                 PROVE  agent = opts.enabled
    BY DEF SurfaceReproduced
  <2>2. PICK all \in BOOLEAN, tier3 \in BOOLEAN, noTier2 \in BOOLEAN :
          opts.enabled = Enabled(Toggles(all, tier3, noTier2))
    BY <1>1, <2>1 DEF Origin
  <2>3. agent = Enabled(Selection(file, tierFlags(opts.enabled)))
    BY <1>1, <2>1 DEF Origin
  <2> DEFINE sel == Selection(file, tierFlags(opts.enabled))
  <2>4. /\ sel.explicit = {} /\ sel.exclude = {} /\ sel.all = FALSE
        /\ sel.tier3 = PickBool(Unset, IF opts.enabled \cap Tier3 # {} THEN TRUE ELSE Unset)
        /\ sel.noTier2 = PickBool(Unset, IF opts.enabled \cap Tier2 = {} THEN TRUE ELSE Unset)
    BY <2>1 DEF Selection, tierFlags, PickList
  <2> HIDE DEF sel
  <2>5. opts.enabled = Tier1 \cup (IF noTier2 /\ ~all THEN {} ELSE Tier2)
                             \cup (IF tier3 \/ all THEN Tier3 ELSE {})
    BY <2>2 DEF Enabled, Selected, Toggles, Tools
  <2>6. agent = Tier1 \cup (IF opts.enabled \cap Tier2 = {} THEN {} ELSE Tier2)
                      \cup (IF opts.enabled \cap Tier3 # {} THEN Tier3 ELSE {})
    <3>1. sel.tier3 <=> opts.enabled \cap Tier3 # {}
      BY <2>4, UnsetAssumption DEF PickBool, Pick
    <3>2. sel.noTier2 <=> opts.enabled \cap Tier2 = {}
      BY <2>4, UnsetAssumption DEF PickBool, Pick
    <3>3. Enabled(sel) = Tier1 \cup (IF sel.noTier2 THEN {} ELSE Tier2)
                              \cup (IF sel.tier3 THEN Tier3 ELSE {})
      BY <2>4 DEF Enabled, Selected
    <3>4. agent = Enabled(sel)
      BY <2>3 DEF sel
    <3>5. QED
      BY <3>1, <3>2, <3>3, <3>4
  <2>7. opts.enabled \cap Tier2 = IF noTier2 /\ ~all THEN {} ELSE Tier2
    BY <2>5, TiersAssumption
  <2>8. opts.enabled \cap Tier3 = IF tier3 \/ all THEN Tier3 ELSE {}
    BY <2>5, TiersAssumption
  <2>9. QED
    BY <2>5, <2>6, <2>7, <2>8
<1>2. QED
  BY <1>1, OriginAlways, PTL
=============================================================================
