--------------------------- MODULE PhasePresence ----------------------------
(***************************************************************************)
(* The rules of the compositional models by which phases appear and vanish *)
(* at a degree of freedom: update_ of porousmediumflow/{2pnc, co2, 2p1c,   *)
(* richards, 3p3c, 3pwateroil}/primaryvariableswitch.hh.  Which phases     *)
(* are present decides what the primary variables mean.                    *)
(*                                                                         *)
(* The phases are w, g and n; of two phases the first (liquid) is w and    *)
(* the second g, and k a component that is neither's.  A variable is       *)
(* represented by the quantity it holds, an iterate by how far each phase  *)
(* is beyond its threshold: `slight' is beyond the usual one only, `far'   *)
(* also beyond the one of a degree of freedom that is flagged.             *)
(***************************************************************************)
CONSTANT Models

PresenceAssumption ==
    Models \subseteq {"2pnc", "co2", "2p1c", "richards", "3p3c", "3pwateroil", "3pwateroil_gas"}

ASSUME PresenceAssumption

W == {"w"}
G == {"g"}
N == {"n"}
WG == {"w", "g"}
WN == {"w", "n"}
GN == {"g", "n"}
WGN == {"w", "g", "n"}

x(phase, comp) == <<"mole fraction", phase, comp>>
S(phase) == <<"saturation", phase>>
P(phase) == <<"pressure", phase>>
T == <<"temperature">>
Little == <<"little">>   \* 0.0, 0.0001 and the like
Most == <<"most">>       \* 0.9999 and the like

VARIABLES
    model, formulation,
    presence,   \* priVars.state()
    before,     \* the presence before the last call
    priVars,    \* [names of variables -> quantities]
    isFlagged,  \* wasSwitched_ of the degree of freedom
    excess,     \* of the iterate: [phases -> {"none", "slight", "far"}]
    due         \* the switch has not seen the iterate

presenceVars == <<model, formulation, presence, before, priVars, isFlagged, excess, due>>
-----------------------------------------------------------------------------
(* What the volume variables of each model read for each presence that     *)
(* they accept, the pressure left out where its meaning never changes.     *)
ReadSaturation == IF formulation = "p0s1" THEN S("g") ELSE S("w")

Reads2pnc ==
    [s \in {W, G, WG} |->
        CASE s = W  -> [s1 |-> x("w", "g"), s2 |-> x("w", "k")]
          [] s = G  -> [s1 |-> x("g", "w"), s2 |-> x("g", "k")]
          [] s = WG -> [s1 |-> ReadSaturation, s2 |-> x("w", "k")]]

ReadsCO2 ==
    [s \in {W, G, WG} |->
        CASE s = W  -> [s1 |-> x("w", "g")]
          [] s = G  -> [s1 |-> x("g", "w")]
          [] s = WG -> [s1 |-> ReadSaturation]]

Reads2p1c ==
    [s \in {W, G, WG} |-> IF s = WG THEN [s1 |-> ReadSaturation] ELSE [s1 |-> T]]

ReadsRichards ==
    [s \in {G, WG} |-> IF s = G THEN [s1 |-> x("g", "w")] ELSE [s1 |-> P("w")]]

Reads3p3c ==
    [s \in {WGN, WG, WN, GN, W, G} |->
        CASE s = WGN -> [s1 |-> S("w"), s2 |-> S("n")]
          [] s = WG  -> [s1 |-> S("w"), s2 |-> x("g", "n")]
          [] s = WN  -> [s1 |-> x("w", "g"), s2 |-> S("n")]
          [] s = GN  -> [s1 |-> x("g", "w"), s2 |-> S("n")]
          [] s = W   -> [s1 |-> x("w", "g"), s2 |-> x("w", "n")]
          [] s = G   -> [s1 |-> x("g", "w"), s2 |-> x("g", "n")]]

Reads3pwateroil ==
    [s \in {WGN, WG, WN, GN, W, G} |->
        CASE s = WGN -> [p |-> P("g"), s1 |-> S("w"), s2 |-> S("n")]
          [] s = WG  -> [p |-> P("g"), s1 |-> S("w"), s2 |-> x("g", "n")]
          [] s = WN  -> [p |-> P("w"), s1 |-> T, s2 |-> S("n")]
          [] s = GN  -> [p |-> P("g"), s1 |-> S("n"), s2 |-> x("n", "w")]
          [] s = W   -> [p |-> P("w"), s1 |-> T, s2 |-> x("w", "n")]
          [] s = G   -> [p |-> P("g"), s1 |-> T, s2 |-> x("g", "n")]]

(* The simple variant, OnlyGasPhaseCanDisappear, accepts two presences.    *)
Reads(m) ==
    CASE m = "2pnc" -> Reads2pnc [] m = "co2" -> ReadsCO2 [] m = "2p1c" -> Reads2p1c
      [] m = "richards" -> ReadsRichards [] m = "3p3c" -> Reads3p3c
      [] m = "3pwateroil" -> Reads3pwateroil
      [] m = "3pwateroil_gas" -> [s \in {WGN, WN} |-> Reads3pwateroil[s]]

PhasesOf(m) == UNION DOMAIN Reads(m)
-----------------------------------------------------------------------------
(* The rules: the presence before, the phases that pass, the presence      *)
(* after and the variables written.                                        *)
Rule(from, by, to, vars) == [from |-> from, by |-> by, to |-> to, vars |-> vars]

(* Mutant: the formulations are mixed up. *)
FreshOther(first) == IF (formulation = "p1s0") = first THEN Most ELSE Little

(* The saturation written when the first or the second phase appears.      *)
Fresh(first) == IF (formulation = "p1s0") = first THEN Little ELSE Most

Rules2pnc == {
    Rule(WG, W, G, [s1 |-> x("g", "w"), s2 |-> x("g", "k")]),
    Rule(WG, G, W, [s1 |-> x("w", "g")]),
    Rule(G, W, WG, [s1 |-> Fresh(TRUE), s2 |-> x("w", "k")]),
    Rule(W, G, WG, [s1 |-> Fresh(FALSE)])}

RulesCO2 == {
    Rule(WG, G, W, [s1 |-> x("w", "g")]),
    Rule(WG, W, G, [s1 |-> x("g", "w")]),
    Rule(G, W, WG, [s1 |-> Fresh(TRUE)]),
    Rule(W, G, WG, [s1 |-> Fresh(FALSE)])}

Rules2p1c == {
    Rule(WG, G, W, [s1 |-> T]), Rule(WG, W, G, [s1 |-> T]),
    Rule(W, G, WG, [s1 |-> Fresh(FALSE)]), Rule(G, W, WG, [s1 |-> Fresh(TRUE)])}

RulesRichards == {Rule(WG, W, G, [s1 |-> x("g", "w")]), Rule(G, W, WG, [s1 |-> Little])}

Rules3p3c == {
    Rule(WGN, G, WN, [s1 |-> x("w", "g")]),
    Rule(WGN, W, GN, [s1 |-> x("g", "w")]),
    Rule(WGN, N, WG, [s2 |-> x("g", "n")]),
    Rule(W, G, WG, [s1 |-> Most, s2 |-> Little]),
    Rule(W, GN, WGN, [s1 |-> Most, s2 |-> Little]),
    Rule(W, N, WN, [s1 |-> x("w", "g"), s2 |-> Little]),
    Rule(GN, W, WGN, [s1 |-> Little, s2 |-> S("n")]),
    Rule(GN, WN, WG, [s1 |-> Little, s2 |-> x("g", "n")]),
    Rule(GN, N, G, [s1 |-> x("g", "w"), s2 |-> x("g", "n")]),
    Rule(WN, G, WGN, [s1 |-> S("w"), s2 |-> S("n")]),
    Rule(WN, GN, WG, [s1 |-> S("w"), s2 |-> x("g", "n")]),
    Rule(WN, N, W, [s1 |-> x("w", "g"), s2 |-> x("w", "n")]),
    Rule(G, W, WG, [s1 |-> Little, s2 |-> x("g", "n")]),
    Rule(G, WN, WGN, [s1 |-> Little, s2 |-> Little]),
    Rule(G, N, GN, [s1 |-> x("g", "w"), s2 |-> Little]),
    Rule(WG, WN, GN, [s1 |-> x("g", "w"), s2 |-> Little]),
    Rule(WG, N, WGN, [s1 |-> S("w"), s2 |-> Little]),
    Rule(WG, G, W, [s1 |-> x("w", "g"), s2 |-> x("w", "n")]),
    Rule(WG, W, G, [s1 |-> x("g", "w"), s2 |-> x("g", "n")])}

Rules3pwateroilGas == {
    Rule(WGN, G, WN, [p |-> P("w"), s1 |-> T]),
    Rule(WN, G, WGN, [p |-> P("g"), s1 |-> S("w")])}

(* The first rule assigns FluidSystem::gPhaseIdx, the number of wPhaseOnly. *)
Rules3pwateroil == {
    Rule(WGN, G, W, [p |-> P("w"), s1 |-> T]),
    Rule(WGN, W, GN, [s1 |-> S("n"), s2 |-> x("n", "w")]),
    Rule(WGN, N, WG, [s2 |-> x("w", "n")]),
    Rule(W, G, WG, [p |-> P("g"), s1 |-> Most]),
    Rule(W, GN, WGN, [p |-> P("g"), s1 |-> Most]),
    Rule(W, N, WN, [s2 |-> Little]),
    Rule(GN, W, WGN, [s1 |-> Little, s2 |-> S("n")]),
    Rule(GN, WN, WG, [s1 |-> Little, s2 |-> x("w", "n")]),
    Rule(GN, N, G, [s1 |-> T, s2 |-> x("g", "n")]),
    Rule(WN, G, WGN, [p |-> P("g"), s1 |-> S("w")]),
    Rule(WN, GN, WG, [p |-> P("g"), s1 |-> T, s2 |-> x("w", "n")]),
    Rule(WN, N, W, [s2 |-> x("w", "n")]),
    Rule(G, W, WG, [s1 |-> Little, s2 |-> x("w", "n")]),
    Rule(G, WN, WGN, [s1 |-> Little, s2 |-> Little]),
    Rule(G, N, GN, [s2 |-> x("w", "n")]),
    Rule(WG, WN, GN, [s1 |-> Little, s2 |-> x("n", "w")]),
    Rule(WG, N, WGN, [s2 |-> Little]),
    Rule(WG, G, W, [p |-> P("w"), s1 |-> T, s2 |-> x("w", "n")]),
    Rule(WG, W, G, [s1 |-> T, s2 |-> x("g", "n")])}

RulesOf(m) ==
    CASE m = "2pnc" -> Rules2pnc [] m = "co2" -> RulesCO2 [] m = "2p1c" -> Rules2p1c
      [] m = "richards" -> RulesRichards [] m = "3p3c" -> Rules3p3c
      [] m = "3pwateroil" -> Rules3pwateroil [] m = "3pwateroil_gas" -> Rules3pwateroilGas

(* With all phases present the code asks for one after the other.          *)
Precedes(m, a, b) ==
    <<a, b>> \in IF m = "2pnc" THEN {<<"w", "g">>} ELSE {<<"g", "w">>, <<"g", "n">>, <<"w", "n">>}
-----------------------------------------------------------------------------
Tested == UNION {r.by : r \in {q \in RulesOf(model) : q.from = presence}}

(* Whether a phase is beyond the threshold that counts.  A phase of 2p1c   *)
(* appears at the vapor temperature, flagged or not.                       *)
Passes(a) ==
    \/ excess[a] = "far"
    \/ excess[a] = "slight" /\ (isFlagged => model = "2p1c" /\ a \notin presence)

Passing ==
    LET passing == {a \in Tested : Passes(a)}
    IN  IF presence = PhasesOf(model)
        THEN {a \in passing : \A b \in passing : ~Precedes(model, b, a)}
        ELSE passing

(* Mutant: only a phase that passes sets the flag. *)
WouldSwitchNow == \E a \in Tested : Passes(a)

(* The flag is set as soon as an absent phase is beyond the usual threshold *)
(* but for a phase that is present only if it passes.                       *)
WouldSwitch ==
    \E a \in Tested : IF a \in presence THEN Passes(a) ELSE excess[a] # "none"

(* The saturations add up to one: not all that are present are below zero. *)
Excesses(present) ==
    {e \in [PhasesOf(model) -> {"none", "slight", "far"}] : \E a \in present : e[a] = "none"}

(* The variables after some of them have been written. *)
Written(vars, old) ==
    [v \in DOMAIN vars \cup DOMAIN old |-> IF v \in DOMAIN vars THEN vars[v] ELSE old[v]]

PresenceTypeOK ==
    /\ model \in Models /\ formulation \in {"p0s1", "p1s0"}
    /\ {presence, before} \subseteq DOMAIN Reads(model)
    /\ DOMAIN priVars = {"p", "s1", "s2"}
    /\ isFlagged \in BOOLEAN /\ due \in BOOLEAN
    /\ DOMAIN excess = PhasesOf(model)

(* A flag may be left over from an earlier solve: reset() does not clear it. *)
PresenceInit ==
    /\ model \in Models /\ formulation \in {"p0s1", "p1s0"}
    /\ presence \in DOMAIN Reads(model) /\ before = presence
    /\ priVars = Written(Reads(model)[presence], [v \in {"p", "s1", "s2"} |-> <<"unused">>])
    /\ isFlagged \in BOOLEAN
    /\ due = FALSE
    /\ excess \in Excesses(presence)

(* A Newton update: the variables are what the presence reads them as.     *)
NewIterate ==
    /\ ~due /\ due' = TRUE
    /\ excess' \in Excesses(presence)
    /\ priVars' = Written(Reads(model)[presence], priVars)
    /\ UNCHANGED <<model, formulation, presence, before, isFlagged>>

(* update_: a combination of phases without a rule changes nothing.        *)
UpdateDof ==
    /\ due /\ due' = FALSE
    /\ before' = presence
    /\ isFlagged' = WouldSwitch
    /\ LET rules == {r \in RulesOf(model) : r.from = presence /\ r.by = Passing}
       IN  \/ rules = {} /\ UNCHANGED <<presence, priVars>>
           \/ \E r \in rules : presence' = r.to /\ priVars' = Written(r.vars, priVars)
    /\ UNCHANGED <<model, formulation, excess>>

PresenceNext == NewIterate \/ UpdateDof

PresenceSpec == PresenceInit /\ [][PresenceNext]_presenceVars
-----------------------------------------------------------------------------
(* A variable holds what is read: the quantity itself, or a constant that  *)
(* is near the value the quantity has for a phase that has just appeared.  *)
Fits(held, read) ==
    \/ held = read
    \/ /\ held = Little
       /\ \/ \E a \in presence \ before : read \in {S(a), P(a)}
          \/ \E a \in presence, c \in WGN \ presence : read = x(a, c)
    \/ held = Most /\ \E a \in before : read = S(a)

(* Only phases that are beyond a threshold appear or vanish.               *)
PhasesFlip ==
    ~due => \A a \in (presence \ before) \cup (before \ presence) : excess[a] # "none"

(* After each switch the presence follows the thresholds, and the variables *)
(* hold what the volume variables, another class, read for it.              *)
SwitchedVarsFit ==
    /\ PhasesFlip
    /\ LET read == Reads(model)[presence]
       IN  \A v \in DOMAIN read : Fits(priVars[v], read[v])

(* While the iterates stay near the thresholds a degree of freedom does    *)
(* not switch to and fro for ever, which would keep the Newton method from *)
(* converging: the flag survives while the phase would still appear.  Not  *)
(* so in 2p1c, whose phases appear without regard to the flag.             *)
SettlesDown ==
    model # "2p1c" =>
        (<>[][excess' = excess /\ \A a \in DOMAIN excess : excess[a] # "far"]_presenceVars
            => <>[][presence' = presence]_presenceVars)
=============================================================================
