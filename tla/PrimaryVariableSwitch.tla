----------------------- MODULE PrimaryVariableSwitch -----------------------
(***************************************************************************)
(* The switch of the primary variables of a compositional model            *)
(* (dumux/porousmediumflow/compositional/primaryvariableswitch.hh and its  *)
(* calls in dumux/nonlinear/newtonsolver.hh) with global caching, element  *)
(* by element: which of the cached variables follow a solution that the    *)
(* switch has rewritten.                                                   *)
(*                                                                         *)
(* The volume variables of a sub control volume, a pair of an element and  *)
(* a degree of freedom, are represented by the value of the solution they  *)
(* were computed from; the cache of a face by the values it found in the   *)
(* sub control volumes of its stencil.                                     *)
(***************************************************************************)
EXTENDS Naturals, Sequences

CONSTANTS
    SwitchDofs,       \* degrees of freedom
    ElementOrder,     \* sequence: the order in which elements(gridView) visits them
    DofsOf,           \* [elements -> SUBSET SwitchDofs]
    Faces,
    Stencil,          \* [Faces -> SUBSET Scvs]; empty for the box method
    BoundaryElements, \* elements with a boundary face; empty unless box
    DirichletDofs,    \* degrees of freedom with a Dirichlet condition
    Values            \* of the solution at a degree of freedom

VisitedElements == {ElementOrder[i] : i \in 1..Len(ElementOrder)}
Scvs == {s \in VisitedElements \X SwitchDofs : s[2] \in DofsOf[s[1]]}

SwitchAssumption ==
    /\ ElementOrder \in Seq(VisitedElements)
    /\ DofsOf \in [VisitedElements -> SUBSET SwitchDofs]
    /\ Stencil \in [Faces -> SUBSET Scvs]
    /\ BoundaryElements \subseteq VisitedElements
    /\ \A d \in DirichletDofs : \E e \in BoundaryElements : d \in DofsOf[e]

VARIABLES
    pc,           \* the part of the Newton iteration
    renewed,      \* elements whose cached variables the switch has renewed
    sol,          \* [SwitchDofs -> Values]
    wasSwitched,  \* set of flagged degrees of freedom, wasSwitched_
    volVars,      \* [Scvs -> Values]
    fluxVarsCache \* for each face, [Stencil -> Values]

switchVars == <<pc, renewed, sol, wasSwitched, volVars, fluxVarsCache>>

(* Mutant: the cache of a face keeps the volume variables of all elements. *)
FluxFromAll(vv, f) == vv

FluxFrom(vv, f) == [s \in Stencil[f] |-> vv[s]]

(* An update of all grid variables to the solution. *)
Renewed(newSol) ==
    /\ volVars' = [s \in Scvs |-> newSol[s[2]]]
    /\ fluxVarsCache' = [f \in Faces |-> FluxFrom(volVars', f)]

SwitchTypeOK ==
    /\ pc \in {"begin", "assemble", "switch", "renew"}
    /\ renewed \in 0..Len(ElementOrder)
    /\ sol \in [SwitchDofs -> Values] /\ wasSwitched \subseteq SwitchDofs
    /\ volVars \in [Scvs -> Values]
    /\ \A f \in Faces : fluxVarsCache[f] \in [Stencil[f] -> Values]

SwitchInit ==
    /\ pc = "begin" /\ renewed = 0
    /\ sol \in [SwitchDofs -> Values]
    /\ wasSwitched = {}
    /\ volVars = [s \in Scvs |-> sol[s[2]]]
    /\ fluxVarsCache = [f \in Faces |-> FluxFrom(volVars, f)]
-----------------------------------------------------------------------------
(* initPriVarSwitch_: reset() sizes the vector of flags, which has its size *)
(* after the first call; updateBoundary gives the degrees of freedom whose  *)
(* state differs from the Dirichlet condition its value and renews them in  *)
(* the elements that it does not skip.                                      *)
NewtonBegin ==
    /\ pc = "begin" /\ pc' = "assemble"
    /\ \E changed \in SUBSET DirichletDofs :
          /\ sol' \in [SwitchDofs -> Values]
          /\ \A d \in SwitchDofs : d \in changed <=> sol'[d] # sol[d]
          /\ volVars' = [s \in Scvs |->
                IF s[1] \in BoundaryElements /\ s[2] \in changed THEN sol'[s[2]] ELSE volVars[s]]
    /\ UNCHANGED <<renewed, wasSwitched, fluxVarsCache>>

(* Assembly, linear solve and update to the new iterate. *)
Iterate ==
    /\ pc = "assemble" /\ pc' = "switch"
    /\ sol' \in [SwitchDofs -> Values]
    /\ Renewed(sol')
    /\ UNCHANGED <<renewed, wasSwitched>>

(* update: the degrees of freedom that would switch are flagged, some of   *)
(* them do switch (PhasePresence says which); another process may have     *)
(* switched some of its own.                                               *)
SwitchUpdate ==
    /\ pc = "switch"
    /\ \E wouldSwitch \in SUBSET SwitchDofs : \E switched \in SUBSET wouldSwitch :
          /\ sol' \in [SwitchDofs -> Values]
          /\ \A d \in SwitchDofs : d \in switched <=> sol'[d] # sol[d]
          /\ wasSwitched' = wouldSwitch
          /\ \/ pc' = "renew"
             \/ switched = {} /\ pc' = "assemble"
    /\ renewed' = 0
    /\ UNCHANGED <<volVars, fluxVarsCache>>

(* Mutant: the faces of the neighbors are left out; a face is the pair of  *)
(* its inside and its outside element.                                     *)
InnerFacesOf(e) == {f \in Faces : f[1] = e}

(* The faces of the element and those of its neighbors whose stencil       *)
(* contains it: updateElement of the grid's flux variables cache.          *)
FacesOf(e) == {f \in Faces : \E s \in Stencil[f] : s[1] = e}

(* The loop body of invokePriVarSwitch_: updateSwitchedVolVars and then     *)
(* updateSwitchedFluxVarsCache for one element.                             *)
RenewElement ==
    /\ pc = "renew" /\ renewed < Len(ElementOrder)
    /\ renewed' = renewed + 1
    /\ LET e == ElementOrder[renewed']
           flagged == DofsOf[e] \cap wasSwitched
       IN  /\ volVars' = [s \in Scvs |->
                    IF s[1] = e /\ s[2] \in flagged THEN sol[s[2]] ELSE volVars[s]]
           /\ fluxVarsCache' = [f \in Faces |->
                    IF flagged # {} /\ f \in FacesOf(e) THEN FluxFrom(volVars', f)
                    ELSE fluxVarsCache[f]]
    /\ pc' = IF renewed' = Len(ElementOrder) THEN "assemble" ELSE "renew"
    /\ UNCHANGED <<sol, wasSwitched>>

(* The next solve_, of the next time step or of another attempt after an   *)
(* exception anywhere: all grid variables belong to its initial guess.     *)
NextSolve ==
    /\ pc # "begin" /\ pc' = "begin"
    /\ renewed' = 0
    /\ sol' \in [SwitchDofs -> Values]
    /\ Renewed(sol')
    /\ UNCHANGED wasSwitched

SwitchNext == NewtonBegin \/ Iterate \/ SwitchUpdate \/ RenewElement \/ NextSolve

SwitchSpec == SwitchInit /\ [][SwitchNext]_switchVars
-----------------------------------------------------------------------------
(* Every assembly finds cached variables that follow the solution, although *)
(* the loop renews the cache of a face while the volume variables of later  *)
(* elements are still those of before the switch.                           *)
CachesFollowSolution ==
    pc = "assemble" =>
        /\ \A s \in Scvs : volVars[s] = sol[s[2]]
        /\ \A f \in Faces : fluxVarsCache[f] = FluxFrom(volVars, f)
=============================================================================
