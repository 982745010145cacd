------------------------------ MODULE XdpIface ------------------------------
(***************************************************************************)
(* What xdp_attach_programs promises about an interface, abstractly: the   *)
(* interface holds at most one XDP program, in its generic or its native   *)
(* slot, and the calls in progress change it in one step each.             *)
(*                                                                         *)
(* Spec is the promise the library keeps under concurrent callers: a call  *)
(* installs its own program, replaces a program only when forced, and may  *)
(* remove a program only when forced (the opposite-mode detach of the      *)
(* remediation).  Every call ends.                                         *)
(*                                                                         *)
(* SMSpec is the library's view of the interface in the design (spec      *)
(* section 4.8): Unattached -> Attached(A); Attached(A) -> Attached(B)     *)
(* when forced, in the same mode or, by remediation, in the other mode.    *)
(* It has no step from Attached back to Unattached.                        *)
(***************************************************************************)
CONSTANTS
    Procs,      \* the callers
    Other,      \* a program someone else installed
    None        \* an empty slot

VARIABLES
    iface,      \* [generic |-> prog or None, native |-> prog or None]
    running,    \* the callers whose call has not returned
    forced      \* forced[p]: p's call passed force

avars == <<iface, running, forced>>

IfSlots == {"generic", "native"}
Opp(s) == CHOOSE o \in IfSlots : o # s

\* Interface states: at most one slot holds a program.
IfaceStates ==
    {i \in [IfSlots -> Procs \cup {Other, None}] :
        i["generic"] = None \/ i["native"] = None}

Init ==
    /\ iface \in IfaceStates
    /\ running = Procs
    /\ forced \in [Procs -> BOOLEAN]

\* p puts its program in slot s; the other slot is empty; an occupied slot
\* is taken over only by a forced call.
Install(p) ==
    \E s \in IfSlots :
        /\ iface[Opp(s)] = None
        /\ iface[s] # p
        /\ iface[s] # None => forced[p]
        /\ iface' = [iface EXCEPT ![s] = p]

\* A forced call removes the program of slot s.
Detach(p) ==
    \E s \in IfSlots :
        /\ forced[p]
        /\ iface[s] # None
        /\ iface' = [iface EXCEPT ![s] = None]

\* A forced call moves the interface from A in one mode to its own program
\* in the other mode (section 4.8, step 6).
Remediate(p) ==
    \E s \in IfSlots :
        /\ forced[p]
        /\ iface[Opp(s)] # None
        /\ iface' = [o \in IfSlots |-> IF o = s THEN p ELSE None]

\* p's call returns.
Finish(p) ==
    /\ p \in running
    /\ running' = running \ {p}
    /\ UNCHANGED <<iface, forced>>

\* A step that changes the interface may be the last step of p's call.
Changes(p, Act(_)) ==
    /\ Act(p)
    /\ running' \in {running, running \ {p}}
    /\ UNCHANGED forced

Next ==
    \E p \in running :
        \/ Changes(p, Install) \/ Changes(p, Detach)
        \/ Finish(p)

SMNext ==
    \E p \in running :
        \/ Changes(p, Install) \/ Changes(p, Remediate)
        \/ Finish(p)

Spec == Init /\ [][Next]_avars /\ \A p \in Procs : WF_avars(Finish(p))

SMSpec == Init /\ [][SMNext]_avars

=============================================================================
