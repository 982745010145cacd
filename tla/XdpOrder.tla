------------------------------ MODULE XdpOrder ------------------------------
(***************************************************************************)
(* The order in which xdp_attach_programs puts programs into dispatcher    *)
(* slots: qsort(progs, num_progs, sizeof pointer, cmp_xdp_programs).        *)
(*                                                                         *)
(* A handle is abstracted to the fields cmp_xdp_programs reads: run_prio,  *)
(* prog_name (strcmp order is modelled by the order of small naturals),    *)
(* whether prog_fd >= 0, whether bpf_prog is set and its size, prog_tag    *)
(* (memcmp order) and load_time, and the chain_call_actions bitmap       *)
(* gen_xdp_multiprog copies into the dispatcher.  Handles come in the shapes the library   *)
(* constructors leave them in:                                             *)
(*   - opened (xdp_program__open_file / from_bpf_obj): bpf_prog set, no    *)
(*     fd, tag and load_time still zero from xdp_program__new;             *)
(*   - opened then xdp_program__load'ed: bpf_prog set and fd, tag, time;   *)
(*   - xdp_program__from_id: fd, tag, time, no bpf_prog.                   *)
(*                                                                         *)
(* qsort is glibc's merge sort (msort_with_tmp): split at n/2, sort both   *)
(* halves, merge taking the left element while cmp(left, right) <= 0.      *)
(*                                                                         *)
(* The sorted array then goes to gen_xdp_multiprog, which patches the      *)
(* dispatcher template's rodata (num_progs_enabled, chain_call_actions)    *)
(* and links progs[i] into the dispatcher's slot prog<i>.                  *)
(***************************************************************************)
EXTENDS Naturals, Sequences, SequencesExt

CONSTANTS
    Prios,      \* run_prio values
    Names,      \* prog_name values, ordered as strcmp orders them
    Sizes,      \* bpf_program__size values (positive)
    Tags,       \* prog_tag values of loaded programs (positive)
    Times,      \* load_time values of loaded programs (positive)
    Chains,     \* chain_call_actions bitmaps (non-negative)
    MaxSlots,   \* MAX_DISPATCHER_SLOTS of the dispatcher template
    NumProgs,   \* length of the progs array handed to xdp_attach_programs
    Shapes      \* handle shapes the caller may pass: "opened", "loaded", "by_id"

ASSUME NumProgs \in Nat /\ NumProgs >= 2
ASSUME Shapes \subseteq {"opened", "loaded", "by_id"}
\* gen_xdp_multiprog does not check this: chain_call_actions[i] is written
\* for every i < num_progs (line 913).
ASSUME NumProgs <= MaxSlots

Handle(pr, nm, fd, bp, sz, tg, tm, ch) ==
    [run_prio |-> pr, prog_name |-> nm, has_fd |-> fd, has_bpf_prog |-> bp,
     size |-> sz, prog_tag |-> tg, load_time |-> tm, chain_call_actions |-> ch]

\* The handles the constructors can produce, per shape.
OpenedHandles ==
    {Handle(pr, nm, FALSE, TRUE, sz, 0, 0, ch) :
        pr \in Prios, nm \in Names, sz \in Sizes, ch \in Chains}
LoadedHandles ==
    {Handle(pr, nm, TRUE, TRUE, sz, tg, tm, ch) :
        pr \in Prios, nm \in Names, sz \in Sizes, tg \in Tags, tm \in Times,
        ch \in Chains}
ByIdHandles ==
    {Handle(pr, nm, TRUE, FALSE, 0, tg, tm, ch) :
        pr \in Prios, nm \in Names, tg \in Tags, tm \in Times, ch \in Chains}

Handles ==
    UNION {CASE s = "opened" -> OpenedHandles
             [] s = "loaded" -> LoadedHandles
             [] s = "by_id"  -> ByIdHandles : s \in Shapes}

\* Three-way comparison of two naturals, as the "a < b ? -1 : 1" tests do.
Cmp3(x, y) == IF x < y THEN -1 ELSE IF x > y THEN 1 ELSE 0

\* The rodata of xdp-dispatcher.o as compiled: nothing enabled, every
\* chain_call_actions entry zero.
TemplateRodata ==
    [num_progs_enabled |-> 0, chain_call_actions |-> [i \in 0 .. MaxSlots - 1 |-> 0]]

VARIABLES
    progs,      \* the progs array as the caller passed it
    sorted,     \* the array after qsort, <<>> before the call
    dispatcher  \* gen_xdp_multiprog's outcome ("none" before it runs, "error",
                \* "loaded"), the template's rodata and the handle linked
                \* into each slot prog<i>

vars == <<progs, sorted, dispatcher>>

-----------------------------------------------------------------------------
\* Fault variant of cmp_xdp_programs: run_prio compared the wrong way round.
CmpPrioReversed(a, b) ==
    CASE a.run_prio # b.run_prio   -> Cmp3(b.run_prio, a.run_prio)
      [] a.prog_name # b.prog_name -> Cmp3(a.prog_name, b.prog_name)
      [] a.has_fd # b.has_fd       -> IF a.has_fd THEN -1 ELSE 1
      [] a.has_bpf_prog /\ b.has_bpf_prog /\ a.size # b.size
                                   -> Cmp3(a.size, b.size)
      [] a.prog_tag # b.prog_tag   -> Cmp3(a.prog_tag, b.prog_tag)
      [] OTHER                     -> Cmp3(a.load_time, b.load_time)

(***************************************************************************)
(* cmp_xdp_programs: run_prio, then prog_name, then loaded before not      *)
(* loaded, then bpf_program__size when BOTH handles have a bpf_prog (the   *)
(* comment says "two unloaded programs"), then prog_tag, then load_time.   *)
(***************************************************************************)
cmp_xdp_programs(a, b) ==
    CASE a.run_prio # b.run_prio   -> Cmp3(a.run_prio, b.run_prio)
      [] a.prog_name # b.prog_name -> Cmp3(a.prog_name, b.prog_name)
      [] a.has_fd # b.has_fd       -> IF a.has_fd THEN -1 ELSE 1
      [] a.has_bpf_prog /\ b.has_bpf_prog /\ a.size # b.size
                                   -> Cmp3(a.size, b.size)
      [] a.prog_tag # b.prog_tag   -> Cmp3(a.prog_tag, b.prog_tag)
      [] OTHER                     -> Cmp3(a.load_time, b.load_time)

\* The merge step of glibc's msort_with_tmp.
RECURSIVE Merge(_, _)
Merge(l, r) ==
    IF l = <<>> THEN r
    ELSE IF r = <<>> THEN l
    ELSE IF cmp_xdp_programs(Head(l), Head(r)) <= 0
         THEN <<Head(l)>> \o Merge(Tail(l), r)
         ELSE <<Head(r)>> \o Merge(l, Tail(r))

\* qsort(progs, n, size, cmp_xdp_programs), glibc's merge sort.
RECURSIVE qsort(_)
qsort(s) ==
    IF Len(s) <= 1 THEN s
    ELSE LET n1 == Len(s) \div 2
         IN  Merge(qsort(SubSeq(s, 1, n1)), qsort(SubSeq(s, n1 + 1, Len(s))))

-----------------------------------------------------------------------------
(***************************************************************************)
(* The caller passes any array of distinct handles.  Two loaded handles    *)
(* are distinct kernel programs and so carry distinct load times.  The tag *)
(* is a hash of the instructions: two handles with the same tag and a      *)
(* bpf_prog each hold the same instructions, so the same size.             *)
(***************************************************************************)
Init ==
    /\ progs \in {s \in [1 .. NumProgs -> Handles] : IsInjective(s)}
    /\ \A i, j \in 1 .. NumProgs :
          i # j /\ progs[i].has_fd /\ progs[j].has_fd
          => progs[i].load_time # progs[j].load_time
    /\ \A i, j \in 1 .. NumProgs :
          /\ progs[i].has_fd /\ progs[j].has_fd
          /\ progs[i].has_bpf_prog /\ progs[j].has_bpf_prog
          /\ progs[i].prog_tag = progs[j].prog_tag
          => progs[i].size = progs[j].size
    /\ sorted = <<>>
    /\ dispatcher = [status |-> "none", rodata |-> TemplateRodata, prog |-> <<>>]

\* Fault variant of Sort: the element count passed to qsort is one short.
SortDropLast ==
    /\ sorted = <<>>
    /\ sorted' = qsort(SubSeq(progs, 1, NumProgs - 1))
    /\ UNCHANGED <<progs, dispatcher>>

\* Line 987 of xdp_attach_programs (num_progs > 1).
Sort ==
    /\ sorted = <<>>
    /\ sorted' = qsort(progs)
    /\ UNCHANGED <<progs, dispatcher>>

\* Lines 910-913: the rodata written before bpf_object__load freezes it.
PatchRodata(ps) ==
    [num_progs_enabled |-> Len(ps),
     chain_call_actions |-> [i \in 0 .. MaxSlots - 1 |->
                               IF i < Len(ps) THEN ps[i + 1].chain_call_actions
                               ELSE TemplateRodata.chain_call_actions[i]]]

\* The slot loop: progs[i] is loaded as an extension of slot prog<i>.
LinkSlots(ps) == [i \in 0 .. Len(ps) - 1 |-> ps[i + 1]]

(***************************************************************************)
(* gen_xdp_multiprog on the sorted array.  Opening the template, the       *)
(* rodata checks, bpf_object__load, the program lookup, and each slot's    *)
(* set_attach_target, xdp_program__load and bpf_raw_tracepoint_open may    *)
(* fail; every failure closes the dispatcher object (module XdpAttach      *)
(* models which fds stay open).                                            *)
(***************************************************************************)
GenDispatcher ==
    /\ sorted # <<>>
    /\ dispatcher.status = "none"
    /\ dispatcher' \in {[dispatcher EXCEPT !.status = "error"],
                        [status |-> "loaded", rodata |-> PatchRodata(sorted),
                         prog |-> LinkSlots(sorted)]}
    /\ UNCHANGED <<progs, sorted>>

\* The call has returned.
Done ==
    /\ dispatcher.status # "none"
    /\ UNCHANGED vars

Next == Sort \/ GenDispatcher \/ Done

Spec == Init /\ [][Next]_vars

-----------------------------------------------------------------------------
TypeOK ==
    /\ progs \in Seq(Handles) /\ Len(progs) = NumProgs
    /\ sorted \in Seq(Handles) /\ Len(sorted) \in {0, NumProgs}
    /\ dispatcher.status \in {"none", "error", "loaded"}
    /\ dispatcher.rodata \in [num_progs_enabled : 0 .. MaxSlots,
                              chain_call_actions : [0 .. MaxSlots - 1 -> Chains \cup {0}]]
    /\ DOMAIN dispatcher.prog \in {0 .. k - 1 : k \in 0 .. MaxSlots}
    /\ Range(dispatcher.prog) \subseteq Handles

\* The spec's key vector (section 4.5): priority, name, loaded first, size
\* for two unloaded handles, tag, load time.
SpecKey(h) ==
    <<h.run_prio, h.prog_name, IF h.has_fd THEN 0 ELSE 1,
      IF h.has_fd THEN 0 ELSE h.size, h.prog_tag, h.load_time>>

RECURSIVE LexLeq(_, _)
LexLeq(x, y) ==
    \/ x = <<>>
    \/ Head(x) < Head(y)
    \/ Head(x) = Head(y) /\ LexLeq(Tail(x), Tail(y))

(***************************************************************************)
(* The dispatcher slots follow the spec's key order: after qsort with      *)
(* cmp_xdp_programs, the array is ordered by priority, then name, then the *)
(* tie-breaks of section 4.5.                                              *)
(***************************************************************************)
SlotsInSpecOrder ==
    sorted # <<>> => IsSorted(sorted, LAMBDA a, b : LexLeq(SpecKey(a), SpecKey(b)))

(***************************************************************************)
(* The attach order does not depend on the order the caller passed the     *)
(* programs in: qsort gives the same array for every shuffle of progs      *)
(* (spec section 8, property 1).                                           *)
(***************************************************************************)
SortDeterministic ==
    sorted # <<>> =>
        \A q \in SetToSeqs(ToSet(progs)) : qsort(q) = sorted

=============================================================================
