----------------------------- MODULE XdpAttach -----------------------------
(***************************************************************************)
(* xdp_attach_programs() of libxdp (src/lib/libxdp/libxdp.c), run by       *)
(* several processes at once against one network interface.                *)
(*                                                                         *)
(* A call with more than one program builds a dispatcher                   *)
(* (gen_xdp_multiprog), loads every component as an extension of slot      *)
(* prog<i> and keeps its link fd, pins the links under                     *)
(* <bpffs>/xdp/dispatch-<id>/link-prog<i> while holding the flock on       *)
(* <bpffs>/xdp (pin_multiprog), and finally installs the dispatcher on the *)
(* interface with bpf_set_link_xdp_fd, detaching a program of the opposite *)
(* mode and retrying when the kernel answers EEXIST.  A call with one      *)
(* program loads it (unless loaded) and installs it directly.              *)
(*                                                                         *)
(* Program identities: the dispatcher (or the single program) installed by *)
(* process p is named p; Other is a program someone else installed before. *)
(* Handles and their order are abstracted to slot numbers: which handle    *)
(* lands in which slot is the business of module XdpOrder.                 *)
(*                                                                         *)
(* A process may die at any step (Exit): the kernel closes its fds, which  *)
(* drops its dispatcher fd, its unpinned links and its flock.              *)
(***************************************************************************)
EXTENDS Naturals, FiniteSets

CONSTANTS
    Procs,      \* processes calling xdp_attach_programs (model values)
    Other,      \* a program attached to the interface by someone else
    None,       \* no program / lock not held
    MaxProgs,   \* bound on num_progs of one call
    NativeOK,   \* the driver implements ndo_bpf (native XDP)
    Modes,      \* attach modes the callers may request
    Forces      \* values of the force argument the callers may pass

ASSUME MaxProgs \in Nat /\ MaxProgs >= 2
ASSUME NativeOK \in BOOLEAN
ASSUME Modes \subseteq {"skb", "native", "unspec"}
ASSUME Forces \subseteq BOOLEAN

VARIABLES
    call,           \* the arguments of p's call: num_progs, mode, force, loaded
    pc,             \* where p is in xdp_attach_programs
    ret,            \* what p's call returned ("ok" or the failing stage)
    slot,           \* loop index i of the gen and pin loops
    dispatcher_fd,  \* p holds the dispatcher bpf_object (and its prog fd)
    link_fd,        \* slots whose handle holds an open link fd
    link_pin_path,  \* slots whose handle has link_pin_path set
    pinned,         \* pinned[d]: files link-prog<i> under dispatch-<d>
    dirs,           \* dispatch-<d> directories present in bpffs
    lock,           \* holder of the flock on <bpffs>/xdp, or None
    iface,          \* the interface: program in the generic and native slot
    detached        \* history: the slot and program p's remediation removed

vars == <<call, pc, ret, slot, dispatcher_fd, link_fd, link_pin_path,
          pinned, dirs, lock, iface, detached>>

Progs == Procs \cup {Other}
Slots == 0 .. MaxProgs - 1
PCs == {"query", "start", "gen", "gen_slot", "pin", "pin_slot", "pin_out", "attach",
        "remedy_detach", "remedy_retry", "returned", "exited"}
Rets == {"none", "ok", "inval", "load", "gen", "pin", "attach", "query"}

\* api: the caller called xdp_attach_programs, or xdp_program__attach with
\* replace set.
Calls == [api : {"attach_programs", "program_attach"}, num_progs : 0 .. MaxProgs,
          mode : Modes, force : Forces, loaded : BOOLEAN]

\* xdp_program__attach with replace: xdp_attach_programs(&prog, 1, ifindex,
\* true, mode), one handle and force set.
ProgramAttachCall(c) == c.api = "program_attach" => c.num_progs = 1 /\ c.force

\* The slots prog0 .. prog<n-1> the dispatcher of p enables.
SlotsOf(p) == 0 .. call[p].num_progs - 1

-----------------------------------------------------------------------------
(***************************************************************************)
(* The kernel side of bpf_set_link_xdp_fd (dev_change_xdp_fd): flags carry *)
(* a mode bit ("skb", "drv" or "none") and XDP_FLAGS_UPDATE_IF_NOEXIST.    *)
(* Generic and native programs cannot be active together (EEXIST); a       *)
(* native install goes through the driver, which may refuse it.            *)
(***************************************************************************)
KFlags == [mode : {"skb", "drv", "none"}, noexist : BOOLEAN]

\* The slot the flags install into, and the one that must then be empty.
OpSlot(fl) == IF fl.mode = "skb" \/ ~NativeOK THEN "generic" ELSE "native"
ChkSlot(fl) == IF ~NativeOK THEN None
               ELSE IF OpSlot(fl) = "native" THEN "generic" ELSE "native"

Result(e, ifc) == [err |-> e, iface |-> ifc]

\* File descriptor 0, the process's standard input: not a BPF program.
StdinFd == "fd0"

\* The outcomes of bpf_set_link_xdp_fd(ifindex, fd, flags) on interface ifc;
\* fd = None is the detach call with fd -1.
XdpSetResults(ifc, fd, fl) ==
    LET op == OpSlot(fl)
        chk == ChkSlot(fl)
    IN  IF fl.mode = "drv" /\ ~NativeOK THEN {Result("EOPNOTSUPP", ifc)}
        ELSE IF fd = None
        THEN {Result("ok", [ifc EXCEPT ![op] = None])}
        ELSE IF chk # None /\ ifc[chk] # None THEN {Result("EEXIST", ifc)}
        ELSE IF fl.noexist /\ ifc[op] # None THEN {Result("EBUSY", ifc)}
        ELSE IF fd = StdinFd THEN {Result("EINVAL", ifc)}
        ELSE IF ifc[op] = fd THEN {Result("ok", ifc)}
        ELSE {Result("ok", [ifc EXCEPT ![op] = fd])}
             \cup (IF op = "native" THEN {Result("EDRIVER", ifc)} ELSE {})

-----------------------------------------------------------------------------
(***************************************************************************)
(* The library's flags: the mode switch and the force test of              *)
(* xdp_attach_programs, and the flags of the opposite-mode detach.         *)
(***************************************************************************)
XdpFlags(p) ==
    [mode    |-> CASE call[p].mode = "skb"    -> "skb"
                   [] call[p].mode = "native" -> "drv"
                   [] call[p].mode = "unspec" -> "none",
     noexist |-> ~call[p].force]

DetachFlags(p) ==
    [XdpFlags(p) EXCEPT !.mode = IF call[p].mode = "skb" THEN "drv" ELSE "skb"]

(***************************************************************************)
(* The prog_fd xdp_attach_programs hands to bpf_set_link_xdp_fd: the       *)
(* dispatcher fd, the handle's prog_fd when it is loaded, and otherwise    *)
(* the return value of xdp_program__load, which is 0 on success            *)
(* (fill_from_fd returns 0), not the program's fd.                         *)
(***************************************************************************)
ProgFd(p) == IF call[p].num_progs = 1 /\ ~call[p].loaded THEN StdinFd ELSE p

\* p's call returns with outcome r.
Return(p, r) ==
    /\ pc' = [pc EXCEPT ![p] = "returned"]
    /\ ret' = [ret EXCEPT ![p] = r]

(***************************************************************************)
(* xdp_lock_acquire: flock(LOCK_EX) on the <bpffs>/xdp directory fd blocks *)
(* until no other process holds it.  xdp_lock_release: flock(LOCK_UN) and  *)
(* close the fd.                                                           *)
(***************************************************************************)
LockAcquire(p) == lock = None /\ lock' = p
LockRelease(p) == lock' = None

-----------------------------------------------------------------------------
Init ==
    /\ call \in [Procs -> Calls]
    /\ \A p \in Procs : call[p].loaded => call[p].num_progs = 1
    /\ \A p \in Procs : ProgramAttachCall(call[p])
    /\ pc = [p \in Procs |-> IF call[p].api = "program_attach" THEN "query" ELSE "start"]
    /\ ret = [p \in Procs |-> "none"]
    /\ slot = [p \in Procs |-> 0]
    /\ dispatcher_fd = [p \in Procs |-> FALSE]
    /\ link_fd = [p \in Procs |-> {}]
    /\ link_pin_path = [p \in Procs |-> {}]
    /\ pinned = [p \in Procs |-> {}]
    /\ dirs = {}
    /\ lock = None
    /\ detached = [p \in Procs |-> None]
    /\ iface \in {i \in [generic : {None, Other}, native : {None, Other}] :
                    ~(i.generic = Other /\ i.native = Other)
                    /\ (i.native = Other => NativeOK)}

(***************************************************************************)
(* xdp_program__attach first calls xdp_program__get_from_ifindex: it asks  *)
(* bpf_get_link_xdp_info (which may fail), takes skb_prog_id or            *)
(* drv_prog_id by the attach mode, returns ENOENT for none (which          *)
(* xdp_program__attach ignores) and otherwise makes a handle with          *)
(* xdp_program__from_id (which may fail).  With replace the handle is not  *)
(* used, so the query only decides whether the call goes on.               *)
(***************************************************************************)
Query(p) ==
    /\ pc[p] = "query"
    /\ \/ pc' = [pc EXCEPT ![p] = "start"] /\ UNCHANGED ret
       \/ Return(p, "query")
    /\ UNCHANGED <<detached, call, slot, dispatcher_fd, link_fd, link_pin_path,
                   pinned, dirs, lock, iface>>

(***************************************************************************)
(* xdp_attach_programs entry: num_progs 0 is EINVAL; more than one program *)
(* is sorted and composed; one loaded program is used as is; one unloaded  *)
(* program goes through xdp_program__load, which may fail, and its return  *)
(* value becomes prog_fd (ProgFd).                                         *)
(***************************************************************************)
AttachStart(p) ==
    /\ pc[p] = "start"
    /\ \/ /\ call[p].num_progs = 0
          /\ Return(p, "inval")
       \/ /\ call[p].num_progs > 1
          /\ pc' = [pc EXCEPT ![p] = "gen"]
          /\ UNCHANGED ret
       \/ /\ call[p].num_progs = 1
          /\ \/ pc' = [pc EXCEPT ![p] = "attach"] /\ UNCHANGED ret
             \/ ~call[p].loaded /\ Return(p, "load")
    /\ UNCHANGED <<detached, call, slot, dispatcher_fd, link_fd, link_pin_path,
                   pinned, dirs, lock, iface>>

(***************************************************************************)
(* gen_xdp_multiprog up to the slot loop: find and open xdp-dispatcher.o,  *)
(* check and patch its rodata, bpf_object__load it, find the dispatcher    *)
(* program.  Any failure closes the object and returns.                    *)
(***************************************************************************)
GenLoad(p) ==
    /\ pc[p] = "gen"
    /\ \/ /\ dispatcher_fd' = [dispatcher_fd EXCEPT ![p] = TRUE]
          /\ slot' = [slot EXCEPT ![p] = 0]
          /\ pc' = [pc EXCEPT ![p] = "gen_slot"]
          /\ UNCHANGED ret
       \/ /\ Return(p, "gen")
          /\ UNCHANGED <<dispatcher_fd, slot>>
    /\ UNCHANGED <<detached, call, link_fd, link_pin_path, pinned, dirs, lock, iface>>

\* Fault variant of GenSlot: the last slot hands the fd straight to the
\* interface, skipping pin_multiprog.
GenSlotSkipPin(p) ==
    /\ pc[p] = "gen_slot"
    /\ link_fd' = [link_fd EXCEPT ![p] = @ \cup {slot[p]}]
    /\ slot' = [slot EXCEPT ![p] = @ + 1]
    /\ pc' = [pc EXCEPT ![p] = IF slot[p] + 1 = call[p].num_progs
                               THEN "attach" ELSE "gen_slot"]
    /\ UNCHANGED <<detached, call, ret, dispatcher_fd, link_pin_path, pinned, dirs,
                   lock, iface>>

\* Fault variant of GenSlot: the loop runs while i <= num_progs.
GenSlotOverrun(p) ==
    /\ pc[p] = "gen_slot"
    /\ link_fd' = [link_fd EXCEPT ![p] = @ \cup {slot[p]}]
    /\ slot' = [slot EXCEPT ![p] = @ + 1]
    /\ pc' = [pc EXCEPT ![p] = IF slot[p] = call[p].num_progs
                               THEN "pin" ELSE "gen_slot"]
    /\ UNCHANGED <<detached, call, ret, dispatcher_fd, link_pin_path, pinned, dirs,
                   lock, iface>>

(***************************************************************************)
(* One iteration of the slot loop of gen_xdp_multiprog: set the attach     *)
(* target prog<i>, load the component as BPF_PROG_TYPE_EXT and open its    *)
(* link with bpf_raw_tracepoint_open.  After the last slot the dispatcher  *)
(* fd is returned and xdp_attach_programs goes on to pin_multiprog.  A     *)
(* failure closes the dispatcher object only: the links opened for the     *)
(* earlier slots stay open on their handles.                               *)
(***************************************************************************)
GenSlot(p) ==
    /\ pc[p] = "gen_slot"
    /\ \/ /\ link_fd' = [link_fd EXCEPT ![p] = @ \cup {slot[p]}]
          /\ slot' = [slot EXCEPT ![p] = @ + 1]
          /\ pc' = [pc EXCEPT ![p] = IF slot[p] + 1 = call[p].num_progs
                                     THEN "pin" ELSE "gen_slot"]
          /\ UNCHANGED <<ret, dispatcher_fd>>
       \/ /\ dispatcher_fd' = [dispatcher_fd EXCEPT ![p] = FALSE]
          /\ Return(p, "gen")
          /\ UNCHANGED <<link_fd, slot>>
    /\ UNCHANGED <<detached, call, link_pin_path, pinned, dirs, lock, iface>>

(***************************************************************************)
(* pin_multiprog before it holds the lock: get_bpffs_dir fails when        *)
(* find_bpffs finds no bpffs at $LIBXDP_BPFFS or the default mount point   *)
(* (nothing is cached then) or when mkdir <bpffs>/xdp fails other than     *)
(* with EEXIST; bpf_obj_get_info_by_fd may fail; xdp_lock_acquire may fail *)
(* to open the directory or in flock.  Each returns at once, holding       *)
(* nothing.                                                                *)
(***************************************************************************)
PinSetupFail(p) ==
    /\ pc[p] = "pin"
    /\ Return(p, "pin")
    /\ UNCHANGED <<detached, call, slot, dispatcher_fd, link_fd, link_pin_path,
                   pinned, dirs, lock, iface>>

(***************************************************************************)
(* pin_multiprog up to the loop: xdp_lock_acquire blocks in flock until no *)
(* other process holds it; then mkdir dispatch-<id> (EEXIST is fine).  A   *)
(* mkdir failure releases the lock and returns.                            *)
(***************************************************************************)
PinLock(p) ==
    /\ pc[p] = "pin"
    /\ \/ /\ LockAcquire(p)
          /\ dirs' = dirs \cup {p}
          /\ slot' = [slot EXCEPT ![p] = 0]
          /\ pc' = [pc EXCEPT ![p] = "pin_slot"]
          /\ UNCHANGED ret
       \/ /\ lock = None
          /\ Return(p, "pin")
          /\ UNCHANGED <<lock, dirs, slot>>
    /\ UNCHANGED <<detached, call, dispatcher_fd, link_fd, link_pin_path, pinned, iface>>

(***************************************************************************)
(* One iteration of the pin loop: pin link_fd of slot i at                 *)
(* dispatch-<id>/link-prog<i> and record the directory in link_pin_path.   *)
(***************************************************************************)
PinSlot(p) ==
    /\ pc[p] = "pin_slot"
    /\ slot[p] \in link_fd[p]
    /\ pinned' = [pinned EXCEPT ![p] = @ \cup {slot[p]}]
    /\ link_pin_path' = [link_pin_path EXCEPT ![p] = @ \cup {slot[p]}]
    /\ slot' = [slot EXCEPT ![p] = @ + 1]
    /\ pc' = [pc EXCEPT ![p] = IF slot[p] + 1 = call[p].num_progs
                               THEN "pin_out" ELSE "pin_slot"]
    /\ UNCHANGED <<detached, call, ret, dispatcher_fd, link_fd, dirs, lock, iface>>

(***************************************************************************)
(* A failing iteration of the pin loop (link_fd < 0, bpf_obj_pin fails, or *)
(* strdup fails after the pin succeeded, when unlink(pin_path) is tried on *)
(* the directory), then err_unpin: for every handle i .. 0 with            *)
(* link_pin_path set, unlink(link_pin_path) and clear it.  link_pin_path   *)
(* is the dispatch-<id> directory, so the unlink fails and every link file *)
(* stays.  Then out: the lock is released.                                 *)
(***************************************************************************)
PinSlotFail(p) ==
    /\ pc[p] = "pin_slot"
    /\ \E strdup_failed \in BOOLEAN :
          /\ strdup_failed => slot[p] \in link_fd[p]
          /\ pinned' = [pinned EXCEPT ![p] = IF strdup_failed THEN @ \cup {slot[p]}
                                                           ELSE @]
    /\ link_pin_path' = [link_pin_path EXCEPT ![p] = {}]
    /\ LockRelease(p)
    /\ Return(p, "pin")
    /\ UNCHANGED <<detached, call, slot, dispatcher_fd, link_fd, dirs, iface>>

\* Fault variant of PinOut: the out: label forgets xdp_lock_release.
PinOutKeepLock(p) ==
    /\ pc[p] = "pin_out"
    /\ pc' = [pc EXCEPT ![p] = "attach"]
    /\ UNCHANGED <<detached, call, ret, slot, dispatcher_fd, link_fd, link_pin_path,
                   pinned, dirs, lock, iface>>

\* The out: label of pin_multiprog after the loop: xdp_lock_release.
PinOut(p) ==
    /\ pc[p] = "pin_out"
    /\ LockRelease(p)
    /\ pc' = [pc EXCEPT ![p] = "attach"]
    /\ UNCHANGED <<detached, call, ret, slot, dispatcher_fd, link_fd, link_pin_path,
                   pinned, dirs, iface>>

\* Fault variant of Attach: the opposite-mode remediation is tried whatever
\* XDP_FLAGS_UPDATE_IF_NOEXIST says.
AttachAnyFlags(p) ==
    /\ pc[p] = "attach"
    /\ \E r \in XdpSetResults(iface, ProgFd(p), XdpFlags(p)) :
          /\ iface' = r.iface
          /\ IF r.err = "EEXIST"
             THEN pc' = [pc EXCEPT ![p] = "remedy_detach"] /\ UNCHANGED ret
             ELSE Return(p, IF r.err = "ok" THEN "ok" ELSE "attach")
    /\ UNCHANGED <<detached, call, slot, dispatcher_fd, link_fd, link_pin_path, pinned,
                   dirs, lock>>

(***************************************************************************)
(* bpf_set_link_xdp_fd(ifindex, prog_fd, xdp_flags).  EEXIST without       *)
(* UPDATE_IF_NOEXIST (force set) means a program of the opposite mode is   *)
(* attached: go and detach it.  Any other error returns.                   *)
(***************************************************************************)
Attach(p) ==
    /\ pc[p] = "attach"
    /\ \E r \in XdpSetResults(iface, ProgFd(p), XdpFlags(p)) :
          /\ iface' = r.iface
          /\ IF r.err = "EEXIST" /\ ~XdpFlags(p).noexist
             THEN pc' = [pc EXCEPT ![p] = "remedy_detach"] /\ UNCHANGED ret
             ELSE Return(p, IF r.err = "ok" THEN "ok" ELSE "attach")
    /\ UNCHANGED <<detached, call, slot, dispatcher_fd, link_fd, link_pin_path, pinned,
                   dirs, lock>>

\* bpf_set_link_xdp_fd(ifindex, -1, flags of the opposite mode).
RemedyDetach(p) ==
    /\ pc[p] = "remedy_detach"
    /\ \E r \in XdpSetResults(iface, None, DetachFlags(p)) :
          /\ iface' = r.iface
          /\ IF r.err = "ok"
             THEN pc' = [pc EXCEPT ![p] = "remedy_retry"] /\ UNCHANGED ret
             ELSE Return(p, "attach")
          /\ LET s == OpSlot(DetachFlags(p))
             IN  detached' = [detached EXCEPT ![p] =
                                IF r.err = "ok" /\ iface[s] # None
                                THEN [slot |-> s, prog |-> iface[s]] ELSE None]
    /\ UNCHANGED <<call, slot, dispatcher_fd, link_fd, link_pin_path, pinned,
                   dirs, lock>>

\* Fault variant of RemedyRetry: the retry passes the modified xdp_flags
\* instead of old_flags.
RemedyRetryNewFlags(p) ==
    /\ pc[p] = "remedy_retry"
    /\ \E r \in XdpSetResults(iface, ProgFd(p), DetachFlags(p)) :
          /\ iface' = r.iface
          /\ Return(p, IF r.err = "ok" THEN "ok" ELSE "attach")
    /\ UNCHANGED <<detached, call, slot, dispatcher_fd, link_fd, link_pin_path, pinned,
                   dirs, lock>>

\* bpf_set_link_xdp_fd(ifindex, prog_fd, old_flags): the retry.
RemedyRetry(p) ==
    /\ pc[p] = "remedy_retry"
    /\ \E r \in XdpSetResults(iface, ProgFd(p), XdpFlags(p)) :
          /\ iface' = r.iface
          /\ Return(p, IF r.err = "ok" THEN "ok" ELSE "attach")
    /\ UNCHANGED <<detached, call, slot, dispatcher_fd, link_fd, link_pin_path, pinned,
                   dirs, lock>>

(***************************************************************************)
(* The process ends, normally or killed at any step: the kernel closes its *)
(* fds.  The dispatcher object and the unpinned links go; closing the lock *)
(* fd drops the flock.  bpffs and the interface keep what they hold.       *)
(***************************************************************************)
Exit(p) ==
    /\ pc[p] # "exited"
    /\ pc' = [pc EXCEPT ![p] = "exited"]
    /\ dispatcher_fd' = [dispatcher_fd EXCEPT ![p] = FALSE]
    /\ link_fd' = [link_fd EXCEPT ![p] = {}]
    /\ lock' = IF lock = p THEN None ELSE lock
    /\ UNCHANGED <<detached, call, ret, slot, link_pin_path, pinned, dirs, iface>>

\* Every process has exited: nothing is left to run.
Terminated ==
    /\ \A p \in Procs : pc[p] = "exited"
    /\ UNCHANGED vars

(***************************************************************************)
(* The steps a running call takes on its own: each one is the code's next  *)
(* statement, with all the outcomes it can have.  At "pin" the step is     *)
(* PinLock, which waits in flock while another process holds the lock.    *)
(***************************************************************************)
CallProgress(p) ==
    \/ Query(p) \/ AttachStart(p) \/ GenLoad(p) \/ GenSlot(p)
    \/ PinLock(p) \/ PinSlot(p) \/ PinSlotFail(p) \/ PinOut(p)
    \/ Attach(p) \/ RemedyDetach(p) \/ RemedyRetry(p)

\* The steps of a running call (every step but Exit).  PinSetupFail is an
\* environment failure (no bpffs, a failing syscall) that may happen but
\* never has to, so a call blocked in flock is not made to fail out.
CallStep(p) == CallProgress(p) \/ PinSetupFail(p)

Next ==
    \/ \E p \in Procs : CallStep(p) \/ Exit(p)
    \/ Terminated

(***************************************************************************)
(* The library code runs on when it can; no process is obliged to exit or  *)
(* to meet an environment failure.  Weak fairness suffices for the flock   *)
(* wait: each call takes the lock at most once, so once its holder lets it *)
(* go the lock stays free until the waiter takes it.                       *)
(***************************************************************************)
Spec == Init /\ [][Next]_vars /\ \A p \in Procs : WF_vars(CallProgress(p))

-----------------------------------------------------------------------------
(***************************************************************************)
(* Properties                                                              *)
(***************************************************************************)
TypeOK ==
    /\ call \in [Procs -> Calls]
    /\ pc \in [Procs -> PCs]
    /\ ret \in [Procs -> Rets]
    /\ slot \in [Procs -> 0 .. MaxProgs]
    /\ dispatcher_fd \in [Procs -> BOOLEAN]
    /\ link_fd \in [Procs -> SUBSET Slots]
    /\ link_pin_path \in [Procs -> SUBSET Slots]
    /\ pinned \in [Procs -> SUBSET Slots]
    /\ dirs \subseteq Procs
    /\ lock \in Procs \cup {None}
    /\ iface \in [generic : Progs \cup {None}, native : Progs \cup {None}]
    /\ detached \in [Procs -> {None} \cup
                     [slot : {"generic", "native"}, prog : Progs]]

(***************************************************************************)
(* A dispatcher running on the interface has every enabled slot filled:    *)
(* the link of each prog<i> is open in the calling process or pinned in    *)
(* bpffs, so no component silently drops out of the packet path when the  *)
(* process that built the dispatcher exits (pin_multiprog runs before      *)
(* bpf_set_link_xdp_fd in xdp_attach_programs).                            *)
(***************************************************************************)
AttachedDispatcherComplete ==
    \A d \in Procs :
        /\ call[d].num_progs > 1
        /\ d \in {iface.generic, iface.native}
        => SlotsOf(d) \subseteq link_fd[d] \cup pinned[d]

(***************************************************************************)
(* When xdp_attach_programs returns success, its program is on the         *)
(* interface in the slot the requested mode selects, and no program is     *)
(* left in the other slot (the remediation retries with old_flags).        *)
(***************************************************************************)
SuccessMeansInstalled ==
    [][\A p \in Procs :
         ret'[p] = "ok" /\ ret[p] # "ok" =>
            LET s == OpSlot(XdpFlags(p))
            IN  /\ iface'[s] = p
                /\ \A o \in {"generic", "native"} \ {s} : iface'[o] = None]_vars

-----------------------------------------------------------------------------
(***************************************************************************)
(* Refinement.  The calls that have not returned are the running ones of   *)
(* XdpIface; the force argument is its forced.                             *)
(***************************************************************************)
Running == {p \in Procs : pc[p] \notin {"returned", "exited"}}

Iface == INSTANCE XdpIface WITH running <- Running,
                             forced <- [p \in Procs |-> call[p].force]

(***************************************************************************)
(* The interface changes only in the ways xdp_attach_programs promises,    *)
(* whatever the interleaving of the callers and wherever one dies: a call  *)
(* installs only its own program, takes an occupied slot or detaches the   *)
(* opposite-mode program only when forced, never fills a slot while the   *)
(* other one is occupied; and every call returns, though a call waiting in *)
(* flock is never made to fail, because every way out of pin_multiprog    *)
(* that holds the flock (mkdir failure, err_unpin, out:) releases it.      *)
(***************************************************************************)
IfaceRefined == Iface!Spec

\* The interface as the design's state machine sees it: while p waits to
\* retry after its remediation detach, the program it detached still
\* counts as attached.
RestoredIface ==
    LET waiting == {p \in Procs : pc[p] = "remedy_retry" /\ detached[p] # None}
    IN  [s \in {"generic", "native"} |->
           IF \E p \in waiting : detached[p].slot = s
           THEN detached[CHOOSE p \in waiting : detached[p].slot = s].prog
           ELSE iface[s]]

SM == INSTANCE XdpIface WITH iface <- RestoredIface, running <- Running,
                             forced <- [p \in Procs |-> call[p].force]

(***************************************************************************)
(* The interface follows the state machine of spec section 4.8: once a    *)
(* program is attached, an attach call only ever replaces it (with force, *)
(* in the same mode or by the opposite-mode remediation); no call leaves   *)
(* the interface unattached.                                               *)
(***************************************************************************)
StateMachineRefined == SM!SMSpec

(***************************************************************************)
(* bpf_set_link_xdp_fd fails for a call only when the interface would have *)
(* refused the call's own program there (spec section 4.8, steps 2 and 5: *)
(* the one handle, loaded directly when it is not, or the dispatcher is    *)
(* what the kernel is given).                                              *)
(***************************************************************************)
AttachErrorMeansRefused ==
    [][\A p \in Procs :
          (pc[p] = "attach" /\ ret'[p] = "attach") =>
              \E r \in XdpSetResults(iface, p, XdpFlags(p)) : r.err # "ok"]_vars

(***************************************************************************)
(* Failure-path claims of the spec (section 7: an error never leaves       *)
(* partially pinned or partially linked state observable).                 *)
(***************************************************************************)
\* When pin_multiprog fails, err_unpin has removed every link it pinned.
PinErrorUnwound ==
    \A p \in Procs : ret[p] = "pin" => pinned[p] = {}

\* When gen_xdp_multiprog fails, no link it opened stays open.
GenErrorUnwound ==
    \A p \in Procs : ret[p] = "gen" => link_fd[p] = {}

=============================================================================
