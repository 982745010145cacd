# TLA+ models of libxdp (src/lib/libxdp/libxdp.c)

libxdp lets several XDP programs share one network interface. It loads a
*dispatcher* program whose slots `prog0 .. prog<n-1>` are replaced, through
BPF function-extension links, by the user's programs. This directory holds
TLA+ models of the library's control flow and of the resource ownership
around it, TLC configurations that check them, and the record
(`PROJECT.json`) of what is modelled, what each run checks, and which
definition models which source lines.

## The system

`libxdp.c` has these parts. The line numbers are for libxdp.c.

| Part | Functions (lines) | State it changes |
|---|---|---|
| Mount resolver | `find_bpffs`, `get_bpffs_dir` (85-139) | process-wide cached paths; creates `<bpffs>/xdp` |
| Lock manager | `xdp_lock_acquire`, `xdp_lock_release` (141-183) | an exclusive `flock` on the `<bpffs>/xdp` dir fd |
| Program handle | `xdp_program__new/free/open_file/from_bpf_obj/from_id/load` and setters (190-625, 707-725) | the handle's bpf_object, prog_fd, BTF and link fd |
| Metadata parser | `xdp_parse_run_config` (334-435) | `run_prio` and `chain_call_actions` of a handle, read from the BTF section `.xdp_run_config` |
| Ordering | `cmp_xdp_programs` under `qsort` (627-670, 987) | the order of the `progs` array |
| Composer | `gen_xdp_multiprog` (875-976) | loads the dispatcher, then loads each program as an extension of `prog<i>` and opens its link (`prog->link_fd`) |
| Pin store | `pin_multiprog` (727-806); `unpin_multiprog` (808-873, static, never called) | files `dispatch-<id>/link-prog<i>` in bpffs |
| Attacher | `xdp_attach_programs` (978-1068) | the interface's XDP program (kernel `dev_change_xdp_fd`) |
| Single attach | `xdp_program__get_from_ifindex`, `xdp_program__attach` (672-705, 1071-1103) | interface query; a stub marked as not working |

How the parts interact. `xdp_attach_programs` sorts the handles and has
`gen_xdp_multiprog` build a dispatcher whose extensions are held open by link
fds in the calling process. `pin_multiprog` pins those links under the bpffs
lock, so they outlive the process. Then `bpf_set_link_xdp_fd` puts the
dispatcher on the interface. When that fails with EEXIST because a program of
the other mode (generic vs. native) is attached, and `force` is set, the
attacher detaches that program and retries. The interface and bpffs are shared
by every process, but the lock covers only the pinning.

## Modules

### XdpAttach: composer, pin store, lock and attacher, with two processes

This module models the whole of `xdp_attach_programs` together with the
composer, the pin store and the lock, for a set `Procs` of concurrent
processes. Each process runs one call.

State:

- `call[p]`: the arguments, which are `num_progs`, `mode`, `force` and whether
  a single program was already loaded.
- `pc[p]`, `ret[p]`, `slot[p]`: the position in the code, the return value and
  the loop index.
- `dispatcher_fd[p]`, `link_fd[p]`: fds held by the process. A link fd is
  recorded as the slot it links.
- `link_pin_path[p]`: the slots whose handle has `link_pin_path` set.
- `pinned[p]`: the link files that exist in bpffs.
- `dirs`: the `dispatch-<id>` directories.
- `lock`: the flock holder.
- `iface`: the kernel's generic and native XDP slots. A slot holds a process's
  dispatcher, `Other` (a program that was already attached) or `None`.

A call is either `xdp_attach_programs` or `xdp_program__attach` with
`replace` (`call[p].api`). The second is one handle with force set
(`ProgramAttachCall`, 1087-1093). It starts with `Query`, the
`xdp_program__get_from_ifindex` of lines 672-705. The replace path discards
the handle that `Query` fetches, so the query only decides whether the call
goes on.

Actions, in code order: `Query`, `AttachStart` (983-998), `GenLoad` (875-926),
`GenSlot` (927-976), `PinSetupFail` (737-747 with `get_bpffs_dir` and
`find_bpffs`, 85-139), `PinLock` (727-760), `PinSlot` / `PinSlotFail`
(762-806), `PinOut` (793-795), `Attach` (1025-1059), `RemedyDetach`
(1032-1037), `RemedyRetry` (1038-1040). Every failure point of a step is a
disjunct of that step.

`Exit(p)` is a crash or normal exit at any point. The process's fds close, so
its links and its flock go. bpffs and the interface keep what they hold.

The kernel's `dev_change_xdp_fd` is modelled from the spec (section 4.8) by
`XdpSetResults`:

- the generic and native slots exclude each other (EEXIST);
- `XDP_FLAGS_UPDATE_IF_NOEXIST` on an occupied slot gives EBUSY;
- EOPNOTSUPP without driver support (`NativeOK`);
- a driver may refuse a native install.

`XdpFlags` and `DetachFlags` translate lines 1008-1023 and 1032-1036.

`ProgFd(p)` is the fd that the attach step hands to the kernel (986-993). It
is the dispatcher for several programs and the handle's `prog_fd` for one
loaded program. For one unloaded program it is the return value of
`xdp_program__load`. That value is 0 on success, because `fill_from_fd`
returns 0, so the fd is `StdinFd`. The kernel checks the mode conflict
(EEXIST) and `UPDATE_IF_NOEXIST` (EBUSY) before it looks up the fd. A fd that
is not a BPF program then gives EINVAL. The model assumes that fd 0 is the
process's standard input.

The module has two history variables. `detached[p]` records the slot and
program that p's remediation detached. `Running` is the set of processes whose
call has not returned.

### XdpIface: what an attach promises, and the refinement

`XdpIface` is the abstract interface. It has the two slots, at most one of them
occupied, the calls still running, and whether each call is forced. It has two
next-state relations.

- `Next` is what the library keeps. A call installs its own program and
  replaces a program only when forced. A forced call may also detach a
  program. Every call ends (`WF` on `Finish`).
- `SMNext` is the state machine of spec section 4.8. A forced call moves
  the interface from A in one mode to its own program in the other mode in one
  step (`Remediate`). There is no step back to Unattached.

XdpAttach instantiates it twice:

- `Iface`, with `running <- Running` and `forced` taken from the call
  arguments. `IfaceRefined == Iface!Spec` is checked as a PROPERTY. A concrete
  step that changes the interface may also end the call, because `Attach`
  installs and returns in one step.
- `SM`, which also maps `iface` to `RestoredIface`. `RestoredIface` puts back
  the program that a waiting remediation detached, so detach followed by a
  successful retry is one `Remediate` step.

### XdpRunConfig: the run config, as pure operators

- `xdp_parse_run_config(btf, cfg)` translates lines 334-435 over an abstract
  BTF. An artifact has BTF or not. It has data sections, and each section has
  variables, each with its name match, kind, linkage, the kind of its type,
  oversize and members. A member has a name (or `"NULL"`), a type shape and an
  element count.
  - The section and variable searches are `SelectInSeq`, because the code
    takes the first match.
  - The checks on the variable are `VarError`.
  - The member loop is `FoldLeft(ParseMember, ...)`. It writes fields as it
    goes, as the code does.
- `SpecRunConfig` is the reference for spec section 4.3. It is declarative:
  the last member for a field wins, unnamed fields keep their defaults, and a
  malformed member is InvalidArgument.
- `xdp_program__print_chain_call_actions(chain, buf_len)` translates lines
  222-246.
  - `pos`, `buf_len` and `len` are `size_t` values, taken modulo
    `2^SizeBits`.
  - `mem` holds the bytes written, by offset from `buf`.
  - `Snprintf` writes at most `size - 1` characters and a NUL, and nothing when
    `size` is 0. The code uses its untruncated return value.
- `ExpectedPrint` is the reference: the names joined by commas, cut to
  `buf_len - 1`, and a NUL.

The code returns -ENOTSUP for an unknown member name, where the spec says
InvalidArgument. Both are fatal to the constructors, so
`ConstructedConfigMatchesSpec` accepts either. This is noted here rather than
checked as a run.

### XdpOrder: the slot order and the dispatcher configuration

Handles are abstracted to the fields `cmp_xdp_programs` reads. They come in
the shapes the constructors produce: opened (`open_file`/`from_bpf_obj`),
opened then loaded, and `from_id`. `cmp_xdp_programs` is a CASE chain that
translates lines 627-670. `qsort` is glibc's merge sort (`msort_with_tmp`):
split at n/2, and in the merge take the left element while `cmp <= 0`. It is
written as the RECURSIVE operators `qsort` and `Merge`. `Init` picks any
injective array of handles. `Sort` is line 987.

The module then follows the sorted array into `gen_xdp_multiprog`, and keeps
the composer's data. `GenDispatcher` either fails or loads the dispatcher. It
fails for any of the reasons XdpAttach's `GenLoad` and `GenSlot` model: the
template, the rodata checks, the load, or one slot. When it loads, it holds
two things:

- `PatchRodata` (910-913): `TemplateRodata` with `num_progs_enabled` and
  `chain_call_actions[i]` written from `progs[i]`. `TemplateRodata` is the
  compiled template's all-zero rodata, taken from spec section 6 and
  scenario S2.
- `LinkSlots` (926-968): the handle linked into each slot `prog<i>`.

Handles carry their `chain_call_actions` bitmap for this.
`ASSUME NumProgs <= MaxSlots` stands for the caller's precondition, which the
code does not check.

### XdpProgram: ownership of objects, fds and BTF

This module covers two handle slots and the caller's own `bpf_object` (`ext`),
which handles made by `xdp_program__from_bpf_obj` share. The actions are:

- `OpenFile`, `FromBpfObj`, `FromId`, `Load` and `Free`. Each is one library
  call with all its failure outcomes.
- `CloseExt`, the caller closing its own object.

Closes are counted (`fd_closes`, `obj_closes`, `ext_closes`), so a double
close is a reachable state rather than a no-op.

The constructors parse the run config as the code does: `fill_from_obj`
(498-502) and `from_id` (615-617) call `xdp_parse_run_config`, and ENOENT is
benign (`ParseOutcome`). `art`, `run_prio` and `chain` are the artifact a
handle was made from and the fields the parse left on it (`Configure`).
`open_file` and `from_id` pick any artifact of `Artifacts`. `from_bpf_obj`
uses the caller's object `ExtArtifact`. `DefaultPrio` and `DefaultChain` stand
for `XDP_DEFAULT_RUN_PRIO` and `XDP_DEFAULT_CHAIN_CALL_ACTIONS`, which come from
libxdp.h, outside src/. The MC instance gives them 50 and `{XDP_PASS}`.

## Runs

| Run | cfg | Expect | What it shows |
|---|---|---|---|
| attach | XdpAttach.cfg | pass | `TypeOK`; `AttachedDispatcherComplete`: a dispatcher on the interface has every slot's link open or pinned, even after its process dies; `SuccessMeansInstalled` (action): a successful return means the program is in the slot its mode selects and the other slot is empty; `IfaceRefined` (refinement and liveness): under two concurrent calls and crashes the interface changes only as XdpIface allows (no call without force removes or replaces a program) and every call returns. A call waiting in flock is never made to fail, so this also checks that every way out of pin_multiprog that holds the lock releases it (the mutant `PinOutKeepLock` is caught). |
| attach_state_machine | XdpAttach_StateMachineRefined.cfg | violation | the remediation detaches the other mode's program before the retry; a crash or a failed retry leaves the interface unattached, a step spec section 4.8 does not have (line 1037). |
| attach_pin_unwind | XdpAttach_PinErrorUnwound.cfg | violation | err_unpin unlinks the directory path, not the link files: the links already pinned stay (code bug, line 800). |
| attach_gen_unwind | XdpAttach_GenErrorUnwound.cfg | violation | a failure in the slot loop leaves earlier links open, against spec section 4.6 (line 974). |
| attach_single_fd0 | XdpAttach_AttachErrorMeansRefused.cfg | violation | `AttachErrorMeansRefused` (action): an attach error is reported only when the interface would have refused the call's own program. A single unloaded program is attached as fd 0, the return value of `xdp_program__load`, so the call fails on a free interface (code bug, line 992). |
| order | XdpOrder.cfg | pass | for opened, unloaded handles (the only ones the composer can extend), with any chain-call bitmaps, the sorted array follows the spec's priority, name and size keys (`SlotsInSpecOrder`). Input-order independence is not claimed here: two such handles that differ only in their bitmap tie, and their slots follow the input order. |
| order_mixed | XdpOrder_mixed.cfg | violation | with loaded and by-id handles, the size tie-break (taken when both handles have a `bpf_prog`, not when both are unloaded) makes the comparator cyclic for three distinct kernel programs of one name and priority (two opened and loaded with sizes 1 < 2, and a by-id load of the second one's code), so the result depends on the input order (line 652). |
| program | XdpProgram.cfg | pass | `ExtObjClosedOnlyByCaller`: the library never closes the caller's object; `FreedHandleReleasesAll`: free releases the object and the BTF a handle owns; `ConstructedConfigMatchesSpec`: every live handle carries the priority and chain-call bits that spec section 4.3 derives from its artifact. |
| program_print_overflow | XdpProgram_PrintMatchesSnprintf.cfg | violation | print_chain_call_actions leaves an empty chain unterminated, writes past `buf_len` (with DROP and PASS and `buf_len` 5 the comma lands at `buf[8]`) and truncates too early, because it subtracts the previous length twice (line 239). |
| program_ctor_leak | XdpProgram_ConstructorErrorReleasesAll.cfg | violation | `from_id` error paths use `free()`, leaking the fd and the BTF (line 623). |
| program_obj_double_close | XdpProgram_FileObjClosedOnce.cfg | violation | `open_file` closes the object twice on a run-config parse error (line 551). |
| program_fd_double_close | XdpProgram_ProgFdClosedOnce.cfg | violation | `load` adopts the object's own fd as `prog_fd`; free and bpf_object__close both close it (line 724). |

Every property of a passing run has a mutant in `PROJECT.json`. A mutant is a
fault variant of the action the property is about, written next to that
action (for example `AttachAnyFlags`, `PinOutKeepLock`, `CmpPrioReversed`, `FreeKeepBtf`,
`ParseMemberAnyCount`), and
TLC finds the property violated when the mutant replaces the action.

## Bounds and why they are enough

**XdpAttach** uses two processes and `MaxProgs = 2`. It covers the modes
skb, native and unspec (not hardware offload, see below) and both values of `force`. The interface may start
empty or with a foreign program in either slot, and the driver supports
native mode. This gives about 400k states.

- Two processes are the least that show lock contention and one process's
  attach replacing another's.
- Two slots are the least for which a loop has an "earlier slot" to unwind.
  They also make the loop-bound mutants (`GenSlotOverrun`) reachable.
- `num_progs` 0 and 1 cover the EINVAL and the single-program paths.

**XdpOrder** sorts arrays of three handles. Three is the smallest length at
which a comparator can be non-transitive. For the same reason the mixed run
has three load times. The passing run uses two priorities, two names and two
sizes.

The passing run has two chain bitmaps: the default `1 << XDP_PASS`, and 0.
Two unloaded handles can agree on priority, name and size but differ only in
`chain_call_actions`. `cmp_xdp_programs` returns 0 for such a pair (line
669), so the slots each gets, and the policy each slot runs, follow the input
order. For that reason the passing run does not check `SortDeterministic`.
Its only run is order_mixed, which shows the comparator cycle of line 652.
In the mixed run the tag is treated as a hash of the instructions: two
handles with a `bpf_prog` and the same tag have the same size. `MaxSlots` is
10, the template's `MAX_DISPATCHER_SLOTS`.

**XdpProgram** uses two handles. That is the least for which two handles share
the caller's object. `MCArtifacts` has 16 artifacts, about 18k states in
total. They reach every way the parser can end:

- no BTF, no section, only another section, and no matching variable;
- each bad variable: kind, linkage, a non-struct type, and oversize;
- each bad member: a non-array type, an unknown name, and a NULL name;
- well-formed configs that set the priority, clear the default PASS bit with
  a zero count, repeat a field (the last one wins), and enable all five
  actions;
- a second config section after the first.

`SizeBits` is 16, wide enough that no name fits in a wrapped `buf_len`.
`BufLens` is {5, 18, 64}: it cuts inside the first name, cuts after the
comma, and fits everything.

## Fairness

`Spec` of XdpAttach has weak fairness on each process's `CallProgress`. These
are the steps a running call takes by itself: the next statement of the code,
with every outcome it can have. `PinSetupFail` is left out of the fairness.
It stands for failures of the environment (no bpffs, or a failing mkdir,
`bpf_obj_get_info_by_fd` or lock open). Such a failure may happen, but the
code is never obliged to meet one. So a call blocked in `flock` waits and is
not forced to fail out.

Weak fairness is justified because the library never waits except in
`flock`. That is a blocking wait for a lock that each call takes at most
once. Once the holder lets the lock go, it stays free until the waiter takes
it, so the waiter's step stays enabled. Weak fairness is then enough for every
call to return, provided every path out of `pin_multiprog` that holds the lock
releases it. TLC checks that proviso: the mutant `PinOutKeepLock` makes a
waiting call wait forever. `IfaceRefined` checks this through
`WF_avars(Finish(p))` of XdpIface's `Spec`.

`Exit` has no fairness: a process is never obliged to die. The processes of
the model run forever or finish. `Terminated` is the final stutter, so
deadlock checking stays on.

## Hazards

`PROJECT.json` lists the hazards of this code at the lines where they bite:

- crash between build, pin and attach;
- partial failure of each loop;
- the unlocked interface race;
- the lock's liveness;
- the non-transitive comparator, and its ties between handles that differ
  only in their chain-call policy;
- the ownership bugs;
- the out-of-bounds rodata write when `num_progs > MAX_DISPATCHER_SLOTS`;
- the `size_t` arithmetic of `xdp_program__print_chain_call_actions`;
- the uninitialized read in `xdp_program__attach`;
- the load return value used as the program fd (line 992);
- the stale bpffs path caches.

## Not modelled, and why

- **The slot bound of the dispatcher configuration** (911-913). XdpOrder
  models the rodata patch for `num_progs <= MAX_DISPATCHER_SLOTS`. Spec
  section 4.6 makes that bound a precondition of the caller. The one library
  caller that breaks it is `xdp_program__attach` (below), which passes 11
  programs when the interface is empty. That path is undefined behaviour
  before it reaches the composer.
- **Hardware offload** (`XDP_MODE_HW`, 1015-1017). It sets
  `XDP_FLAGS_HW_MODE`, which installs into the device's offload slot.
  The kernel model has only the generic and native slots, so `Modes` leaves
  this mode out.
- **What the dispatcher does with its rodata at packet time.** That is the
  template's code, which is not in this repository.
- **Pins left after an attach error** (1041-1058). An attach error after
  `pin_multiprog` leaves the dispatcher pinned, because `unpin_multiprog` has
  no caller. Spec section 7 states the unwind rule for the composer and the
  pin store, and the runs `attach_pin_unwind` and `attach_gen_unwind` check
  it there. The spec does not require the attacher to unpin.
- **The check_snprintf of the struct name** (350-353). A program name longer
  than 98 characters fails the parse. Names are not modelled.
- **`xdp_program__attach` without `replace`** (1094-1098). The function is a
  stub that its source marks as not working.
  - Without `replace`, it copies `num_old_progs` uninitialized pointers and
    never adds `prog`. `num_old_progs` stays 10 on ENOENT. What happens next
    is undefined behaviour.
  - With `replace`, it is modelled in XdpAttach as `Query` and then
    `xdp_attach_programs` on one handle with force.
- **Mount resolver caches** (87-117). Each process of XdpAttach makes one
  call, so a cache is filled and read within that call. A cache goes stale
  only when bpffs is unmounted and mounted again between two calls of one
  process. Then `<bpffs>/xdp` is gone and every later lock fails. The
  resolver's failures are `PinSetupFail`.
- **`unpin_multiprog`.** It is static and has no caller, so no execution
  reaches it.
- **Setters and accessors** (190-215, 248-308). They are plain field writes,
  with nothing to check beyond their types.
- **Refinement of XdpProgram.** A possible next step is an abstract ownership
  spec (each resource has one owner, released once) with XdpProgram mapped
  onto it. The double-close findings mean that it would hold only with those
  paths excluded.
