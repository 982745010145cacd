----------------------------- MODULE XdpProgram -----------------------------
(***************************************************************************)
(* Ownership of the resources behind struct xdp_program handles           *)
(* (src/lib/libxdp/libxdp.c): the bpf_object a handle was opened from, the *)
(* program fd, and a BTF fetched by id.                                    *)
(*                                                                         *)
(* A caller builds handles with xdp_program__open_file (the handle owns    *)
(* the object), xdp_program__from_bpf_obj (the caller owns the object,     *)
(* ExtObj, shared by its handles) or xdp_program__from_id (the handle owns *)
(* the fd and the BTF), loads them with xdp_program__load and frees them   *)
(* with xdp_program__free.  Each constructor and each call is one action:  *)
(* the library is single-threaded, and its failure points are the          *)
(* nondeterministic outcomes of the action.                                *)
(*                                                                         *)
(* Closing is counted, not just recorded, so that a second close of the    *)
(* same object or fd is visible.                                           *)
(***************************************************************************)
EXTENDS Naturals, FiniteSets, XdpRunConfig

CONSTANTS
    Handles,     \* handle slots the caller fills (model values)
    Artifacts,   \* the BTF of the objects and kernel programs the caller uses
    ExtArtifact, \* the BTF of the caller's own object
    DefaultPrio, \* XDP_DEFAULT_RUN_PRIO
    DefaultChain, \* XDP_DEFAULT_CHAIN_CALL_ACTIONS, as a set of actions
    BufLens      \* buffer sizes callers pass to print_chain_call_actions

ASSUME ExtArtifact \in Artifacts /\ DefaultChain \subseteq Actions

VARIABLES
    hstate,     \* "unused", "live", "failed" (constructor error) or "freed"
    src,        \* where bpf_obj points: "none", "file" (owned), "ext" (caller's)
    external,   \* from_external_obj
    prog_fd,    \* the handle's prog_fd is set (>= 0)
    fd_made,    \* the program fd of this handle exists (created by a load or by id)
    fd_closes,  \* how many times that fd has been closed
    obj,        \* the object open_file made for this handle: "none", "open", "loaded"
    obj_closes, \* how many times that object has been closed
    btf,        \* a BTF the handle fetched by id: "none", "held", "freed"
    ext,        \* the caller's object: "open", "loaded" or "closed"
    ext_closes, \* how many times the caller's object has been closed
    art,        \* the BTF the handle's run config was parsed from
    run_prio,   \* the handle's run_prio
    chain       \* the handle's chain_call_actions

vars == <<hstate, src, external, prog_fd, fd_made, fd_closes, obj, obj_closes,
          btf, ext, ext_closes, art, run_prio, chain>>

HStates == {"unused", "live", "failed", "freed"}

\* The fd of h is open: made and never closed.
FdOpen(h) == fd_made[h] /\ fd_closes[h] = 0

\* The object h's bpf_obj points to is loaded.
ObjLoaded(h) == IF src[h] = "file" THEN obj[h] = "loaded" ELSE ext = "loaded"

\* The fields xdp_program__new gives a handle.
DefaultCfg == [run_prio |-> DefaultPrio, chain |-> DefaultChain]
NoBtf == [present |-> FALSE, secs |-> <<>>]

\* fill_from_obj and from_id after xdp_parse_run_config: ENOENT is benign.
ParseOutcome(a) ==
    IF xdp_parse_run_config(a, DefaultCfg).err \in {"ok", "ENOENT"}
    THEN "ok" ELSE "parse_fail"

\* The handle's run_prio and chain_call_actions as the parser leaves them.
Configure(h, a) ==
    LET r == xdp_parse_run_config(a, DefaultCfg)
    IN  /\ art' = [art EXCEPT ![h] = a]
        /\ run_prio' = [run_prio EXCEPT ![h] = r.run_prio]
        /\ chain' = [chain EXCEPT ![h] = r.chain]

Init ==
    /\ hstate = [h \in Handles |-> "unused"]
    /\ src = [h \in Handles |-> "none"]
    /\ external = [h \in Handles |-> FALSE]
    /\ prog_fd = [h \in Handles |-> FALSE]
    /\ fd_made = [h \in Handles |-> FALSE]
    /\ fd_closes = [h \in Handles |-> 0]
    /\ obj = [h \in Handles |-> "none"]
    /\ obj_closes = [h \in Handles |-> 0]
    /\ btf = [h \in Handles |-> "none"]
    /\ ext = "open"
    /\ ext_closes = 0
    /\ art = [h \in Handles |-> NoBtf]
    /\ run_prio = [h \in Handles |-> DefaultPrio]
    /\ chain = [h \in Handles |-> DefaultChain]

-----------------------------------------------------------------------------
(***************************************************************************)
(* xdp_program__open_file: bpf_object__open_file (may fail: nothing to     *)
(* free); xdp_program__new (ENOMEM: the object is closed); fill_from_obj:  *)
(* finding the program or strdup may fail before bpf_obj is set; then      *)
(* bpf_obj, btf and from_external_obj = false are set and the run config   *)
(* is parsed, where ENOENT is benign.  On a fill error the handle is freed *)
(* with xdp_program__free, which closes bpf_obj when it is set, and then   *)
(* the object is closed once more.                                         *)
(***************************************************************************)
OpenFile(h) ==
    /\ hstate[h] = "unused"
    /\ \E stage \in {"open_fail", "new_fail", "find_fail", "filled"}, a \in Artifacts :
       LET outcome == IF stage = "filled" THEN ParseOutcome(a) ELSE stage
       IN /\ IF stage = "filled" THEN Configure(h, a)
                                 ELSE UNCHANGED <<art, run_prio, chain>>
          /\ hstate' = [hstate EXCEPT ![h] = IF outcome = "ok" THEN "live" ELSE "failed"]
          /\ src' = [src EXCEPT ![h] = IF outcome = "ok" THEN "file" ELSE "none"]
          /\ obj' = [obj EXCEPT ![h] = IF outcome = "ok" THEN "open" ELSE "none"]
          /\ obj_closes' = [obj_closes EXCEPT ![h] =
                               CASE outcome = "open_fail"  -> 0
                                 [] outcome = "parse_fail" -> 2
                                 [] outcome = "ok"         -> 0
                                 [] OTHER                  -> 1]
    /\ UNCHANGED <<external, prog_fd, fd_made, fd_closes, btf, ext, ext_closes>>

\* Fault variant of FromBpfObj: fill_from_obj is told the object is the handle's.
FromBpfObjOwned(h) ==
    /\ hstate[h] = "unused"
    /\ ext # "closed"
    /\ \E ok \in BOOLEAN :
          /\ hstate' = [hstate EXCEPT ![h] = IF ok THEN "live" ELSE "failed"]
          /\ src' = [src EXCEPT ![h] = IF ok THEN "ext" ELSE "none"]
    /\ UNCHANGED <<external, prog_fd, fd_made, fd_closes, obj, obj_closes, btf,
                   ext, ext_closes, art, run_prio, chain>>

(***************************************************************************)
(* xdp_program__from_bpf_obj on the caller's object: xdp_program__new,     *)
(* then fill_from_obj with external = true.  Any failure frees the handle, *)
(* which never closes an external object.                                  *)
(***************************************************************************)
FromBpfObj(h) ==
    /\ hstate[h] = "unused"
    /\ ext # "closed"
    /\ \E found \in BOOLEAN :
       LET ok == found /\ ParseOutcome(ExtArtifact) = "ok"
       IN /\ IF found THEN Configure(h, ExtArtifact)
                       ELSE UNCHANGED <<art, run_prio, chain>>
          /\ hstate' = [hstate EXCEPT ![h] = IF ok THEN "live" ELSE "failed"]
          /\ src' = [src EXCEPT ![h] = IF ok THEN "ext" ELSE "none"]
          /\ external' = [external EXCEPT ![h] = ok]
    /\ UNCHANGED <<prog_fd, fd_made, fd_closes, obj, obj_closes, btf, ext, ext_closes>>

(***************************************************************************)
(* xdp_program__from_id: bpf_prog_get_fd_by_id (may fail: nothing made);   *)
(* xdp_program__new (ENOMEM: returns at once); xdp_program__fill_from_fd:  *)
(* bpf_obj_get_info_by_fd or strdup may fail; when the program has BTF it  *)
(* is fetched with btf__get_from_id, which may fail; on success prog_fd is *)
(* set; then the run config is parsed.  Every error after the fd exists    *)
(* ends in free(xdp_prog), which closes neither the fd nor the BTF.        *)
(***************************************************************************)
FromId(h) ==
    /\ hstate[h] = "unused"
    /\ \E stage \in {"fd_fail", "new_fail", "info_fail", "btf_fail", "filled"},
          a \in Artifacts :
       LET outcome == IF stage = "filled" THEN ParseOutcome(a) ELSE stage
           has_btf == a.present
       IN /\ stage = "btf_fail" => has_btf
          /\ IF stage = "filled" THEN Configure(h, a)
                                 ELSE UNCHANGED <<art, run_prio, chain>>
          /\ hstate' = [hstate EXCEPT ![h] = IF outcome = "ok" THEN "live" ELSE "failed"]
          /\ fd_made' = [fd_made EXCEPT ![h] = outcome # "fd_fail"]
          /\ prog_fd' = [prog_fd EXCEPT ![h] = outcome \in {"parse_fail", "ok"}]
          /\ btf' = [btf EXCEPT ![h] =
                        IF has_btf /\ outcome \in {"parse_fail", "ok"}
                        THEN "held" ELSE "none"]
    /\ UNCHANGED <<src, external, fd_closes, obj, obj_closes, ext, ext_closes>>

(***************************************************************************)
(* xdp_program__load: EEXIST when prog_fd is set, EINVAL without bpf_obj;  *)
(* bpf_object__load loads every program of the object (and fails on an     *)
(* object already loaded); then fill_from_fd takes bpf_program__fd, the    *)
(* fd the object itself keeps, as the handle's prog_fd.  When the object   *)
(* carries BTF (as one with a run config does) no BTF is fetched.          *)
(***************************************************************************)
Load(h) ==
    /\ hstate[h] = "live"
    /\ ~prog_fd[h]
    /\ src[h] \in {"file", "ext"}
    /\ ~ObjLoaded(h)
    /\ \E outcome \in {"load_fail", "info_fail", "ok"} :
          /\ obj' = [obj EXCEPT ![h] = IF src[h] = "file" /\ outcome # "load_fail"
                                       THEN "loaded" ELSE @]
          /\ ext' = IF src[h] = "ext" /\ outcome # "load_fail" THEN "loaded" ELSE ext
          /\ fd_made' = [fd_made EXCEPT ![h] = outcome # "load_fail"]
          /\ prog_fd' = [prog_fd EXCEPT ![h] = outcome = "ok"]
    /\ UNCHANGED <<hstate, src, external, fd_closes, obj_closes, btf, ext_closes,
                   art, run_prio, chain>>

(***************************************************************************)
(* The closes xdp_program__free makes, BTF apart: close prog_fd and, unless *)
(* from_external_obj, bpf_object__close(bpf_obj), which closes the fds of  *)
(* the programs the object loaded.                                         *)
(***************************************************************************)
Release(h) ==
    LET closes_obj == ~external[h] /\ src[h] # "none"
        file_obj   == closes_obj /\ src[h] = "file"
        ext_obj    == closes_obj /\ src[h] = "ext"
    IN  /\ hstate' = [hstate EXCEPT ![h] = "freed"]
        /\ fd_closes' = [g \in Handles |->
              fd_closes[g]
                + (IF g = h /\ prog_fd[h] THEN 1 ELSE 0)
                + (IF g = h /\ file_obj /\ obj[h] = "loaded" /\ fd_made[h]
                   THEN 1 ELSE 0)
                + (IF ext_obj /\ src[g] = "ext" /\ fd_made[g] THEN 1 ELSE 0)]
        /\ obj_closes' = [obj_closes EXCEPT ![h] = @ + (IF file_obj THEN 1 ELSE 0)]
        /\ obj' = [obj EXCEPT ![h] = IF file_obj THEN "none" ELSE @]
        /\ ext' = IF ext_obj THEN "closed" ELSE ext
        /\ ext_closes' = ext_closes + (IF ext_obj THEN 1 ELSE 0)
        /\ UNCHANGED <<src, external, prog_fd, fd_made, art, run_prio, chain>>

\* Fault variant of Free: the BTF fetched by id is not freed.
FreeKeepBtf(h) ==
    /\ hstate[h] = "live"
    /\ Release(h)
    /\ UNCHANGED btf

\* Fault variant of Free: a handle already freed is released again.
FreeTwice(h) ==
    /\ hstate[h] \in {"live", "freed"}
    /\ Release(h)
    /\ UNCHANGED btf

\* xdp_program__free: Release, and without an object btf__free(btf).
Free(h) ==
    /\ hstate[h] = "live"
    /\ Release(h)
    /\ btf' = [btf EXCEPT ![h] =
                  IF ~external[h] /\ src[h] = "none" /\ @ = "held"
                  THEN "freed" ELSE @]

(***************************************************************************)
(* The caller closes its own object once it has no live handle on it;      *)
(* bpf_object__close closes the fds of the programs it loaded.             *)
(***************************************************************************)
CloseExt ==
    /\ ext # "closed"
    /\ \A h \in Handles : src[h] = "ext" => hstate[h] # "live"
    /\ ext' = "closed"
    /\ ext_closes' = ext_closes + 1
    /\ fd_closes' = [h \in Handles |->
                        fd_closes[h] + (IF src[h] = "ext" /\ fd_made[h] THEN 1 ELSE 0)]
    /\ UNCHANGED <<hstate, src, external, prog_fd, fd_made, obj, obj_closes, btf,
                   art, run_prio, chain>>

\* Every handle slot used and released, the caller's object closed.
Finished ==
    /\ \A h \in Handles : hstate[h] \in {"failed", "freed"}
    /\ ext = "closed"
    /\ UNCHANGED vars

Next ==
    \/ \E h \in Handles :
          OpenFile(h) \/ FromBpfObj(h) \/ FromId(h) \/ Load(h) \/ Free(h)
    \/ CloseExt
    \/ Finished

Spec == Init /\ [][Next]_vars

-----------------------------------------------------------------------------
TypeOK ==
    /\ hstate \in [Handles -> HStates]
    /\ src \in [Handles -> {"none", "file", "ext"}]
    /\ external \in [Handles -> BOOLEAN]
    /\ prog_fd \in [Handles -> BOOLEAN]
    /\ fd_made \in [Handles -> BOOLEAN]
    /\ fd_closes \in [Handles -> 0 .. 2]
    /\ obj \in [Handles -> {"none", "open", "loaded"}]
    /\ obj_closes \in [Handles -> 0 .. 2]
    /\ btf \in [Handles -> {"none", "held", "freed"}]
    /\ ext \in {"open", "loaded", "closed"}
    /\ ext_closes \in 0 .. 1 + Cardinality(Handles)
    /\ art \in [Handles -> Artifacts \cup {NoBtf}]
    /\ run_prio \in [Handles -> Nat]
    /\ chain \in [Handles -> SUBSET Actions]

(***************************************************************************)
(* The caller's object is closed by the caller only, exactly once: no      *)
(* constructor error path and no xdp_program__free of a handle made by     *)
(* xdp_program__from_bpf_obj closes it (spec section 8, property 5).       *)
(***************************************************************************)
ExtObjClosedOnlyByCaller ==
    ext_closes <= 1

(***************************************************************************)
(* Freeing a handle releases everything it owns: the object open_file made *)
(* and the fd and BTF from_id fetched, whatever constructor and load       *)
(* history the handle went through.                                        *)
(***************************************************************************)
FreedHandleReleasesAll ==
    \A h \in Handles :
        hstate[h] = "freed" =>
            /\ obj[h] = "none"
            /\ btf[h] # "held"
            /\ (src[h] = "none" => ~FdOpen(h))

\* A constructor that fails leaves nothing open (spec section 8, property 6).
ConstructorErrorReleasesAll ==
    \A h \in Handles :
        hstate[h] = "failed" => ~FdOpen(h) /\ btf[h] # "held" /\ obj[h] = "none"

\* Every object open_file made is closed at most once.
FileObjClosedOnce ==
    \A h \in Handles : obj_closes[h] <= 1

(***************************************************************************)
(* The run config a constructor leaves on a live handle is what spec       *)
(* section 4.3 says the artifact declares: fields a member names take its  *)
(* count (the last such member wins), the others keep their defaults, and  *)
(* a handle is made only from an artifact that is well formed or has no    *)
(* config (xdp_parse_run_config under fill_from_obj and from_id).          *)
(***************************************************************************)
ConstructedConfigMatchesSpec ==
    \A h \in Handles :
        hstate[h] = "live" =>
            LET r == SpecRunConfig(art[h], DefaultCfg)
            IN  /\ r.class \in {"ok", "NotFound"}
                /\ run_prio[h] = r.run_prio
                /\ chain[h] = r.chain

(***************************************************************************)
(* xdp_program__print_chain_call_actions on a live handle writes what      *)
(* snprintf would: the enabled action names joined by ",", cut to fit, and *)
(* a NUL, and nothing at or beyond buf[buf_len].                           *)
(***************************************************************************)
PrintMatchesSnprintf ==
    \A h \in Handles, n \in BufLens :
        hstate[h] = "live" =>
            xdp_program__print_chain_call_actions(chain[h], n) = ExpectedPrint(chain[h], n)

\* Every program fd is closed at most once.
ProgFdClosedOnce ==
    \A h \in Handles : fd_closes[h] <= 1

=============================================================================
