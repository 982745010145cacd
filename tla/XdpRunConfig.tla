---------------------------- MODULE XdpRunConfig ----------------------------
(***************************************************************************)
(* The per-program run configuration of libxdp (src/lib/libxdp/libxdp.c):  *)
(* the chain-call bitmap and its accessors, the BTF metadata parser        *)
(* xdp_parse_run_config, and xdp_program__print_chain_call_actions.  All   *)
(* are pure functions of their inputs and are written as operators.        *)
(*                                                                         *)
(* BTF is abstracted to what xdp_parse_run_config reads.  An artifact has  *)
(* BTF or not; its BTF has a sequence of data sections, each a name and a  *)
(* sequence of variables; a variable records whether its name is           *)
(* "_<prog name>", its BTF kind, its linkage, the kind of the type it      *)
(* refers to after skip_mods_and_typedefs, whether that struct is larger   *)
(* than the section entry, and the struct's members; a member has a name   *)
(* (or none: btf__name_by_offset gave NULL), the shape of its type and the *)
(* element count of the array when the type is a pointer to an array.      *)
(*                                                                         *)
(* The chain-call bitmap is the set of actions whose bit is set.  Action   *)
(* names are kept as names; for printing, a name is its length, and the    *)
(* bytes of the output are <<"c", action, k>> (k-th character of the name) *)
(* <<",", 0, 0>> and <<"nul", 0, 0>>.  size_t arithmetic is modulo         *)
(* 2^SizeBits.                                                             *)
(***************************************************************************)
EXTENDS Naturals, Sequences, SequencesExt

CONSTANTS
    SizeBits    \* width of size_t in the model

ASSUME SizeBits \in Nat /\ SizeBits >= 8

\* enum xdp_action and xdp_action_names[] (XDP_ABORTED = 0 .. XDP_REDIRECT = 4).
Actions == 0 .. 4
ActionName ==
    [a \in Actions |-> CASE a = 0 -> "XDP_ABORTED" [] a = 1 -> "XDP_DROP"
                         [] a = 2 -> "XDP_PASS"    [] a = 3 -> "XDP_TX"
                         [] a = 4 -> "XDP_REDIRECT"]
ActionNameLen == [a \in Actions |-> CASE a = 0 -> 11 [] a = 1 -> 8 [] a = 2 -> 8
                                      [] a = 3 -> 6  [] a = 4 -> 12]

\* xdp_program__set_chain_call_enabled and xdp_program__chain_call_enabled.
SetChainCallEnabled(chain, a, enabled) ==
    IF enabled THEN chain \cup {a} ELSE chain \ {a}
ChainCallEnabled(chain, a) == a \in chain

\* get_xdp_action: the index of the action with this name.
IsActionName(n) == \E a \in Actions : ActionName[a] = n
GetXdpAction(n) == CHOOSE a \in Actions : ActionName[a] = n

\* get_field_int: the member's type must be a pointer to an array; the
\* array's element count is the value.
FieldIsInt(m) == m.type = "ptr_array"

-----------------------------------------------------------------------------
(***************************************************************************)
(* xdp_parse_run_config.  cfg is the handle's [run_prio, chain] before the *)
(* call; the result adds err ("ok", "ENOENT", "EINVAL", "EOPNOTSUPP",      *)
(* "ENOTSUP").  Fields are written as the members are walked, so a failing *)
(* member leaves the writes of the members before it.                      *)
(***************************************************************************)
\* Fault variant of ParseMember: a zero count enables the action too.
ParseMemberAnyCount(st, m) ==
    CASE st.err # "ok" -> st
      [] m.mname = "NULL" -> [st EXCEPT !.err = "EINVAL"]
      [] m.mname = "priority" ->
            IF FieldIsInt(m) THEN [st EXCEPT !.run_prio = m.nelems]
                             ELSE [st EXCEPT !.err = "EINVAL"]
      [] IsActionName(m.mname) ->
            IF FieldIsInt(m)
            THEN [st EXCEPT !.chain = SetChainCallEnabled(@, GetXdpAction(m.mname), TRUE)]
            ELSE [st EXCEPT !.err = "EINVAL"]
      [] OTHER -> [st EXCEPT !.err = "ENOTSUP"]

\* One iteration of the member loop.
ParseMember(st, m) ==
    CASE st.err # "ok" -> st
      [] m.mname = "NULL" -> [st EXCEPT !.err = "EINVAL"]
      [] m.mname = "priority" ->
            IF FieldIsInt(m) THEN [st EXCEPT !.run_prio = m.nelems]
                             ELSE [st EXCEPT !.err = "EINVAL"]
      [] IsActionName(m.mname) ->
            IF FieldIsInt(m)
            THEN [st EXCEPT !.chain = SetChainCallEnabled(@, GetXdpAction(m.mname),
                                                          m.nelems # 0)]
            ELSE [st EXCEPT !.err = "EINVAL"]
      [] OTHER -> [st EXCEPT !.err = "ENOTSUP"]

\* The checks on the variable named "_<prog name>".
VarError(v) ==
    CASE v.kind # "var" -> "EINVAL"
      [] v.linkage \notin {"global_allocated", "static"} -> "EOPNOTSUPP"
      [] v.def # "struct" -> "EINVAL"
      [] v.oversize -> "EINVAL"
      [] OTHER -> "ok"

xdp_parse_run_config(btf, cfg) ==
    LET st0 == [err |-> "ok", run_prio |-> cfg.run_prio, chain |-> cfg.chain]
        si  == SelectInSeq(btf.secs, LAMBDA s : s.name = ".xdp_run_config")
        vs  == IF si = 0 THEN <<>> ELSE btf.secs[si].vars
        vi  == SelectInSeq(vs, LAMBDA v : v.named)
    IN  CASE ~btf.present \/ si = 0 \/ vi = 0 -> [st0 EXCEPT !.err = "ENOENT"]
          [] VarError(vs[vi]) # "ok" -> [st0 EXCEPT !.err = VarError(vs[vi])]
          [] OTHER -> FoldLeft(ParseMember, st0, vs[vi].members)

(***************************************************************************)
(* The parse rules of spec section 4.3, stated over the whole struct: the  *)
(* priority is the count of the (last) "priority" member, an action's bit  *)
(* is set iff the (last) member named after it has a non-zero count, and   *)
(* what no member names keeps its value.  Any malformed member is          *)
(* InvalidArgument.                                                        *)
(***************************************************************************)
SpecRunConfig(btf, cfg) ==
    LET si == SelectInSeq(btf.secs, LAMBDA s : s.name = ".xdp_run_config")
        vs == IF si = 0 THEN <<>> ELSE btf.secs[si].vars
        vi == SelectInSeq(vs, LAMBDA v : v.named)
        ms == IF vi = 0 THEN <<>> ELSE vs[vi].members
        LastNamed(n) == SelectLastInSeq(ms, LAMBDA m : m.mname = n)
        bad == \E i \in DOMAIN ms :
                  \/ ms[i].mname # "priority" /\ ~IsActionName(ms[i].mname)
                  \/ ms[i].type # "ptr_array"
    IN  CASE ~btf.present \/ si = 0 \/ vi = 0 -> [class |-> "NotFound"] @@ cfg
          [] vs[vi].kind # "var" -> [class |-> "InvalidArgument"] @@ cfg
          [] vs[vi].linkage \notin {"global_allocated", "static"} ->
                [class |-> "Unsupported"] @@ cfg
          [] vs[vi].def # "struct" \/ vs[vi].oversize \/ bad ->
                [class |-> "InvalidArgument"] @@ cfg
          [] OTHER ->
                [class    |-> "ok",
                 run_prio |-> IF LastNamed("priority") = 0 THEN cfg.run_prio
                              ELSE ms[LastNamed("priority")].nelems,
                 chain    |-> {a \in Actions :
                                 IF LastNamed(ActionName[a]) = 0 THEN a \in cfg.chain
                                 ELSE ms[LastNamed(ActionName[a])].nelems # 0}]

-----------------------------------------------------------------------------
(***************************************************************************)
(* xdp_program__print_chain_call_actions(prog, buf, buf_len).  The state   *)
(* of the loop is pos (offset from buf), buf_len and len (both size_t),    *)
(* first, and mem, the bytes written so far by offset.                     *)
(***************************************************************************)
SizeMax == 2 ^ SizeBits
SizeSub(x, y) == (x - y) % SizeMax

Write(mem, o, b) == [x \in DOMAIN mem \cup {o} |-> IF x = o THEN b ELSE mem[x]]

\* snprintf(buf + pos, size, "%s", name of a): at most size - 1 characters
\* and the terminating NUL; nothing when size is 0.
Snprintf(mem, pos, size, a) ==
    LET k == IF ActionNameLen[a] < size THEN ActionNameLen[a] ELSE size - 1
        new == [o \in pos .. pos + k |->
                  IF o < pos + k THEN <<"c", a, o - pos + 1>> ELSE <<"nul", 0, 0>>]
    IN  IF size = 0 THEN mem
        ELSE [x \in DOMAIN mem \cup DOMAIN new |->
                IF x \in DOMAIN new THEN new[x] ELSE mem[x]]

PrintStep(chain, st, i) ==
    IF ~ChainCallEnabled(chain, i) THEN st
    ELSE LET s1 == IF st.first THEN [st EXCEPT !.first = FALSE]
                   ELSE [st EXCEPT !.mem = Write(@, st.pos, <<",", 0, 0>>),
                                   !.pos = @ + 1, !.buf_len = SizeSub(@, 1)]
         IN  [s1 EXCEPT !.mem = Snprintf(s1.mem, s1.pos, SizeSub(s1.buf_len, s1.len), i),
                        !.len = ActionNameLen[i],
                        !.pos = @ + ActionNameLen[i],
                        !.buf_len = SizeSub(@, ActionNameLen[i])]

\* The bytes the call writes, by offset from buf.
xdp_program__print_chain_call_actions(chain, buf_len) ==
    LET st0 == [pos |-> 0, buf_len |-> buf_len, len |-> 0, first |-> TRUE,
                mem |-> [o \in {} |-> <<"nul", 0, 0>>]]
    IN  FoldLeft(LAMBDA st, i : PrintStep(chain, st, i), st0, <<0, 1, 2, 3, 4>>).mem

\* What an snprintf-style printer leaves in buf[0 .. buf_len - 1]: the
\* enabled action names joined by commas, cut to buf_len - 1 bytes, then NUL.
ExpectedPrint(chain, buf_len) ==
    LET names == SetToSortSeq(chain, <)
        Bytes(a) == [k \in 1 .. ActionNameLen[a] |-> <<"c", a, k>>]
        text == FlattenSeq([j \in DOMAIN names |->
                   (IF j > 1 THEN <<<<",", 0, 0>>>> ELSE <<>>) \o Bytes(names[j])])
        m == IF Len(text) < buf_len THEN Len(text) ELSE buf_len - 1
    IN  IF buf_len = 0 THEN [o \in {} |-> <<"nul", 0, 0>>]
        ELSE [o \in 0 .. m |-> IF o < m THEN text[o + 1] ELSE <<"nul", 0, 0>>]

=============================================================================
