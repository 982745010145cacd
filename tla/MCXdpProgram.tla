---------------------------- MODULE MCXdpProgram ----------------------------
(***************************************************************************)
(* Model-checking instance of XdpProgram: two handle slots, and the BTF of *)
(* the artifacts they are made from: every way xdp_parse_run_config can    *)
(* end (no BTF, no section, no variable, each bad variable, each bad       *)
(* member) and well-formed configs that set, clear and repeat fields.      *)
(***************************************************************************)
EXTENDS XdpProgram

CONSTANTS h1, h2

MCHandles == {h1, h2}

\* A member: its name, its type's shape and the array's element count.
Mem(n, t, k) == [mname |-> n, type |-> t, nelems |-> k]
Prio3  == Mem("priority", "ptr_array", 3)
Drop1  == Mem("XDP_DROP", "ptr_array", 1)
Drop0  == Mem("XDP_DROP", "ptr_array", 0)
Pass0  == Mem("XDP_PASS", "ptr_array", 0)
Tx2    == Mem("XDP_TX", "ptr_array", 2)
Abort1 == Mem("XDP_ABORTED", "ptr_array", 1)
Redir1 == Mem("XDP_REDIRECT", "ptr_array", 1)
PrioInt == Mem("priority", "int", 0)
Bogus  == Mem("bogus", "ptr_array", 1)
NoName == Mem("NULL", "ptr_array", 0)

\* The variable "_<prog name>" (or another one), well formed but for what
\* the record overrides.
GoodVar(ms) == [named |-> TRUE, kind |-> "var", linkage |-> "global_allocated",
                def |-> "struct", oversize |-> FALSE, members |-> ms]
OtherVar == [GoodVar(<<Prio3>>) EXCEPT !.named = FALSE]
RunCfgSec(vs) == [name |-> ".xdp_run_config", vars |-> vs]
DataSec == [name |-> ".data", vars |-> <<OtherVar>>]
WithBtf(secs) == [present |-> TRUE, secs |-> secs]
Good(ms) == WithBtf(<<RunCfgSec(<<GoodVar(ms)>>)>>)

MCExtArtifact == Good(<<Prio3, Drop1>>)

MCArtifacts == {
    NoBtf,
    WithBtf(<<>>),
    WithBtf(<<DataSec>>),
    WithBtf(<<RunCfgSec(<<OtherVar>>)>>),
    MCExtArtifact,
    Good(<<Pass0, Prio3>>),
    Good(<<Drop1, Drop0>>),
    Good(<<Abort1, Drop1, Pass0, Tx2, Redir1>>),
    Good(<<Prio3, PrioInt>>),
    Good(<<Drop1, Bogus>>),
    Good(<<NoName>>),
    WithBtf(<<RunCfgSec(<<[GoodVar(<<Prio3>>) EXCEPT !.kind = "func"]>>)>>),
    WithBtf(<<RunCfgSec(<<[GoodVar(<<Prio3>>) EXCEPT !.linkage = "extern"]>>)>>),
    WithBtf(<<RunCfgSec(<<[GoodVar(<<Prio3>>) EXCEPT !.def = "union"]>>)>>),
    WithBtf(<<RunCfgSec(<<[GoodVar(<<Prio3>>) EXCEPT !.oversize = TRUE]>>)>>),
    WithBtf(<<DataSec, RunCfgSec(<<OtherVar, GoodVar(<<Tx2>>)>>),
              RunCfgSec(<<GoodVar(<<Drop1>>)>>)>>)
    }

\* XDP_DEFAULT_RUN_PRIO and XDP_DEFAULT_CHAIN_CALL_ACTIONS (1 << XDP_PASS).
MCDefaultPrio == 50
MCDefaultChain == {2}

\* Buffer sizes a caller passes to xdp_program__print_chain_call_actions.
MCBufLens == {5, 18, 64}
=============================================================================
