----------------------------- MODULE MCExchange -----------------------------
(***************************************************************************)
(* Model checking two exchanges, each by itself: the editor and its daemon *)
(* process (Rpc), and the HTTP adapter and its server (HttpAgent).         *)
(***************************************************************************)
EXTENDS Rpc, HttpAgent

VARIABLE study      \* the exchange that is looked at

ExchangeInit ==
    /\ study \in {"process", "server"}
    /\ Init /\ HttpInit
    /\ study # "server" => ~deadline

ExchangeNext ==
    \/ study = "process" /\ Next /\ UNCHANGED <<study, httpVars>>
    \/ study = "server" /\ HttpNext /\ UNCHANGED <<study, vars>>

FairExchange ==
    /\ ExchangeInit
    /\ [][ExchangeNext]_<<study, vars, httpVars>>
    /\ WF_vars(InstallEnds)
    /\ \A p \in Pids : WF_vars(Events(p)) /\ WF_vars(Answers(p))
    /\ HttpFairness

(* Which session calls first, and with which context, is a name.           *)
UpToRenaming ==
    turns # <<>> => turns[1].session = "s1" /\ turns[1].ctx = "c1"
=============================================================================
