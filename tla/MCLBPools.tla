------------------------------- MODULE MCLBPools -------------------------------
(***************************************************************************)
(* Instances of LBPools for TLC: what users write into spec.pools.         *)
(***************************************************************************)
EXTENDS LBPools, TLC

MCAttrs ==
  [listener |-> <<"allowed_cidrs", "timeout_client_data_ms">>,
   monitor |-> <<"delay_s", "http.host">>]
MCHTTPAttrs == {"http.host"}
MCHTTPKeys == {"http"}
MCDefault ==
  [a \in {"allowed_cidrs", "timeout_client_data_ms", "delay_s", "http.host"} |->
     IF a = "http.host" THEN None ELSE 1]

Listener(port, cidrs, timeout) ==
  [key |-> port,
   attrs |-> [a \in {"allowed_cidrs", "timeout_client_data_ms"} |->
                IF a = "allowed_cidrs" THEN cidrs ELSE timeout]]
Monitor(type, delay, host) ==
  [key |-> type,
   attrs |-> [a \in {"delay_s", "http.host"} |-> IF a = "delay_s" THEN delay ELSE host]]
APool(name, kind, l, m) == [name |-> name, kind |-> kind, listener |-> l, monitor |-> m]

A1 == APool("a", "roundRobin", Listener("tcp/80", 1, 1), Monitor("http", 1, 1))
A2 == APool("a", "roundRobin", Listener("tcp/80", 2, 2), Monitor("http", 2, 2))
A3 == APool("a", "roundRobin", Listener("tcp/443", 2, 1), Monitor("tcp", None, None))
A4 == APool("a", "sourceIP", Listener("tcp/80", 1, 1), Monitor("http", 1, 1))
B1 == APool("b", "roundRobin", Listener("tcp/443", 1, 1), Monitor("tcp", 1, None))

\* Every kind of change: of attributes, of keys, of the kind of a pool, of order
MCSpecs == {<<A1>>, <<A2>>, <<A3>>, <<A4>>, <<>>, <<A1, B1>>, <<B1, A4>>}

MCAdopted == {[name |-> "x", kind |-> "roundRobin"]}
MCNothing == {}

\* The host header is taken out of the health monitor.
MCHostRemoved ==
  {<<A1>>, <<APool("a", "roundRobin", Listener("tcp/80", 1, 1), Monitor("http", 1, None))>>}

\* Two pools of the same name
MCSameName == {<<A1, [A1 EXCEPT !.listener = Listener("tcp/443", 1, 1)]>>}

Symmetry == Permutations(PoolIDs) \cup Permutations(ChildIDs)
================================================================================
