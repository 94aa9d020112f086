------------------------------ MODULE MCServices ------------------------------
(***************************************************************************)
(* Small instances of the components of Services.                          *)
(***************************************************************************)
EXTENDS Services, TLC

CONSTANTS k1, old, new1, new2, a1, a2, a3

\* Windows: too small, good, slow, throttled, failing.  Times in milliseconds.
S(ttft, fate) == [ttft |-> ttft, latency |-> 2 * ttft, fate |-> fate]
MCWindows == {<<S(100, "ok")>>,
              <<S(100, "ok"), S(200, "ok")>>,
              <<S(9000, "ok"), S(12000, "ok")>>,
              <<S(100, "ok"), S(200, "status429")>>,
              <<S(100, "status5xx"), S(100, "status5xx"), S(100, "ok")>>}

MCKnown == (old :> 2) @@ (new1 :> 4) @@ (new2 :> 4)
MCOrders == {SelectSeq(<<a1, a2, a3>>, LAMBDA a : a \in usable) :
                 usable \in SUBSET {a1, a2, a3}}
===============================================================================
