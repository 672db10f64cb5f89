--------------------------- MODULE MCHttpSession ---------------------------
(***************************************************************************)
(* Clients of HttpSession: any first request, followed by a plain GET.     *)
(***************************************************************************)
EXTENDS HttpSession

Requests ==
    {q \in [to : {"nobody", "refuses", "plain", "throws", "status"},
            body : 0..1, expect : BOOLEAN, accepts : BOOLEAN, keep : BOOLEAN] :
        /\ q.accepts => q.body > 0 /\ q.to # "status"
        /\ q.expect => q.to \in {"plain", "status"}}

PlainGet ==
    [to |-> "plain", body |-> 0, expect |-> FALSE, accepts |-> FALSE, keep |-> TRUE]

McScripts == {<<q, PlainGet>> : q \in Requests}
=============================================================================
