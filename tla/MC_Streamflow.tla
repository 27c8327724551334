---------------------------- MODULE MC_Streamflow ----------------------------
(***************************************************************************)
(* Small instances of Streamflow: superpages of four pages, three classes  *)
(* (blocks of one page with three or one object, blocks of two pages), two *)
(* or three threads.                                                       *)
(***************************************************************************)
EXTENDS Streamflow

CONSTANTS ta, tb, tc

MCObjSize == <<1, 2, 3>>
MCPbPages == <<1, 1, 2>>
MCPoolSize == <<3, 6>>

Req(k, n) == [k |-> k, n |-> n]
Ops(x, y, z) == (ta :> x) @@ (tb :> y) @@ (tc :> z)

(* Small objects freed by others, in blocks that change class.             *)
Remote == [who |-> {ta, tb, tc}, reqs |-> {Req("small", 1)}, resize |-> {}, ops |-> Ops(4, 0, 0)]
Reuse == [who |-> {ta, tb}, reqs |-> {Req("small", 1), Req("small", 2)}, resize |-> {}, ops |-> Ops(3, 1, 0)]
(* Pages of all kinds.                                                     *)
Pages == [who |-> {ta, tb}, reqs |-> {Req("small", 2), Req("small", 3), Req("medium", 1), Req("medium", 3)},
          resize |-> {}, ops |-> Ops(2, 1, 0)]
(* realloc.                                                                *)
Resize == [who |-> {ta, tb}, reqs |-> {Req("small", 1), Req("medium", 2), Req("large", 4)},
           resize |-> {Req("small", 3), Req("medium", 1), Req("large", 2), Req("large", 5)},
           ops |-> Ops(2, 1, 0)]

AllScenarios == {Remote, Reuse, Pages, [Pages EXCEPT !.ops = Ops(3, 0, 0)], Resize}
=============================================================================
