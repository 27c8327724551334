------------------------------ MODULE MC_McConn ------------------------------
(***************************************************************************)
(* Small instances of McConn.  One connection with all pairs of commands   *)
(* of a protocol, one with failing allocations, slow readers and clients   *)
(* that hang up, and several connections on few descriptors.               *)
(***************************************************************************)
EXTENDS McConn

Op(o, q, k, n, b) == [op |-> o, quiet |-> q, key |-> k, n |-> n, big |-> b]
Line(o, q) == Op(o, q, 0, 0, FALSE)

Base == [script |-> <<>>, prot |-> "ascii", bind |-> "negotiating", clients |-> 1, oom |-> FALSE,
         cut |-> FALSE, slow |-> FALSE, sasl |-> FALSE, fast |-> FALSE, maxconns |-> 4,
         badkey |-> FALSE]

Ascii == {Line(o, FALSE) : o \in {"get", "gets", "stats", "version", "quit", "bad", "lru_crawler", "slabs"}}
           \cup {Line(o, TRUE) : o \in {"incr", "delete", "touch", "verbosity", "slabs", "flush_all"}}
           \cup {Op("set", FALSE, 0, 2, FALSE), Op("set", TRUE, 0, 1, FALSE),
                 Op("set", FALSE, 0, 2, TRUE)}
AsciiPairs == {[Base EXCEPT !.script = <<a, b>>] : a, b \in Ascii}
AsciiLong == {[Base EXCEPT !.script = <<Line("gets", FALSE), a, Line("delete", TRUE), Line("get", FALSE)>>,
                           !.badkey = FALSE, !.slow = TRUE, !.cut = TRUE] :
                 a \in {Op("set", TRUE, 0, 2, FALSE), Op("set", FALSE, 0, 2, TRUE)}}
AsciiBadKey == {[Base EXCEPT !.script = <<Line("get", FALSE), Line("get", FALSE)>>, !.badkey = TRUE]}
(* No get and no quiet set without memory: see Lost.                       *)
AsciiOom == {[Base EXCEPT !.script = <<a, Line("version", FALSE)>>, !.oom = TRUE] :
                a \in {Line("stats", FALSE), Op("set", FALSE, 0, 2, FALSE), Line("delete", TRUE)}}

Bin == [Base EXCEPT !.prot = "binary"]
Binary == {Line("version", FALSE), Line("noop", FALSE), Op("flush_all", TRUE, 1, 0, FALSE),
           Op("set", FALSE, 1, 2, FALSE), Op("set", TRUE, 1, 2, TRUE), Op("append", TRUE, 1, 1, FALSE),
           Op("get", TRUE, 1, 0, FALSE), Op("touch", FALSE, 1, 0, FALSE), Op("delete", FALSE, 1, 0, FALSE),
           Op("incr", TRUE, 2, 0, FALSE), Op("stats", FALSE, 1, 0, FALSE), Op("sasl", FALSE, 1, 1, FALSE),
           Line("mechs", FALSE), Line("quit", TRUE), Line("quit", FALSE), Line("malformed", FALSE),
           Op("other", FALSE, 1, 1, FALSE)}
BinaryPairs == {[Bin EXCEPT !.script = <<a, b>>] : a, b \in Binary}
BinaryOom == {[Bin EXCEPT !.script = <<a, Line("noop", FALSE)>>, !.oom = TRUE] :
                a \in {Op("get", TRUE, 1, 0, FALSE), Op("incr", FALSE, 2, 0, FALSE),
                       Op("stats", FALSE, 1, 0, FALSE)}}
BinarySasl == {[Bin EXCEPT !.script = <<Op("sasl", FALSE, 1, 1, FALSE), a, Op("get", FALSE, 1, 0, FALSE)>>,
                           !.sasl = TRUE, !.cut = TRUE, !.oom = b] :
                 a \in {Line("mechs", FALSE), Op("set", FALSE, 1, 2, TRUE)}, b \in BOOLEAN}

(* More clients than descriptors.                                          *)
Many == [Base EXCEPT !.script = <<Line("version", FALSE)>>, !.clients = 3, !.cut = TRUE]
Crowd == {Many, [Many EXCEPT !.script = <<Line("quit", FALSE)>>, !.oom = TRUE, !.cut = FALSE, !.slow = TRUE],
          [Many EXCEPT !.script = <<Line("quit", FALSE)>>, !.fast = TRUE, !.maxconns = 2, !.cut = FALSE]}

AllScenarios == AsciiPairs \cup AsciiLong \cup AsciiBadKey \cup AsciiOom \cup BinaryPairs
                  \cup BinaryOom \cup BinarySasl \cup Crowd

(* A binary set for which there is no memory.                              *)
Lost == {[Bin EXCEPT !.script = <<Op("set", FALSE, 1, 1, FALSE), Line("noop", FALSE)>>, !.oom = TRUE]}
=============================================================================
