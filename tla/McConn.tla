------------------------------- MODULE McConn -------------------------------
(***************************************************************************)
(* memcached's connections: the listener and the dispatch of accepted      *)
(* sockets to worker threads (thread.c), and the state machine that a      *)
(* worker drives for each of its connections (memcached.c), with the       *)
(* handlers of the ASCII and the binary protocol.                          *)
(*                                                                         *)
(* One turn of the loop of drive_machine is one step.  The byte stream is  *)
(* a sequence of units: two halves of a command line or of a binary        *)
(* header, the key and extras of a binary command, and the units of a      *)
(* value.  What the store answers (McStore) is a choice of the handlers,   *)
(* which are sets of connection records.  TCP only.                        *)
(***************************************************************************)
EXTENDS Integers, Sequences, FiniteSets, SequencesExt

CONSTANTS
  NWorkers,      \* settings.num_threads
  Fds,           \* file descriptors for clients
  RSize,         \* DATA_BUFFER_SIZE
  HighWat,       \* READ_BUFFER_HIGHWAT
  ReqsPerEvent,  \* settings.reqs_per_event
  Scenarios      \* clients, what they send, and which failures happen

(* thread_init is given at least one thread; descriptors are limited.      *)
ASSUME ConnAssumption == NWorkers \in Nat \ {0} /\ IsFiniteSet(Fds) /\ RSize \in Nat

Worker == 0 .. NWorkers - 1

VARIABLES
  conf,   \* constant: the scenario
  conn,   \* conns[fd]
  sock,   \* sock[fd]: the client's side and the kernel's buffers
  wk,     \* the workers: connection queue, notify pipe, end of conn_close
  lis     \* the listener, its maxconns timer and the connection counts

vars == <<conf, conn, sock, wk, lis>>

(***************************************************************************)
(* What clients send.  A command: op, quiet (noreply, or the Q form), key  *)
(* and n (units of key and value), big (larger than item_size_max).        *)
(***************************************************************************)

Unit(j, p, n) == [x \in 1 .. n |-> [i |-> j, p |-> p]]

Encode(j, q) == Unit(j, "h", 1) \o Unit(j, "e", 1) \o Unit(j, "k", q.key) \o Unit(j, "v", q.n)

Stream == FlattenSeq([j \in DOMAIN conf.script |-> Encode(j, conf.script[j])])

Cmd(c) == conf.script[c.i]

(* What the two protocols allow to be sent: an ASCII line holds its keys,  *)
(* and only a set has a value; which binary commands have a key or a value *)
(* (any other shape is "malformed"); a large value is not empty.           *)
Spoken(prot, q) ==
  /\ q.quiet \in BOOLEAN /\ q.key \in Nat /\ q.n \in Nat
  /\ q.big => q.n > 0
  /\ prot = "ascii" => q.key = 0 /\ (q.op # "set" => q.n = 0)
  /\ prot = "binary" =>
       /\ q.op \in {"get", "touch", "delete", "incr", "stats", "flush_all"} => q.n = 0
       /\ q.op \in {"version", "noop", "mechs"} => q.key = 0 /\ q.n = 0

ASSUME ScriptAssumption ==
  \A s \in Scenarios :
    /\ s.prot \in {"ascii", "binary"} /\ s.bind \in {"negotiating", s.prot}
    /\ s.script \in Seq(Range(s.script))
    /\ \A j \in DOMAIN s.script : Spoken(s.prot, s.script[j])

(***************************************************************************)
(* Connection records.  refs, sufs: item references and suffix buffers     *)
(* taken for the connection and not given back; log: commands answered.    *)
(***************************************************************************)

(* A structure fresh from calloc.                                          *)
NoConn == [st |-> "closed", run |-> FALSE, own |-> 0, ev |-> "none", prot |-> "none",
           nreqs |-> 0, rbuf |-> <<>>, rsize |-> RSize, i |-> 0, item |-> FALSE, rl |-> 0,
           sb |-> 0, go |-> "new_cmd", noreply |-> FALSE, sub |-> "none", ileft |-> 0,
           suf |-> 0, wfree |-> FALSE, out |-> <<>>, auth |-> FALSE,
           refs |-> 0, sufs |-> 0, log |-> <<>>]

(* conn_new: a structure left by an earlier connection is used again;      *)
(* sbytes and the size of the read buffer stay as they were.               *)
conn_new(c, w) ==
  [NoConn EXCEPT !.st = "new_cmd", !.own = w, !.ev = "read", !.prot = conf.bind,
                 !.rsize = c.rsize, !.sb = c.sb]

(* Mutant: the suffix buffers are forgotten.                               *)
conn_release_itemsOnly(c) ==
  [c EXCEPT !.item = FALSE, !.ileft = 0, !.suf = 0,
            !.refs = @ - c.ileft - (IF c.item THEN 1 ELSE 0)]

conn_release_items(c) ==
  [c EXCEPT !.item = FALSE, !.ileft = 0, !.suf = 0,
            !.refs = @ - c.ileft - (IF c.item THEN 1 ELSE 0), !.sufs = @ - c.suf]

conn_cleanup(c) == [conn_release_items(c) EXCEPT !.wfree = FALSE]

(* Between requests a large read buffer is given back.                     *)
conn_shrink(c) == IF c.rsize > HighWat /\ Len(c.rbuf) < RSize
                  THEN [c EXCEPT !.rsize = RSize] ELSE c

TakeItem(c) == [c EXCEPT !.item = TRUE, !.refs = @ + 1]
DropItem(c) == [c EXCEPT !.item = FALSE, !.refs = @ - 1]

Answer(c, n) == [x \in 1 .. n |-> [i |-> c.i, last |-> x = n]]

(* Mutant: noreply is only cleared by the next command that may set it.    *)
out_stringSticky(c) ==
  IF c.noreply THEN [c EXCEPT !.st = "new_cmd"]
  ELSE [c EXCEPT !.out = Answer(c, 1), !.st = "write", !.go = "new_cmd"]

out_string(c) ==
  IF c.noreply THEN [c EXCEPT !.noreply = FALSE, !.st = "new_cmd"]
  ELSE [c EXCEPT !.out = Answer(c, 1), !.st = "write", !.go = "new_cmd"]

write_bin_error(c, swallow) ==
  [c EXCEPT !.out = Answer(c, 1), !.st = "mwrite",
            !.sb = IF swallow > 0 THEN swallow ELSE @,
            !.go = IF swallow > 0 THEN "swallow" ELSE "new_cmd"]

write_bin_response(c) ==
  IF ~c.noreply \/ Cmd(c).op = "get"
  THEN [c EXCEPT !.out = Answer(c, 1), !.st = "mwrite", !.go = "new_cmd"]
  ELSE [c EXCEPT !.st = "new_cmd"]

out_of_memory(c) == IF c.prot = "binary" THEN write_bin_error(c, 0) ELSE out_string(c)

write_and_free(c) ==
  [c EXCEPT !.wfree = TRUE, !.out = Answer(c, 1), !.st = "write", !.go = "new_cmd"]

set_noreply_maybe(c) == [c EXCEPT !.noreply = Cmd(c).quiet]

(* What an allocation may do to its caller.                                *)
OrFail(ok, failed) == IF conf.oom THEN ok \cup failed ELSE ok

(***************************************************************************)
(* ASCII handlers.                                                         *)
(***************************************************************************)

(* get, gets: so many hits.  When memory runs out the items found so far   *)
(* stay in ilist; without a suffix buffer, or with a key that is too long, *)
(* they are removed at once, the suffix buffers are not.                   *)
process_get_command(c) ==
  LET cas == Cmd(c).op = "gets"
      S(n) == IF cas THEN n ELSE 0
      kept(h) == [c EXCEPT !.refs = @ + h, !.ileft = h, !.sufs = @ + S(h),
                           !.suf = IF cas THEN h ELSE @]
      dropped(h) == [c EXCEPT !.sufs = @ + S(h)]
  IN  OrFail({[kept(h) EXCEPT !.out = Answer(c, h + 1), !.st = "mwrite"] : h \in 0 .. 2},
             {out_of_memory(kept(h)) : h \in 0 .. 1}
               \cup (IF cas THEN {out_of_memory(dropped(h)) : h \in 0 .. 1} ELSE {}))
      \cup (IF conf.badkey THEN {out_string(dropped(h)) : h \in 0 .. 1} ELSE {})

(* set, add, replace, append, prepend, cas.                                *)
process_update_command(c) ==
  LET d == set_noreply_maybe(c)
      q == Cmd(c)
      stored == [TakeItem(d) EXCEPT !.rl = q.n, !.st = "nread"]
      refused == [out_string(d) EXCEPT !.go = "swallow", !.sb = q.n]
  IN  IF q.big THEN {refused} ELSE OrFail({stored}, {refused})

(* Commands that answer with one line and hold no reference afterwards.    *)
process_touch_command(c) == {out_string(set_noreply_maybe(c))}
process_arithmetic_command(c) == {out_string(set_noreply_maybe(c))}
process_delete_command(c) == {out_string(set_noreply_maybe(c))}
process_verbosity_command(c) == {out_string(set_noreply_maybe(c))}
process_slabs_automove_command(c) == {out_string(set_noreply_maybe(c))}
process_stats_detail(c) == {out_string(c), write_and_free(c)}

process_stat(c) == OrFail({write_and_free(c), out_string(c)}, {out_of_memory(c)})
                     \cup process_stats_detail(c)

process_flush_all_command(c) == {out_string(set_noreply_maybe(c))}

(* reassign, automove; crawl, tocrawl, sleep, enable and disable.          *)
process_slabs_command(c) == {out_string(c)} \cup process_slabs_automove_command(c)
process_lru_crawler_command(c) == {out_string(c)}

process_command(c) ==
  LET op == Cmd(c).op
  IN  CASE op \in {"get", "gets"} -> process_get_command(c)
        [] op = "set"     -> process_update_command(c)
        [] op = "incr"    -> process_arithmetic_command(c)
        [] op = "delete"  -> process_delete_command(c)
        [] op = "touch"   -> process_touch_command(c)
        [] op = "stats"   -> process_stat(c)
        [] op = "verbosity" -> process_verbosity_command(c)
        [] op = "slabs"   -> process_slabs_command(c)
        [] op = "lru_crawler" -> process_lru_crawler_command(c)
        [] op = "flush_all" -> process_flush_all_command(c)
        [] op = "quit"    -> {[c EXCEPT !.st = "closing"]}
        [] OTHER          -> {out_string(c)}

complete_nread_ascii(c) == {DropItem(out_string(c))}

(***************************************************************************)
(* Binary handlers.                                                        *)
(***************************************************************************)

(* The key and extras come next, into the read buffer, which may have to   *)
(* grow.                                                                   *)
bin_read_key(c, sub) ==
  OrFail({[c EXCEPT !.sub = sub, !.rl = Cmd(c).key, !.st = "nread",
                    !.rsize = IF @ < 2 + Cmd(c).key THEN 2 * @ ELSE @]},
         {[c EXCEPT !.sub = sub, !.rl = Cmd(c).key, !.st = "closing"]})

handle_binary_protocol_error(c) == {[write_bin_error(c, 0) EXCEPT !.go = "closing"]}

authenticated(c) == Cmd(c).op \in {"sasl", "mechs", "version"} \/ c.auth

(* Mutant: only the header is looked at, the body of a command that is     *)
(* not known stays in the stream.                                          *)
dispatch_unknownNoBody(c) == {write_bin_error(c, 0)}
dispatch_unknown(c) == {write_bin_error(c, Cmd(c).key + Cmd(c).n)}

(* The list of mechanisms also ends an authentication (init_sasl_conn).    *)
bin_list_sasl_mechs(c) ==
  LET d == [c EXCEPT !.auth = FALSE]
  IN  IF conf.sasl THEN {write_bin_response(d), write_bin_error(d, 0)}
                   ELSE {write_bin_error(c, 0)}

(* The Q form of a command is the command with noreply.                    *)
NoteQuiet(c) == [c EXCEPT !.noreply = Cmd(c).quiet]

dispatch_bin_command(c0) ==
  LET op == Cmd(c0).op
      c == NoteQuiet(c0)
      bye == [write_bin_response(c) EXCEPT !.go = "closing"]
  IN  IF conf.sasl /\ ~authenticated(c0)
      THEN {[write_bin_error(c0, 0) EXCEPT !.go = "closing"]}
      ELSE CASE op \in {"version", "noop"} -> {write_bin_response(c)}
             [] op = "flush_all" -> bin_read_key(c, "flush")
             [] op \in {"set", "append"} -> bin_read_key(c, "set_header")
             [] op \in {"get", "touch"} -> bin_read_key(c, "get_key")
             [] op = "delete" -> bin_read_key(c, "del")
             [] op = "incr" -> bin_read_key(c, "incr")
             [] op = "stats" -> bin_read_key(c, "stat")
             [] op = "sasl" -> bin_read_key(c, "sasl")
             [] op = "mechs" -> bin_list_sasl_mechs(c)
             [] op = "quit" -> {IF c.noreply THEN [bye EXCEPT !.st = "closing"] ELSE bye}
             [] op = "malformed" -> handle_binary_protocol_error(c)
             [] OTHER -> dispatch_unknown(c)

(* An item for the value, or an error; the value that follows is swallowed *)
(* (sbytes is set by write_bin_error only).                                *)
ValueItem(c) ==
  LET q == Cmd(c)
      stored == [TakeItem(c) EXCEPT !.rl = q.n, !.sub = "set_value", !.st = "nread"]
  IN  IF q.big THEN {[write_bin_error(c, q.n) EXCEPT !.go = "swallow"]}
      ELSE OrFail({stored}, {[out_of_memory(c) EXCEPT !.go = "swallow"]})

process_bin_update(c) == ValueItem(c)
process_bin_append_prepend(c) == ValueItem(c)

complete_update_bin(c) == {DropItem(write_bin_response(c)), DropItem(write_bin_error(c, 0))}

(* A hit keeps its reference in c->item until the answer is sent.          *)
process_bin_get_or_touch(c) ==
  {[TakeItem(c) EXCEPT !.out = Answer(c, 1), !.st = "mwrite", !.go = "new_cmd"],
   IF c.noreply THEN [c EXCEPT !.st = "new_cmd"] ELSE write_bin_error(c, 0)}

process_bin_delete(c) == {write_bin_response(c), write_bin_error(c, 0)}
complete_incr_bin(c) == OrFail({write_bin_response(c), write_bin_error(c, 0)}, {out_of_memory(c)})
process_bin_flush(c) == {write_bin_response(c), write_bin_error(c, 0)}
process_bin_stat(c) == OrFail({write_and_free(c), write_bin_error(c, 0)}, {out_of_memory(c)})

process_bin_sasl_auth(c) ==
  LET q == Cmd(c)
      refused == write_bin_error(c, q.n)
  IN  IF ~conf.sasl THEN {refused}
      ELSE OrFail({[TakeItem(c) EXCEPT !.rl = q.n, !.sub = "sasl_data", !.st = "nread"]},
                  {[refused EXCEPT !.go = "swallow"]})

(* The item stays in c->item: it was never linked, item_unlink does        *)
(* nothing to it, and it goes when the answer has been sent.               *)
process_bin_complete_sasl_auth(c) ==
  {[write_bin_response(c) EXCEPT !.auth = TRUE], write_bin_error([c EXCEPT !.auth = FALSE], 0),
   [c EXCEPT !.auth = FALSE, !.out = Answer(c, 1), !.st = "mwrite", !.go = "new_cmd"]}

complete_nread_binary(c) ==
  CASE c.sub = "set_header" -> IF Cmd(c).op = "append" THEN process_bin_append_prepend(c)
                                                       ELSE process_bin_update(c)
    [] c.sub = "set_value" -> complete_update_bin(c)
    [] c.sub = "get_key"   -> process_bin_get_or_touch(c)
    [] c.sub = "stat"      -> process_bin_stat(c)
    [] c.sub = "del"       -> process_bin_delete(c)
    [] c.sub = "incr"      -> complete_incr_bin(c)
    [] c.sub = "flush"     -> process_bin_flush(c)
    [] c.sub = "sasl"      -> process_bin_sasl_auth(c)
    [] c.sub = "sasl_data" -> process_bin_complete_sasl_auth(c)

complete_nread(c) == IF c.prot = "ascii" THEN complete_nread_ascii(c)
                                         ELSE complete_nread_binary(c)

(***************************************************************************)
(* drive_machine, one action for each of its states.  A worker drives one  *)
(* connection at a time, until it has to wait for the socket.              *)
(***************************************************************************)

Driving(w) == {f \in Fds : conn[f].run /\ conn[f].own = w}

Become(f, c) == conn' = [conn EXCEPT ![f] = c]
Stop(c) == [c EXCEPT !.run = FALSE]
Still == UNCHANGED <<conf, wk, lis>>

(* event_handler: the event the connection waits for has come.             *)
Ready(f) ==
  /\ conn[f].st # "closed"
  /\ \/ conn[f].ev = "read" /\ (sock[f].net # <<>> \/ sock[f].eof)
     \/ conn[f].ev = "write" /\ (sock[f].wr \/ sock[f].eof)

event_handler(f) ==
  LET c == conn[f]
  IN  /\ ~c.run /\ Driving(c.own) = {} /\ wk[c.own].fin = "no"
      /\ Ready(f)
      /\ Become(f, [c EXCEPT !.run = TRUE, !.nreqs = ReqsPerEvent])
      /\ UNCHANGED sock /\ Still

reset_cmd_handler(c) ==
  LET d == conn_shrink(IF c.item THEN DropItem(c) ELSE c)
  IN  [d EXCEPT !.sub = "none", !.st = IF d.rbuf # <<>> THEN "parse_cmd" ELSE "waiting"]

(* Mutant: the connection yields and waits for more to arrive.             *)
NewCmdYield(f) ==
  LET c == conn[f]
  IN  /\ c.run /\ c.st = "new_cmd"
      /\ IF c.nreqs > 0
         THEN Become(f, reset_cmd_handler([c EXCEPT !.nreqs = @ - 1]))
         ELSE Become(f, Stop(c))
      /\ UNCHANGED sock /\ Still

(* After so many requests other connections have their turn: with data     *)
(* left in the buffer, ask to be called as soon as the socket can write.   *)
NewCmd(f) ==
  LET c == conn[f]
  IN  /\ c.run /\ c.st = "new_cmd"
      /\ IF c.nreqs > 0
         THEN Become(f, reset_cmd_handler([c EXCEPT !.nreqs = @ - 1]))
         ELSE Become(f, Stop([c EXCEPT !.ev = IF c.rbuf # <<>> THEN "write" ELSE @]))
      /\ UNCHANGED sock /\ Still

Waiting(f) ==
  /\ conn[f].run /\ conn[f].st = "waiting"
  /\ Become(f, Stop([conn[f] EXCEPT !.ev = "read", !.st = "read"]))
  /\ UNCHANGED sock /\ Still

(* Read all there is, the buffer doubled at most four times.  An end of    *)
(* stream is only seen at once when the last read filled the buffer.       *)
try_read_network(f) ==
  LET c == conn[f]
      s == sock[f]
      have == Len(c.rbuf)
      k == IF Len(s.net) < 16 * c.rsize - have THEN Len(s.net) ELSE 16 * c.rsize - have
      grown == {a \in {1, 2, 4, 8} : c.rsize * a > have + k}
      a == IF grown = {} THEN 16 ELSE CHOOSE x \in grown : \A y \in grown : x <= y
      end == s.eof /\ k = Len(s.net)
             /\ (k = 0 \/ \E x \in {1, 2, 4, 8} : c.rsize * x = have + k)
      d == [c EXCEPT !.rbuf = @ \o SubSeq(s.net, 1, k), !.rsize = @ * a]
  IN  /\ c.run /\ c.st = "read"
      /\ sock' = [sock EXCEPT ![f].net = SubSeq(@, k + 1, Len(@))]
      /\ \/ Become(f, [d EXCEPT !.st = IF end THEN "closing" ELSE IF k = 0 THEN "waiting"
                                        ELSE "parse_cmd"])
         \/ /\ conf.oom /\ a > 1
            /\ Become(f, [out_of_memory([c EXCEPT !.rbuf = <<>>, !.i = 0]) EXCEPT !.go = "closing"])
      /\ Still

(* try_read_command: a whole line or a whole header, or wait for more.     *)
(* Anything else than the start of a command is garbage to the parser.     *)
try_read_command(f) ==
  LET c == conn[f]
      u == Head(c.rbuf)
      prot == IF c.prot = "negotiating" THEN conf.prot ELSE c.prot
      d == [c EXCEPT !.prot = prot, !.i = u.i, !.rbuf = SubSeq(@, 3, Len(@)), !.out = <<>>]
      lost == [c EXCEPT !.prot = prot, !.i = 0, !.rbuf = Tail(@), !.out = <<>>]
  IN  /\ c.run /\ c.st = "parse_cmd"
      /\ IF u.p # "h"
         THEN Become(f, IF prot = "ascii" THEN out_string(lost)
                                          ELSE [lost EXCEPT !.st = "closing"])
         ELSE IF Len(c.rbuf) = 1 THEN Become(f, [c EXCEPT !.prot = prot, !.st = "waiting"])
         ELSE \E e \in (IF prot = "ascii" THEN process_command(d)
                                          ELSE dispatch_bin_command(d)) : Become(f, e)
      /\ UNCHANGED sock /\ Still

(* Read from the socket until count reaches zero; nothing there: wait, or  *)
(* close at the end of the stream.                                         *)
ReadMore(f, c, count) ==
  LET s == sock[f]
      k == IF Len(s.net) < count THEN Len(s.net) ELSE count
  IN  /\ sock' = [sock EXCEPT ![f].net = SubSeq(@, k + 1, Len(@))]
      /\ Become(f, IF k > 0 THEN (IF c.st = "swallow" THEN [c EXCEPT !.sb = @ - k]
                                                     ELSE [c EXCEPT !.rl = @ - k])
                   ELSE IF s.eof THEN [c EXCEPT !.st = "closing"]
                   ELSE Stop([c EXCEPT !.ev = "read"]))

FromBuffer(c, count) ==
  LET k == IF Len(c.rbuf) < count THEN Len(c.rbuf) ELSE count
  IN  [c |-> [c EXCEPT !.rbuf = SubSeq(@, k + 1, Len(@))], k |-> k]

Nread(f) ==
  LET c == conn[f]
      x == FromBuffer(c, c.rl)
      d == [x.c EXCEPT !.rl = @ - x.k]
  IN  /\ c.run /\ c.st = "nread" /\ Still
      /\ \/ c.rl = 0 /\ (\E e \in complete_nread(c) : Become(f, e)) /\ UNCHANGED sock
         \/ c.rl > 0 /\ d.rl = 0 /\ Become(f, d) /\ UNCHANGED sock
         \/ d.rl > 0 /\ ReadMore(f, d, d.rl)

Swallow(f) ==
  LET c == conn[f]
      x == FromBuffer(c, c.sb)
  IN  /\ c.run /\ c.st = "swallow" /\ Still
      /\ \/ c.sb = 0 /\ Become(f, [c EXCEPT !.st = "new_cmd"]) /\ UNCHANGED sock
         \/ c.sb > 0 /\ x.k > 0 /\ Become(f, [x.c EXCEPT !.sb = @ - x.k]) /\ UNCHANGED sock
         \/ c.sb > 0 /\ x.k = 0 /\ ReadMore(f, c, c.sb)

(* All of the answer is out: give back what it was made of.                *)
Transmitted(c) ==
  IF c.st = "mwrite"
  THEN [conn_release_items(c) EXCEPT !.st = IF c.prot = "binary" THEN c.go ELSE "new_cmd"]
  ELSE [c EXCEPT !.wfree = FALSE, !.st = c.go]

(* conn_write, conn_mwrite and transmit: the socket takes some of it, is   *)
(* full, or is gone.  Without memory for the list the connection closes.   *)
transmit(f) ==
  LET c == conn[f]
      u == Head(c.out)
  IN  /\ c.run /\ c.st \in {"write", "mwrite"} /\ Still
      /\ \/ c.out = <<>> /\ Become(f, Transmitted(c)) /\ UNCHANGED sock
         \/ /\ c.out # <<>> /\ ~sock[f].wr /\ ~sock[f].eof
            /\ Become(f, Stop([c EXCEPT !.ev = "write"])) /\ UNCHANGED sock
         \/ /\ c.out # <<>> /\ sock[f].eof
            /\ Become(f, [c EXCEPT !.st = "closing"]) /\ UNCHANGED sock
         \/ /\ c.out # <<>> /\ sock[f].wr
            /\ Become(f, [c EXCEPT !.out = Tail(@),
                                   !.log = IF u.last THEN Append(@, u.i) ELSE @])
            /\ \E b \in {TRUE, ~conf.slow} : sock' = [sock EXCEPT ![f].wr = b]
         \/ /\ conf.oom /\ c.st = "write" /\ c.out # <<>>
            /\ Become(f, [c EXCEPT !.st = "closing"]) /\ UNCHANGED sock

(* Mutant: the descriptor is closed while the connection is still open.    *)
conn_closeEarly(f) ==
  LET c == conn[f]
  IN  /\ c.run /\ c.st = "closing" /\ wk[c.own].fin = "no"
      /\ Become(f, Stop(c))
      /\ sock' = [sock EXCEPT ![f].open = FALSE, ![f].net = <<>>, ![f].todo = <<>>]
      /\ wk' = [wk EXCEPT ![c.own].fin = "allow"]
      /\ UNCHANGED <<conf, lis>>

(* conn_close: with the descriptor closed the number can be used again at  *)
(* once, before the listener is told and the connection uncounted.         *)
conn_close(f) ==
  LET c == conn[f]
  IN  /\ c.run /\ c.st = "closing" /\ wk[c.own].fin = "no"
      /\ Become(f, Stop([conn_cleanup(c) EXCEPT !.st = "closed", !.ev = "none"]))
      /\ sock' = [sock EXCEPT ![f].open = FALSE, ![f].net = <<>>, ![f].todo = <<>>]
      /\ wk' = [wk EXCEPT ![c.own].fin = "allow"]
      /\ UNCHANGED <<conf, lis>>

CloseAllow(w) ==
  /\ wk[w].fin = "allow" /\ lis' = [lis EXCEPT !.allow = TRUE]
  /\ wk' = [wk EXCEPT ![w].fin = "count"] /\ UNCHANGED <<conf, conn, sock>>

CloseCount(w) ==
  /\ wk[w].fin = "count" /\ lis' = [lis EXCEPT !.curr = @ - 1]
  /\ wk' = [wk EXCEPT ![w].fin = "no"] /\ UNCHANGED <<conf, conn, sock>>

(***************************************************************************)
(* The listener: accept, dispatch_conn_new, and the way back when the      *)
(* process is out of descriptors.                                          *)
(***************************************************************************)

cq_push(w, f) == wk' = [wk EXCEPT ![w].cq = Append(@, f), ![w].pipe = @ + 1]

(* Accepted: queued for the next worker, or turned away because of         *)
(* maxconns_fast (the count lags behind the queues), or without memory.    *)
dispatch_conn_new(f) ==
  LET w == (lis.last + 1) % NWorkers
  IN  /\ sock' = [sock EXCEPT ![f] = [open |-> TRUE, todo |-> Stream, net |-> <<>>,
                                      eof |-> FALSE, wr |-> TRUE]]
      /\ cq_push(w, f)
      /\ lis' = [lis EXCEPT !.last = w, !.left = @ - 1]

Accept ==
  /\ lis.pc = "listen" /\ lis.on /\ lis.left > 0
  /\ \/ /\ conf.fast /\ lis.curr >= conf.maxconns - 1 /\ \E f \in Fds : ~sock[f].open
        /\ lis' = [lis EXCEPT !.left = @ - 1] /\ UNCHANGED <<sock, wk>>
     \/ /\ ~(conf.fast /\ lis.curr >= conf.maxconns - 1)
        /\ \E f \in Fds : /\ ~sock[f].open /\ \A g \in Fds : g < f => sock[g].open
                          /\ dispatch_conn_new(f)
     \/ /\ conf.oom /\ lis' = [lis EXCEPT !.left = @ - 1] /\ UNCHANGED <<sock, wk>>
     \/ /\ \A f \in Fds : sock[f].open
        /\ lis' = [lis EXCEPT !.pc = "emfile"] /\ UNCHANGED <<sock, wk>>
  /\ UNCHANGED <<conf, conn>>

(* accept_new_conns(false), under conn_lock.                               *)
do_accept_new_conns ==
  /\ lis.pc = "emfile"
  /\ lis' = [lis EXCEPT !.pc = "listen", !.on = FALSE, !.allow = FALSE, !.timer = TRUE]
  /\ UNCHANGED <<conf, conn, sock, wk>>

(* Every 10 ms: listen again once a connection has been closed.            *)
maxconns_handler ==
  /\ lis.timer /\ lis.allow
  /\ lis' = [lis EXCEPT !.timer = FALSE, !.on = TRUE]
  /\ UNCHANGED <<conf, conn, sock, wk>>

(* A byte on the notify pipe: take a connection from the queue.            *)
thread_libevent_process(w) ==
  LET f == Head(wk[w].cq)
  IN  /\ wk[w].pipe > 0 /\ Driving(w) = {} /\ wk[w].fin = "no"
      /\ wk' = [wk EXCEPT ![w].pipe = @ - 1, ![w].cq = Tail(@)]
      /\ \/ /\ Become(f, conn_new(conn[f], w)) /\ UNCHANGED sock
            /\ lis' = [lis EXCEPT !.curr = @ + 1]
         \/ /\ conf.oom /\ UNCHANGED <<conn, lis>>
            /\ sock' = [sock EXCEPT ![f].open = FALSE, ![f].net = <<>>, ![f].todo = <<>>]
      /\ UNCHANGED conf

(***************************************************************************)
(* Clients: they send when they like, read what has come, may hang up.     *)
(***************************************************************************)

ClientSend(f) ==
  /\ sock[f].todo # <<>> /\ ~sock[f].eof
  /\ sock' = [sock EXCEPT ![f].net = Append(@, Head(sock[f].todo)), ![f].todo = Tail(@)]
  /\ UNCHANGED conn /\ Still

ClientRecv(f) ==
  /\ sock[f].open /\ ~sock[f].wr
  /\ sock' = [sock EXCEPT ![f].wr = TRUE]
  /\ UNCHANGED conn /\ Still

ClientClose(f) ==
  /\ conf.cut /\ sock[f].open /\ ~sock[f].eof
  /\ sock' = [sock EXCEPT ![f].eof = TRUE, ![f].todo = <<>>]
  /\ UNCHANGED conn /\ Still

(***************************************************************************)
(* The specification.                                                      *)
(***************************************************************************)

Init ==
  /\ conf \in Scenarios
  /\ conn = [f \in Fds |-> NoConn]
  /\ sock = [f \in Fds |-> [open |-> FALSE, todo |-> <<>>, net |-> <<>>, eof |-> FALSE,
                            wr |-> TRUE]]
  /\ wk = [w \in Worker |-> [cq |-> <<>>, pipe |-> 0, fin |-> "no"]]
  /\ lis = [on |-> TRUE, allow |-> TRUE, timer |-> FALSE, pc |-> "listen", last |-> NWorkers - 1,
            curr |-> 0, left |-> conf.clients]

DriveMachine(f) ==
  \/ NewCmd(f) \/ Waiting(f) \/ try_read_network(f) \/ try_read_command(f)
  \/ Nread(f) \/ Swallow(f) \/ transmit(f) \/ conn_close(f)

Server ==
  \/ \E f \in Fds : event_handler(f) \/ DriveMachine(f)
  \/ \E w \in Worker : thread_libevent_process(w) \/ CloseAllow(w) \/ CloseCount(w)
  \/ Accept \/ do_accept_new_conns \/ maxconns_handler

Client == \E f \in Fds : ClientSend(f) \/ ClientRecv(f)

HangUp == \E f \in Fds : ClientClose(f)

Next == Server \/ Client \/ HangUp

(* Somebody other than a client about to hang up has something to do.      *)
CanStep ==
  \/ \E f \in Fds : \/ conn[f].run \/ Ready(f)
                    \/ sock[f].todo # <<>> /\ ~sock[f].eof
                    \/ sock[f].open /\ ~sock[f].wr
  \/ \E w \in Worker : wk[w].fin # "no" \/ wk[w].pipe > 0
  \/ lis.pc = "emfile"
  \/ lis.on /\ lis.left > 0
  \/ lis.timer /\ lis.allow

(* The server runs, clients send what they have to send and read what they *)
(* are sent (weak fairness of Server \/ Client, written out); no behaviour *)
(* of theirs is infinite, so it does not matter who is first.              *)
Fairness == []<>(~CanStep) \/ []<><<Server \/ Client>>_vars

Spec == Init /\ [][Next]_vars /\ Fairness

(***************************************************************************)
(* Properties.                                                             *)
(***************************************************************************)

(* What is still to come from the client, in order.                        *)
Ahead(f) == conn[f].rbuf \o sock[f].net \o sock[f].todo

(* Units of the command in progress that are still to come.                *)
Rest(f) == Cardinality({x \in DOMAIN Ahead(f) : Ahead(f)[x].i = conn[f].i})

(* The parser and the client agree where commands begin: between commands  *)
(* the stream is at the start of one, and what is to be read into an item  *)
(* or to be swallowed is what is left of the command in progress (nread,   *)
(* swallow, write_and_go, rlbytes and sbytes over all handlers).           *)
StreamInSync ==
  \A f \in Fds :
    LET c == conn[f]
        next == IF c.st \in {"write", "mwrite"} THEN c.go ELSE c.st
    IN  /\ next \in {"new_cmd", "waiting", "read", "parse_cmd"} /\ Ahead(f) # <<>> =>
             Head(Ahead(f)).p = "h" \/ sock[f].eof
        /\ next = "swallow" /\ ~sock[f].eof => Rest(f) = c.sb
        /\ next = "nread" /\ ~sock[f].eof =>
             Rest(f) = c.rl + (IF c.sub \in {"none", "set_value", "sasl_data"} THEN 0 ELSE Cmd(c).n)

(* Every command that wants an answer gets exactly one, in the order the   *)
(* commands were sent, a quiet one at most one; an error about no command  *)
(* is the last thing a client hears (out_string, noreply, write_and_go,    *)
(* write_bin_response, transmit and the pipelining of try_read_command).   *)
AnswersInOrder ==
  \A f \in Fds :
    LET c == conn[f]
        between == c.st \in {"new_cmd", "waiting", "read", "parse_cmd"}
    IN  /\ \A x, y \in DOMAIN c.log : x < y => c.log[x] < c.log[y] \/ c.log[y] = 0
        /\ c.st \notin {"closing", "closed"} =>
             \A j \in 1 .. (IF between THEN c.i ELSE c.i - 1) :
               conf.script[j].quiet \/ \E x \in DOMAIN c.log : c.log[x] = j

(* Every item reference and suffix buffer a connection has taken can be    *)
(* reached from it, and is given back before it waits for the next command *)
(* and when it closes (c->item, ilist and suffixlist).                     *)
RefsReleased ==
  \A f \in Fds :
    LET c == conn[f]
    IN  /\ c.refs = c.ileft + (IF c.item THEN 1 ELSE 0) /\ c.sufs = c.suf
        /\ c.st \in {"waiting", "read", "parse_cmd", "closed"} => c.refs = 0 /\ c.sufs = 0

(* A descriptor is in one place: free, in one worker's queue with its      *)
(* structure closed, or open under one worker; the count of connections is *)
(* the number open plus those being closed (dispatch_conn_new, conn_new,   *)
(* conn_close and the immediate reuse of descriptors).                     *)
FdOwned ==
  /\ \A f \in Fds :
       LET queued == {w \in Worker : \E x \in DOMAIN wk[w].cq : wk[w].cq[x] = f}
       IN  /\ Cardinality(queued) <= 1
           /\ sock[f].open <=> (queued # {} \/ conn[f].st # "closed")
           /\ queued = {} \/ conn[f].st = "closed"
  /\ \A w \in Worker : Cardinality(Driving(w)) <= 1 /\ wk[w].pipe = Len(wk[w].cq)
  /\ lis.curr = Cardinality({f \in Fds : conn[f].st # "closed"})
                 + Cardinality({w \in Worker : wk[w].fin # "no"})

(* A client that stays gets everything it sent processed, and one that     *)
(* hangs up is let go: no connection is left with data in its buffer and   *)
(* no event to come (update_event, conn_yields and the wake-ups).          *)
EveryCommandServed ==
  \A f \in Fds :
    sock[f].open ~> \/ ~sock[f].open
                    \/ Ahead(f) = <<>> /\ conn[f].out = <<>> /\ ~conn[f].run /\ ~sock[f].eof
=============================================================================
