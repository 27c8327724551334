---------------------------- MODULE McConnProofs ----------------------------
(***************************************************************************)
(* Proofs about the connections of memcached (McConn), for every number of *)
(* workers, every finite set of descriptors and all scenarios: the         *)
(* ownership of descriptors, the accounting of references and suffix       *)
(* buffers by the handlers, the place of the parser in the stream, and the *)
(* answers to the commands.                                                *)
(***************************************************************************)
EXTENDS McConn, SequenceTheorems, FiniteSetTheorems, WellFoundedInduction, TLAPS

(***************************************************************************)
(* What a handler may do to the record it is given.                        *)
(***************************************************************************)

ConnFields == {"st", "run", "own", "ev", "prot", "nreqs", "rbuf", "rsize", "i", "item", "rl",
               "sb", "go", "noreply", "sub", "ileft", "suf", "wfree", "out", "auth", "refs",
               "sufs", "log"}

Subs == {"set_header", "set_value", "get_key", "stat", "del", "incr", "flush", "sasl",
         "sasl_data"}

(* The record of a connection that is not closed, as drive_machine leaves  *)
(* it: complete_nread_binary knows what to do, and write_and_go is one of  *)
(* three states.                                                           *)
Driven(c) ==
  /\ DOMAIN c = ConnFields
  /\ c.st # "closed"
  /\ c.go \in {"new_cmd", "swallow", "closing"}
  /\ c.st = "nread" /\ c.prot # "ascii" => c.sub \in Subs

SameOwner(c, e) == e.run = c.run /\ e.own = c.own /\ e.prot = c.prot

SameRefs(c, e) ==
  /\ e.item = c.item /\ e.ileft = c.ileft /\ e.suf = c.suf
  /\ e.refs = c.refs /\ e.sufs = c.sufs

(* One line of answer and nothing taken or given back.                     *)
Replies(c, e) ==
  /\ Driven(e) /\ SameOwner(c, e) /\ SameRefs(c, e)
  /\ e.st \in {"new_cmd", "write", "mwrite"}

(* out_string answers, or is silent, and touches nothing else.             *)
LEMMA OutString ==
  ASSUME NEW c, Driven(c)
  PROVE  Replies(c, out_string(c)) /\ out_string(c).st # "mwrite"
BY DEF Driven, ConnFields, Replies, SameOwner, SameRefs, out_string

(* So do the errors of the binary protocol.                                *)
LEMMA BinError ==
  ASSUME NEW c, Driven(c), NEW n
  PROVE  Replies(c, write_bin_error(c, n)) /\ write_bin_error(c, n).st = "mwrite"
BY DEF Driven, ConnFields, Replies, SameOwner, SameRefs, write_bin_error

\* A binary answer is a reply.
LEMMA BinResponse ==
  ASSUME NEW c, Driven(c)
  PROVE  Replies(c, write_bin_response(c)) /\ write_bin_response(c).st # "write"
BY DEF Driven, ConnFields, Replies, SameOwner, SameRefs, write_bin_response

\* So is the answer to a failed allocation.
LEMMA OutOfMemory ==
  ASSUME NEW c, Driven(c)
  PROVE  Replies(c, out_of_memory(c))
BY OutString, BinError DEF out_of_memory
(***************************************************************************)
(* What a connection holds, between the turns of drive_machine.            *)
(***************************************************************************)

Empty(c) == c.item = FALSE /\ c.ileft = 0 /\ c.suf = 0 /\ c.refs = 0 /\ c.sufs = 0

(* References and suffix buffers are counted as they are reachable; those  *)
(* of a get are held while its answer is sent (or until the connection     *)
(* closes), c->item also while a value is read into it and until the next  *)
(* command is prepared.                                                    *)
Held(c) ==
  /\ c.ileft \in Int /\ c.suf \in Int /\ c.sufs = c.suf
  /\ c.ileft # 0 \/ c.suf # 0 => c.st \in {"mwrite", "closing"}
  /\ \/ /\ c.item = TRUE /\ c.refs = c.ileft + 1
        /\ c.st \in {"nread", "mwrite", "new_cmd", "closing"}
        /\ c.st = "nread" => c.prot = "ascii" \/ c.sub \in {"set_value", "sasl_data"}
     \/ /\ c.item = FALSE /\ c.refs = c.ileft
        /\ c.st = "nread" => c.prot # "ascii" /\ c.sub \notin {"set_value", "sasl_data"}

(* A handler leaves the connection with its worker and its protocol, not   *)
(* closed, and, under the condition P, holding what it can account for.    *)
Handled(c, e, P) == Driven(e) /\ SameOwner(c, e) /\ (P => Held(e))

(* The condition for the ASCII commands: none fails for want of memory and *)
(* no key is too long (see LeakFree).                                      *)
AsciiOk(c) == Empty(c) /\ c.prot = "ascii" /\ ~conf.oom /\ ~conf.badkey

\* A connection that replies and held nothing holds nothing it may not.
LEMMA RepliesHeld ==
  ASSUME NEW c, NEW e, Replies(c, e), Empty(c)
  PROVE  Held(e)
<1>1. e.item = FALSE /\ e.ileft = 0 /\ e.suf = 0 /\ e.refs = 0 /\ e.sufs = 0
  BY DEF Replies, SameRefs, Empty
<1>2. e.st \in {"new_cmd", "write", "mwrite"}
  BY DEF Replies
<1> QED
  BY <1>1, <1>2 DEF Held

\* noreply changes neither references nor ownership.
LEMMA SetNoreply ==
  ASSUME NEW c, Driven(c)
  PROVE  LET d == set_noreply_maybe(c)
         IN  Driven(d) /\ SameOwner(c, d) /\ SameRefs(c, d) /\ d.st = c.st
BY DEF Driven, ConnFields, SameOwner, SameRefs, set_noreply_maybe

(* The commands that answer with one line, with and without noreply.       *)
LEMMA OneLine ==
  ASSUME NEW c, Driven(c)
  PROVE  Replies(c, out_string(c)) /\ Replies(c, out_string(set_noreply_maybe(c)))
<1>1. Replies(c, out_string(c))
  BY OutString
<1>2. Replies(set_noreply_maybe(c), out_string(set_noreply_maybe(c)))
  BY SetNoreply, OutString
<1>3. SameOwner(c, set_noreply_maybe(c)) /\ SameRefs(c, set_noreply_maybe(c))
  BY SetNoreply
<1>4. Replies(c, out_string(set_noreply_maybe(c)))
  BY <1>2, <1>3 DEF Replies, SameOwner, SameRefs
<1> QED
  BY <1>1, <1>4

\* write_and_free replies.
LEMMA WriteAndFree ==
  ASSUME NEW c, Driven(c)
  PROVE  Replies(c, write_and_free(c))
BY DEF Driven, ConnFields, Replies, SameOwner, SameRefs, write_and_free

(* get and gets: the hits and their suffix buffers stay reachable, when    *)
(* nothing fails.                                                          *)
LEMMA GetHandled ==
  ASSUME NEW c, Driven(c), NEW e \in process_get_command(c)
  PROVE  Handled(c, e, AsciiOk(c))
<1> DEFINE cas == Cmd(c).op = "gets"
           S(n) == IF cas THEN n ELSE 0
           kept(h) == [c EXCEPT !.refs = @ + h, !.ileft = h, !.sufs = @ + S(h),
                                !.suf = IF cas THEN h ELSE @]
           dropped(h) == [c EXCEPT !.sufs = @ + S(h)]
           sent(h) == [kept(h) EXCEPT !.out = Answer(c, h + 1), !.st = "mwrite"]
<1>1. \/ \E h \in 0 .. 2 : e = sent(h)
      \/ conf.oom /\ \E h \in 0 .. 1 : e = out_of_memory(kept(h)) \/ e = out_of_memory(dropped(h))
      \/ conf.badkey /\ \E h \in 0 .. 1 : e = out_string(dropped(h))
  BY DEF process_get_command, OrFail
<1>2. ASSUME NEW h \in 0 .. 2
      PROVE  /\ Driven(kept(h)) /\ SameOwner(c, kept(h))
             /\ Driven(dropped(h)) /\ SameOwner(c, dropped(h))
  BY DEF Driven, ConnFields, SameOwner
<1>3. ASSUME NEW h \in 0 .. 2, e = sent(h)
      PROVE  Handled(c, e, AsciiOk(c))
  <2>1. Driven(e) /\ SameOwner(c, e)
    BY <1>3 DEF Driven, ConnFields, SameOwner
  <2>2. e.item = c.item /\ e.ileft = h /\ e.refs = c.refs + h /\ e.st = "mwrite"
    BY <1>3 DEF Driven, ConnFields
  <2>3. e.sufs = c.sufs + S(h) /\ e.suf = (IF cas THEN h ELSE c.suf)
    BY <1>3 DEF Driven, ConnFields
  <2>4. Empty(c) => e.sufs = e.suf /\ e.suf \in Int
    BY <2>3 DEF Empty
  <2>5. Empty(c) => Held(e)
    BY <2>2, <2>4 DEF Empty, Held
  <2> QED
    BY <2>1, <2>5 DEF Handled, AsciiOk
<1>4. ASSUME conf.oom \/ conf.badkey, NEW h \in 0 .. 1,
             \/ e = out_of_memory(kept(h))
             \/ e = out_of_memory(dropped(h))
             \/ e = out_string(dropped(h))
      PROVE  Handled(c, e, AsciiOk(c))
  <2>1. h \in 0 .. 2
    OBVIOUS
  <2>2. PICK d : Driven(d) /\ SameOwner(c, d) /\ (e = out_of_memory(d) \/ e = out_string(d))
    BY <1>2, <1>4, <2>1
  <2>3. Replies(d, e)
    BY <2>2, OutOfMemory, OutString
  <2> QED
    BY <1>4, <2>2, <2>3 DEF Handled, AsciiOk, Replies, SameOwner
<1> QED
  BY <1>1, <1>3, <1>4

(* set and its kin: an item is taken to read the value into, or the value  *)
(* is swallowed.                                                           *)
LEMMA UpdateHandled ==
  ASSUME NEW c, Driven(c), c.prot = "ascii", NEW e \in process_update_command(c)
  PROVE  Handled(c, e, AsciiOk(c))
<1> DEFINE d == set_noreply_maybe(c)
           q == Cmd(c)
           stored == [TakeItem(d) EXCEPT !.rl = q.n, !.st = "nread"]
           refused == [out_string(d) EXCEPT !.go = "swallow", !.sb = q.n]
<1>1. Driven(d) /\ SameOwner(c, d) /\ SameRefs(c, d)
  BY SetNoreply
<1>2. e = refused \/ (e = stored)
  BY DEF process_update_command, OrFail
<1> HIDE DEF d
<1>3. CASE e = refused
  <2>1. Replies(d, out_string(d))
    BY <1>1, OutString
  <2>2. Replies(d, e)
    BY <1>3, <2>1 DEF Replies, Driven, ConnFields, SameOwner, SameRefs
  <2>3. Replies(c, e)
    BY <1>1, <2>2 DEF Replies, SameOwner, SameRefs
  <2> QED
    BY <2>3, RepliesHeld DEF Handled, Replies, AsciiOk
<1>4. CASE e = stored
  <2>1. SameOwner(c, e) /\ DOMAIN e = ConnFields /\ e.st = "nread" /\ e.go = d.go /\ e.sub = d.sub
    BY <1>1, <1>4 DEF TakeItem, Driven, ConnFields, SameOwner
  <2>2. e.item = TRUE /\ e.refs = d.refs + 1 /\ e.ileft = d.ileft /\ e.suf = d.suf /\ e.sufs = d.sufs
    BY <1>1, <1>4 DEF TakeItem, Driven, ConnFields
  <2>3. AsciiOk(c) => Held(e)
    BY <1>1, <2>1, <2>2 DEF AsciiOk, Empty, Held, SameRefs, SameOwner
  <2>4. d.sub = c.sub
    BY DEF d, set_noreply_maybe, Driven, ConnFields
  <2> QED
    BY <1>1, <2>1, <2>3 DEF Handled, Driven, SameOwner
<1> QED
  BY <1>2, <1>3, <1>4

\* A handler that only replies is sound on any condition.
LEMMA RepliesHandled ==
  ASSUME NEW c, NEW e, Replies(c, e), NEW P, P => Empty(c)
  PROVE  Handled(c, e, P)
BY RepliesHeld DEF Handled, Replies

(* A whole command line.                                                   *)
LEMMA CommandHandled ==
  ASSUME NEW c, Driven(c), c.prot = "ascii", NEW e \in process_command(c)
  PROVE  Handled(c, e, AsciiOk(c))
<1> DEFINE quitted == [c EXCEPT !.st = "closing"]
<1>1. \/ e \in process_get_command(c)
      \/ e \in process_update_command(c)
      \/ e \in process_stat(c)
      \/ e = quitted
      \/ e = out_string(c) \/ e = out_string(set_noreply_maybe(c))
  BY DEF process_command, process_arithmetic_command, process_delete_command,
         process_touch_command, process_verbosity_command, process_slabs_command,
         process_slabs_automove_command, process_lru_crawler_command, process_flush_all_command
<1>2. CASE e \in process_stat(c)
  <2>1. e = write_and_free(c) \/ e = out_string(c) \/ e = out_of_memory(c)
    BY <1>2 DEF process_stat, process_stats_detail, OrFail
  <2>2. Replies(c, e)
    BY <2>1, WriteAndFree, OutString, OutOfMemory
  <2> QED
    BY <2>2, RepliesHandled DEF AsciiOk
<1>3. CASE e = quitted
  <2>1. Driven(e) /\ SameOwner(c, e) /\ SameRefs(c, e) /\ e.st = "closing"
    BY <1>3 DEF Driven, ConnFields, SameOwner, SameRefs
  <2> QED
    BY <2>1 DEF Handled, AsciiOk, Empty, Held, SameRefs
<1>4. CASE e = out_string(c) \/ e = out_string(set_noreply_maybe(c))
  BY <1>4, OneLine, RepliesHandled DEF AsciiOk
<1> QED
  BY <1>1, <1>2, <1>3, <1>4, GetHandled, UpdateHandled

(* The condition for the binary commands when they are dispatched: there   *)
(* is none on the scenario, every failed allocation is accounted for.      *)
BinOk(c) == Empty(c) /\ c.prot # "ascii"

\* bin_read_key waits for the key or closes, and takes nothing.
LEMMA BinReadKey ==
  ASSUME NEW c, Driven(c), NEW sub \in Subs \ {"set_value", "sasl_data"},
         NEW e \in bin_read_key(c, sub)
  PROVE  Handled(c, e, BinOk(c))
<1> DEFINE key == [c EXCEPT !.sub = sub, !.rl = Cmd(c).key, !.st = "nread",
                            !.rsize = IF @ < 2 + Cmd(c).key THEN 2 * @ ELSE @]
           none == [c EXCEPT !.sub = sub, !.rl = Cmd(c).key, !.st = "closing"]
<1>1. e = key \/ e = none
  BY DEF bin_read_key, OrFail
<1>2. /\ DOMAIN e = ConnFields /\ e.st \in {"nread", "closing"}
      /\ e.sub = sub /\ e.go = c.go
      /\ SameOwner(c, e) /\ SameRefs(c, e)
  BY <1>1 DEF Driven, ConnFields, SameOwner, SameRefs
<1>3. Driven(e)
  BY <1>2 DEF Driven
<1>4. BinOk(c) => Held(e)
  BY <1>2 DEF BinOk, Empty, Held, SameRefs, SameOwner
<1> QED
  BY <1>2, <1>3, <1>4 DEF Handled

\* Noting a quiet opcode takes nothing.
LEMMA NoteQuietKeeps ==
  ASSUME NEW c, Driven(c)
  PROVE  Driven(NoteQuiet(c)) /\ SameOwner(c, NoteQuiet(c)) /\ SameRefs(c, NoteQuiet(c))
BY DEF NoteQuiet, Driven, ConnFields, SameOwner, SameRefs

(* A connection on which a reply is being sent may be told to close after  *)
(* it, or to swallow what is left of the command.                          *)
LEMMA ReplyGo ==
  ASSUME NEW c, NEW e, Replies(c, e), NEW g \in {"new_cmd", "swallow", "closing"}
  PROVE  Replies(c, [e EXCEPT !.go = g])
BY DEF Replies, Driven, ConnFields, SameOwner, SameRefs

\* dispatch_bin_command: every branch is sound.
LEMMA DispatchHandled ==
  ASSUME NEW c0, Driven(c0), NEW e \in dispatch_bin_command(c0)
  PROVE  Handled(c0, e, BinOk(c0))
<1> DEFINE c == NoteQuiet(c0)
           bye == [write_bin_response(c) EXCEPT !.go = "closing"]
<1>1. Driven(c) /\ SameOwner(c0, c) /\ SameRefs(c0, c)
  BY NoteQuietKeeps
<1>2. \/ e = [write_bin_error(c0, 0) EXCEPT !.go = "closing"]
      \/ e = write_bin_response(c) \/ e = bye \/ e = [bye EXCEPT !.st = "closing"]
      \/ \E sub \in Subs \ {"set_value", "sasl_data"} : e \in bin_read_key(c, sub)
      \/ e \in bin_list_sasl_mechs(c)
      \/ e \in handle_binary_protocol_error(c)
      \/ e \in dispatch_unknown(c)
  BY DEF dispatch_bin_command, Subs
<1> HIDE DEF c
<1>3. ASSUME Handled(c, e, BinOk(c))
      PROVE  Handled(c0, e, BinOk(c0))
  BY <1>1, <1>3 DEF Handled, SameOwner, SameRefs, BinOk, Empty
<1>4. ASSUME Replies(c, e)
      PROVE  Handled(c0, e, BinOk(c0))
  BY <1>3, <1>4, RepliesHandled DEF BinOk
<1>5. CASE e = [write_bin_error(c0, 0) EXCEPT !.go = "closing"]
  BY <1>5, BinError, ReplyGo, RepliesHandled DEF BinOk
<1>6. CASE e = write_bin_response(c) \/ e = bye
  <2>1. Replies(c, write_bin_response(c))
    BY <1>1, BinResponse
  <2>2. Replies(c, bye)
    BY <2>1, ReplyGo
  <2> QED
    BY <1>4, <1>6, <2>1, <2>2
<1>7. CASE e = [bye EXCEPT !.st = "closing"]
  <2>1. Replies(c, bye)
    BY <1>1, BinResponse, ReplyGo
  <2> HIDE DEF bye
  <2>2. Driven(e) /\ SameOwner(c, e) /\ SameRefs(c, e) /\ e.st = "closing"
    BY <1>7, <2>1 DEF Replies, Driven, ConnFields, SameOwner, SameRefs
  <2>3. Handled(c, e, BinOk(c))
    BY <2>2 DEF Handled, BinOk, Empty, Held, SameRefs
  <2> QED
    BY <2>3, <1>3
<1>8. CASE \E sub \in Subs \ {"set_value", "sasl_data"} : e \in bin_read_key(c, sub)
  BY <1>1, <1>3, <1>8, BinReadKey
<1>9. CASE e \in bin_list_sasl_mechs(c)
  <2> DEFINE d == [c EXCEPT !.auth = FALSE]
  <2>1. Driven(d) /\ SameOwner(c, d) /\ SameRefs(c, d)
    BY <1>1 DEF Driven, ConnFields, SameOwner, SameRefs
  <2>2. e = write_bin_response(d) \/ e = write_bin_error(d, 0) \/ e = write_bin_error(c, 0)
    BY <1>9 DEF bin_list_sasl_mechs
  <2> HIDE DEF d
  <2>3. Replies(d, e) \/ Replies(c, e)
    BY <1>1, <2>1, <2>2, BinResponse, BinError
  <2>4. Replies(c, e)
    BY <2>1, <2>3 DEF Replies, SameOwner, SameRefs
  <2> QED
    BY <2>4, <1>4
<1>10. CASE e \in handle_binary_protocol_error(c)
  <2>1. Replies(c, write_bin_error(c, 0))
    BY <1>1, BinError
  <2>2. Replies(c, [write_bin_error(c, 0) EXCEPT !.go = "closing"])
    BY <2>1, ReplyGo
  <2> QED
    BY <1>4, <1>10, <2>2 DEF handle_binary_protocol_error
<1>11. CASE e \in dispatch_unknown(c)
  BY <1>1, <1>4, <1>11, BinError DEF dispatch_unknown
<1> QED
  BY <1>2, <1>5, <1>6, <1>7, <1>8, <1>9, <1>10, <1>11

(***************************************************************************)
(* The handlers that complete a command whose value or key has been read.  *)
(* HeldItem: the item is the one taken when the reading began.             *)
(***************************************************************************)

HeldItem(c) == c.item = TRUE /\ c.ileft = 0 /\ c.suf = 0 /\ c.refs = 1 /\ c.sufs = 0

\* Taking an item: exactly one reference, reachable by c->item.
LEMMA TakesItem ==
  ASSUME NEW c, Driven(c)
  PROVE  LET d == TakeItem(c)
         IN  /\ DOMAIN d = ConnFields /\ SameOwner(c, d)
             /\ d.st = c.st /\ d.go = c.go /\ d.sub = c.sub
             /\ Empty(c) => HeldItem(d)
BY DEF TakeItem, Driven, ConnFields, SameOwner, Empty, HeldItem

\* Dropping it: none.
LEMMA DropsItem ==
  ASSUME NEW c, Driven(c)
  PROVE  LET d == DropItem(c)
         IN  /\ Driven(d) /\ SameOwner(c, d)
             /\ d.st = c.st /\ d.rbuf = c.rbuf
             /\ HeldItem(c) => Empty(d)
BY DEF DropItem, Driven, ConnFields, SameOwner, Empty, HeldItem

(* A reply followed by the drop of the item.                               *)
LEMMA ReplyDrops ==
  ASSUME NEW c, NEW e, Replies(c, e)
  PROVE  Handled(c, DropItem(e), HeldItem(c))
<1> DEFINE d == DropItem(e)
<1>1. Driven(e) /\ SameOwner(c, e) /\ SameRefs(c, e) /\ e.st \in {"new_cmd", "write", "mwrite"}
  BY DEF Replies
<1>2. Driven(d) /\ SameOwner(e, d) /\ d.st = e.st /\ (HeldItem(e) => Empty(d))
  BY <1>1, DropsItem
<1> HIDE DEF d
<1>3. HeldItem(c) => Empty(d)
  BY <1>1, <1>2 DEF HeldItem, SameRefs
<1>4. Empty(d) => Held(d)
  BY <1>1, <1>2 DEF Empty, Held
<1>5. SameOwner(c, d)
  BY <1>1, <1>2 DEF SameOwner
<1>6. Handled(c, d, HeldItem(c))
  BY <1>2, <1>3, <1>4, <1>5 DEF Handled
<1> QED
  BY <1>6 DEF d

(* A reply that keeps the item until it has been sent.                     *)
LEMMA ReplyKeeps ==
  ASSUME NEW c, NEW e, Replies(c, e), e.st # "write"
  PROVE  Handled(c, e, HeldItem(c))
BY DEF Replies, Handled, HeldItem, Held, SameRefs

(* A value is to be read into an item, or the command ends with an error.  *)
LEMMA ValueItemHandled ==
  ASSUME NEW c, Driven(c), NEW e \in ValueItem(c)
  PROVE  Handled(c, e, BinOk(c))
<1> DEFINE q == Cmd(c)
           stored == [TakeItem(c) EXCEPT !.rl = q.n, !.sub = "set_value", !.st = "nread"]
<1>1. \/ e = stored
      \/ e = [write_bin_error(c, q.n) EXCEPT !.go = "swallow"]
      \/ e = [out_of_memory(c) EXCEPT !.go = "swallow"]
  BY DEF ValueItem, OrFail
<1>2. CASE e = stored
  <2>1. /\ DOMAIN e = ConnFields /\ SameOwner(c, e)
        /\ e.st = "nread" /\ e.go = c.go /\ e.sub = "set_value"
        /\ Empty(c) => HeldItem(e)
    BY <1>2 DEF TakeItem, Driven, ConnFields, SameOwner, Empty, HeldItem
  <2>2. Driven(e)
    BY <2>1 DEF Driven, Subs
  <2>3. BinOk(c) => Held(e)
    BY <2>1 DEF BinOk, HeldItem, Held
  <2> QED
    BY <2>1, <2>2, <2>3 DEF Handled
<1>3. CASE e = [write_bin_error(c, q.n) EXCEPT !.go = "swallow"]
  BY <1>3, BinError, ReplyGo, RepliesHandled DEF BinOk
<1>4. CASE e = [out_of_memory(c) EXCEPT !.go = "swallow"]
  BY <1>4, OutOfMemory, ReplyGo, RepliesHandled DEF BinOk
<1> QED
  BY <1>1, <1>2, <1>3, <1>4

(* The same for the data of an authentication.                             *)
LEMMA SaslAuthHandled ==
  ASSUME NEW c, Driven(c), NEW e \in process_bin_sasl_auth(c)
  PROVE  Handled(c, e, BinOk(c))
<1> DEFINE q == Cmd(c)
           stored == [TakeItem(c) EXCEPT !.rl = q.n, !.sub = "sasl_data", !.st = "nread"]
           refused == write_bin_error(c, q.n)
<1>1. e = stored \/ e = refused \/ e = [refused EXCEPT !.go = "swallow"]
  BY DEF process_bin_sasl_auth, OrFail
<1>2. CASE e = stored
  <2>1. /\ DOMAIN e = ConnFields /\ SameOwner(c, e)
        /\ e.st = "nread" /\ e.go = c.go /\ e.sub = "sasl_data"
        /\ Empty(c) => HeldItem(e)
    BY <1>2 DEF TakeItem, Driven, ConnFields, SameOwner, Empty, HeldItem
  <2>2. Driven(e)
    BY <2>1 DEF Driven, Subs
  <2>3. BinOk(c) => Held(e)
    BY <2>1 DEF BinOk, HeldItem, Held
  <2> QED
    BY <2>1, <2>2, <2>3 DEF Handled
<1>3. Replies(c, refused)
  BY BinError
<1>4. Replies(c, [refused EXCEPT !.go = "swallow"])
  BY <1>3, ReplyGo
<1> QED
  BY <1>1, <1>2, <1>3, <1>4, RepliesHandled DEF BinOk

(* A hit keeps its item until the answer has been sent.                    *)
LEMMA GetOrTouchHandled ==
  ASSUME NEW c, Driven(c), NEW e \in process_bin_get_or_touch(c)
  PROVE  Handled(c, e, BinOk(c))
<1> DEFINE hit == [TakeItem(c) EXCEPT !.out = Answer(c, 1), !.st = "mwrite", !.go = "new_cmd"]
           silent == [c EXCEPT !.st = "new_cmd"]
<1>1. e = hit \/ e = silent \/ e = write_bin_error(c, 0)
  BY DEF process_bin_get_or_touch
<1>2. CASE e = hit
  <2>1. /\ Driven(e) /\ SameOwner(c, e) /\ e.st = "mwrite"
        /\ Empty(c) => HeldItem(e)
    BY <1>2 DEF TakeItem, Driven, ConnFields, SameOwner, Empty, HeldItem
  <2>2. BinOk(c) => Held(e)
    BY <2>1 DEF BinOk, HeldItem, Held
  <2> QED
    BY <2>1, <2>2 DEF Handled
<1>3. CASE e = silent
  <2>1. Replies(c, e)
    BY <1>3 DEF Replies, Driven, ConnFields, SameOwner, SameRefs
  <2> QED
    BY <2>1, RepliesHandled DEF BinOk
<1>4. CASE e = write_bin_error(c, 0)
  BY <1>4, BinError, RepliesHandled DEF BinOk
<1> QED
  BY <1>1, <1>2, <1>3, <1>4

(* The item of an authentication was never linked: it stays until the      *)
(* answer has been sent, or until the next command.                        *)
LEMMA SaslDoneHandled ==
  ASSUME NEW c, Driven(c), NEW e \in process_bin_complete_sasl_auth(c)
  PROVE  Handled(c, e, HeldItem(c))
<1> DEFINE yes == [write_bin_response(c) EXCEPT !.auth = TRUE]
           d == [c EXCEPT !.auth = FALSE]
           more == [c EXCEPT !.auth = FALSE, !.out = Answer(c, 1), !.st = "mwrite", !.go = "new_cmd"]
<1>1. e = yes \/ e = write_bin_error(d, 0) \/ e = more
  BY DEF process_bin_complete_sasl_auth
<1>2. CASE e = yes
  <2> DEFINE r == write_bin_response(c)
  <2>1. Replies(c, r) /\ r.st # "write"
    BY BinResponse
  <2>2. e = [r EXCEPT !.auth = TRUE]
    BY <1>2
  <2> HIDE DEF r
  <2>3. Replies(c, e) /\ e.st # "write"
    BY <2>1, <2>2 DEF Replies, Driven, ConnFields, SameOwner, SameRefs
  <2> QED
    BY <2>3, ReplyKeeps
<1>3. CASE e = write_bin_error(d, 0)
  <2>1. Driven(d) /\ SameOwner(c, d) /\ SameRefs(c, d)
    BY DEF Driven, ConnFields, SameOwner, SameRefs
  <2> HIDE DEF d
  <2>2. Replies(d, e) /\ e.st = "mwrite"
    BY <1>3, <2>1, BinError
  <2>3. Replies(c, e)
    BY <2>1, <2>2 DEF Replies, SameOwner, SameRefs
  <2> QED
    BY <2>2, <2>3, ReplyKeeps
<1>4. CASE e = more
  <2>1. Replies(c, e) /\ e.st # "write"
    BY <1>4 DEF Replies, Driven, ConnFields, SameOwner, SameRefs
  <2> QED
    BY <2>1, ReplyKeeps
<1> QED
  BY <1>1, <1>2, <1>3, <1>4

(* In nread an item is held exactly when a value is being read into it.    *)
LEMMA NreadHolds ==
  ASSUME NEW c, Held(c), c.st = "nread"
  PROVE  /\ c.prot = "ascii" \/ c.sub \in {"set_value", "sasl_data"} => HeldItem(c)
         /\ c.prot # "ascii" /\ c.sub \notin {"set_value", "sasl_data"} => Empty(c)
BY DEF Held, HeldItem, Empty

(* The value, or the key, is complete.                                     *)
LEMMA NreadHandled ==
  ASSUME NEW c, Driven(c), c.st = "nread", NEW e \in complete_nread(c)
  PROVE  Handled(c, e, Held(c))
<1>1. ASSUME NEW P, Handled(c, e, P), Held(c) => P
      PROVE  Handled(c, e, Held(c))
  BY <1>1 DEF Handled
<1>2. CASE c.prot = "ascii"
  <2>1. e = DropItem(out_string(c))
    BY <1>2 DEF complete_nread, complete_nread_ascii
  <2>2. Handled(c, e, HeldItem(c))
    BY <2>1, OutString, ReplyDrops
  <2> QED
    BY <1>1, <1>2, <2>2, NreadHolds
<1>3. CASE c.prot # "ascii"
  <2>1. c.sub \in Subs /\ e \in complete_nread_binary(c)
    BY <1>3 DEF Driven, complete_nread
  <2>2. CASE c.sub = "set_header"
    <3>1. e \in ValueItem(c)
      BY <2>1, <2>2 DEF complete_nread_binary, process_bin_append_prepend, process_bin_update
    <3>2. Handled(c, e, BinOk(c))
      BY <3>1, ValueItemHandled
    <3> QED
      BY <1>1, <1>3, <2>2, <3>2, NreadHolds DEF BinOk
  <2>3. CASE c.sub = "set_value"
    <3>1. e = DropItem(write_bin_response(c)) \/ e = DropItem(write_bin_error(c, 0))
      BY <2>1, <2>3 DEF complete_nread_binary, complete_update_bin
    <3>2. Handled(c, e, HeldItem(c))
      BY <3>1, BinResponse, BinError, ReplyDrops
    <3> QED
      BY <1>1, <2>3, <3>2, NreadHolds
  <2>4. CASE c.sub = "get_key"
    <3>1. e \in process_bin_get_or_touch(c)
      BY <2>1, <2>4 DEF complete_nread_binary
    <3>2. Handled(c, e, BinOk(c))
      BY <3>1, GetOrTouchHandled
    <3> QED
      BY <1>1, <1>3, <2>4, <3>2, NreadHolds DEF BinOk
  <2>5. CASE c.sub \in {"stat", "del", "incr", "flush"}
    <3>1. \/ e = write_bin_response(c) \/ e = write_bin_error(c, 0)
          \/ e = write_and_free(c) \/ e = out_of_memory(c)
      BY <2>1, <2>5 DEF complete_nread_binary, process_bin_stat, process_bin_delete,
                        complete_incr_bin, process_bin_flush, OrFail
    <3>2. Replies(c, e)
      BY <3>1, BinResponse, BinError, WriteAndFree, OutOfMemory
    <3>3. Handled(c, e, BinOk(c))
      BY <3>2, RepliesHandled DEF BinOk
    <3> QED
      BY <1>1, <1>3, <2>5, <3>3, NreadHolds DEF BinOk
  <2>6. CASE c.sub = "sasl"
    <3>1. e \in process_bin_sasl_auth(c)
      BY <2>1, <2>6 DEF complete_nread_binary
    <3>2. Handled(c, e, BinOk(c))
      BY <3>1, SaslAuthHandled
    <3> QED
      BY <1>1, <1>3, <2>6, <3>2, NreadHolds DEF BinOk
  <2>7. CASE c.sub = "sasl_data"
    <3>1. e \in process_bin_complete_sasl_auth(c)
      BY <2>1, <2>7 DEF complete_nread_binary
    <3>2. Handled(c, e, HeldItem(c))
      BY <3>1, SaslDoneHandled
    <3> QED
      BY <1>1, <2>7, <3>2, NreadHolds
  <2> QED
    BY <2>1, <2>2, <2>3, <2>4, <2>5, <2>6, <2>7 DEF Subs
<1> QED
  BY <1>2, <1>3

(***************************************************************************)
(* The turns of drive_machine.                                             *)
(***************************************************************************)

(* What one of them needs to know of the scenario for the accounting.      *)
Clean(c) == c.prot = "ascii" \/ conf.prot = "ascii" => ~conf.oom /\ ~conf.badkey

Accounted(c) == Held(c) /\ Clean(c)

SockFields == {"open", "todo", "net", "eof", "wr"}

SockType ==
  /\ DOMAIN sock = Fds
  /\ \A f \in Fds : DOMAIN sock[f] = SockFields /\ sock[f].open \in BOOLEAN

SameOpen == \A f \in Fds : sock'[f].open = sock[f].open

(* The connection e may be what a turn for c leaves.                       *)
Turned(c, e) ==
  /\ Driven(e) /\ e.own = c.own /\ e.run \in {c.run, FALSE}
  /\ Accounted(c) => Accounted(e)

(* A turn changes its own connection and that one's socket, closes neither *)
(* and leaves the workers and the listener alone.                          *)
Turn(f) ==
  /\ conn[f].run
  /\ \E e : conn' = [conn EXCEPT ![f] = e] /\ Turned(conn[f], e)
  /\ SockType' /\ SameOpen
  /\ UNCHANGED <<conf, wk, lis>>

(* Held only looks at the references, and at the state they are held in.   *)
LEMMA HeldKept ==
  ASSUME NEW c, NEW e, SameRefs(c, e), e.prot = c.prot, Held(c),
         \/ e.st = c.st /\ e.sub = c.sub
         \/ e.st = "closing"
         \/ Empty(c) /\ e.st # "nread"
  PROVE  Held(e)
BY DEF SameRefs, Held, Empty

\* In the states between commands a connection has no references.
LEMMA HoldsNothing ==
  ASSUME NEW c, Held(c), c.st \in {"waiting", "read", "parse_cmd", "swallow", "write", "closed"}
  PROVE  Empty(c)
BY DEF Held, Empty

\* A step that leaves the sockets alone keeps their types and which are open.
LEMMA SockStays ==
  ASSUME SockType, sock' = sock
  PROVE  SockType' /\ SameOpen
BY DEF SockType, SameOpen

\* So does one that only moves bytes on a socket.
LEMMA SockChanges ==
  ASSUME SockType, NEW f \in Fds, NEW x,
         \/ sock' = [sock EXCEPT ![f].net = x]
         \/ sock' = [sock EXCEPT ![f].wr = x]
  PROVE  SockType' /\ SameOpen
BY DEF SockType, SameOpen, SockFields

(* A turn that only changes what the other fields hold.                    *)
LEMMA PlainTurn ==
  ASSUME NEW c, Driven(c), NEW e, Driven(e), e.run \in {c.run, FALSE}, e.own = c.own,
         e.prot = c.prot, SameRefs(c, e),
         \/ e.st = c.st /\ e.sub = c.sub
         \/ e.st = "closing"
         \/ c.st \in {"waiting", "read", "parse_cmd", "swallow", "write"} /\ e.st # "nread"
  PROVE  Turned(c, e)
BY HeldKept, HoldsNothing DEF Turned, Accounted, Clean

(* A turn that calls a handler.                                            *)
LEMMA HandlerTurn ==
  ASSUME NEW c, NEW e, Handled(c, e, Accounted(c))
  PROVE  Turned(c, e)
BY DEF Handled, SameOwner, Turned, Accounted, Clean

\* reset_cmd_handler drops the item of the command before.
LEMMA ResetKeeps ==
  ASSUME NEW c, Driven(c), c.st = "new_cmd"
  PROVE  Handled(c, reset_cmd_handler(c), Held(c))
<1> DEFINE b == IF c.item THEN DropItem(c) ELSE c
           d == conn_shrink(b)
           e == [d EXCEPT !.sub = "none", !.st = IF d.rbuf # <<>> THEN "parse_cmd" ELSE "waiting"]
<1>1. Driven(b) /\ SameOwner(c, b)
  BY DropsItem DEF SameOwner
<1>2. Held(c) => Empty(b)
  <2> SUFFICES ASSUME Held(c) PROVE Empty(b)
    OBVIOUS
  <2>1. CASE c.item = TRUE
    <3>1. HeldItem(c)
      BY <2>1 DEF Held, HeldItem
    <3> QED
      BY <2>1, <3>1, DropsItem
  <2>2. CASE c.item = FALSE
    BY <2>2 DEF Held, Empty
  <2> QED
    BY <2>1, <2>2 DEF Held
<1> HIDE DEF b
<1>3. Driven(d) /\ SameOwner(b, d) /\ SameRefs(b, d)
  BY <1>1 DEF conn_shrink, Driven, ConnFields, SameOwner, SameRefs
<1> HIDE DEF d
<1>4. Driven(e) /\ SameOwner(d, e) /\ SameRefs(d, e) /\ e.st \in {"parse_cmd", "waiting"}
  BY <1>3 DEF Driven, ConnFields, SameOwner, SameRefs
<1>5. Handled(c, e, Held(c))
  <2>1. SameOwner(c, e)
    BY <1>1, <1>3, <1>4 DEF SameOwner
  <2>2. Held(c) => Empty(e)
    BY <1>2, <1>3, <1>4 DEF SameRefs, Empty
  <2>3. Empty(e) => Held(e)
    BY <1>4 DEF Empty, Held
  <2> QED
    BY <1>4, <2>1, <2>2, <2>3 DEF Handled
<1> QED
  BY <1>5 DEF reset_cmd_handler, d, b

\* How a turn of the state machine is shown.
LEMMA TurnOf ==
  ASSUME NEW f \in Fds, conn[f].run, NEW e, Become(f, e), Turned(conn[f], e),
         SockType', SameOpen, Still
  PROVE  Turn(f)
BY DEF Turn, Become, Still

\* conn_new_cmd is a turn.
LEMMA NewCmdTurn ==
  ASSUME NEW f \in Fds, Driven(conn[f]), SockType, NewCmd(f)
  PROVE  Turn(f)
<1> DEFINE c == conn[f]
           less == [c EXCEPT !.nreqs = @ - 1]
           yield == Stop([c EXCEPT !.ev = IF c.rbuf # <<>> THEN "write" ELSE @])
<1>1. c.run /\ c.st = "new_cmd" /\ sock' = sock /\ Still
  BY DEF NewCmd
<1>2. Become(f, reset_cmd_handler(less)) \/ Become(f, yield)
  BY DEF NewCmd
<1>3. Turned(c, reset_cmd_handler(less))
  <2>1. Driven(less) /\ SameOwner(c, less) /\ SameRefs(c, less) /\ less.st = c.st /\ less.sub = c.sub
    BY DEF Driven, ConnFields, SameOwner, SameRefs
  <2>2. Held(c) => Held(less)
    BY <2>1, HeldKept DEF SameOwner
  <2>3. Handled(less, reset_cmd_handler(less), Held(less))
    BY <1>1, <2>1, ResetKeeps
  <2> HIDE DEF less
  <2>4. Handled(c, reset_cmd_handler(less), Accounted(c))
    BY <2>1, <2>2, <2>3 DEF Handled, SameOwner, Accounted
  <2> QED
    BY <2>4, HandlerTurn
<1>4. Turned(c, yield)
  <2>1. /\ Driven(yield) /\ yield.own = c.own /\ yield.run = FALSE /\ yield.prot = c.prot
        /\ SameRefs(c, yield) /\ yield.st = c.st /\ yield.sub = c.sub
    BY DEF Stop, Driven, ConnFields, SameRefs
  <2> QED
    BY <2>1, PlainTurn
<1> QED
  BY <1>1, <1>2, <1>3, <1>4, SockStays, TurnOf

\* conn_waiting is a turn.
LEMMA WaitingTurn ==
  ASSUME NEW f \in Fds, Driven(conn[f]), SockType, Waiting(f)
  PROVE  Turn(f)
<1> DEFINE c == conn[f]
           e == Stop([c EXCEPT !.ev = "read", !.st = "read"])
<1>1. c.run /\ c.st = "waiting" /\ sock' = sock /\ Still /\ Become(f, e)
  BY DEF Waiting
<1>2. /\ Driven(e) /\ e.own = c.own /\ e.run = FALSE /\ e.prot = c.prot
      /\ SameRefs(c, e) /\ e.st = "read"
  BY DEF Stop, Driven, ConnFields, SameRefs
<1>3. Turned(c, e)
  BY <1>1, <1>2, PlainTurn
<1> QED
  BY <1>1, <1>3, SockStays, TurnOf

\* try_read_network is a turn.
LEMMA ReadNetworkTurn ==
  ASSUME NEW f \in Fds, Driven(conn[f]), SockType, try_read_network(f)
  PROVE  Turn(f)
<1> DEFINE c == conn[f]
           lost == [c EXCEPT !.rbuf = <<>>, !.i = 0]
           failed == [out_of_memory(lost) EXCEPT !.go = "closing"]
<1>1. c.run /\ c.st = "read" /\ Still
  BY DEF try_read_network
<1>2. PICK k : sock' = [sock EXCEPT ![f].net = SubSeq(@, k + 1, Len(@))]
  BY DEF try_read_network
<1>3. SockType' /\ SameOpen
  BY <1>2, SockChanges
<1>4. \/ \E x, y, z : /\ z \in {"closing", "waiting", "parse_cmd"}
                      /\ Become(f, [[c EXCEPT !.rbuf = x, !.rsize = y] EXCEPT !.st = z])
      \/ Become(f, failed)
  BY DEF try_read_network
<1>5. ASSUME NEW x, NEW y, NEW z \in {"closing", "waiting", "parse_cmd"}
      PROVE  Turned(c, [[c EXCEPT !.rbuf = x, !.rsize = y] EXCEPT !.st = z])
  <2> DEFINE e == [[c EXCEPT !.rbuf = x, !.rsize = y] EXCEPT !.st = z]
  <2>1. Driven(e) /\ e.own = c.own /\ e.run = c.run /\ e.prot = c.prot /\ SameRefs(c, e) /\ e.st = z
    BY DEF Driven, ConnFields, SameRefs
  <2> HIDE DEF e
  <2>2. Turned(c, e)
    BY <1>1, <2>1, PlainTurn
  <2> QED
    BY <2>2 DEF e
<1>6. Turned(c, failed)
  <2>1. Driven(lost) /\ SameOwner(c, lost) /\ SameRefs(c, lost)
    BY DEF Driven, ConnFields, SameOwner, SameRefs
  <2>2. Replies(lost, out_of_memory(lost))
    BY <2>1, OutOfMemory
  <2>3. Replies(lost, failed)
    BY <2>2, ReplyGo
  <2> HIDE DEF lost, failed
  <2>4. Replies(c, failed)
    BY <2>1, <2>3 DEF Replies, SameOwner, SameRefs
  <2> QED
    BY <1>1, <2>4, PlainTurn DEF Replies, SameOwner
<1> QED
  <2>1. PICK e : Become(f, e) /\ Turned(c, e)
    BY <1>4, <1>5, <1>6
  <2> QED
    BY <1>1, <1>3, <2>1, TurnOf

(* The protocol is settled by the first command: what is clean stays so.   *)
LEMMA Negotiated ==
  ASSUME NEW c, Driven(c), c.st = "parse_cmd", NEW d, SameRefs(c, d), d.run = c.run, d.own = c.own,
         d.prot = (IF c.prot = "negotiating" THEN conf.prot ELSE c.prot),
         NEW e,
         \/ Handled(d, e, AsciiOk(d)) /\ d.prot = "ascii"
         \/ Handled(d, e, BinOk(d)) /\ d.prot # "ascii"
  PROVE  Turned(c, e)
<1>1. Driven(e) /\ e.run = c.run /\ e.own = c.own /\ e.prot \in {c.prot, conf.prot}
  BY DEF Handled, SameOwner
<1>2. ASSUME Accounted(c)
      PROVE  Held(e)
  <2>1. Empty(d)
    BY <1>2, HoldsNothing DEF Accounted, SameRefs, Empty
  <2>2. d.prot = "ascii" => ~conf.oom /\ ~conf.badkey
    BY <1>2 DEF Accounted, Clean
  <2> QED
    BY <2>1, <2>2 DEF Handled, AsciiOk, BinOk
<1>3. Accounted(c) => Clean(e)
  BY <1>1 DEF Accounted, Clean
<1> QED
  BY <1>1, <1>2, <1>3 DEF Turned, Accounted

\* try_read_command is a turn, with every command it dispatches.
LEMMA ReadCommandTurn ==
  ASSUME NEW f \in Fds, Driven(conn[f]), SockType, try_read_command(f)
  PROVE  Turn(f)
<1> DEFINE c == conn[f]
           u == Head(c.rbuf)
           prot == IF c.prot = "negotiating" THEN conf.prot ELSE c.prot
           d == [c EXCEPT !.prot = prot, !.i = u.i, !.rbuf = SubSeq(@, 3, Len(@)), !.out = <<>>]
           lost == [c EXCEPT !.prot = prot, !.i = 0, !.rbuf = Tail(@), !.out = <<>>]
           wait == [c EXCEPT !.prot = prot, !.st = "waiting"]
           bad == [lost EXCEPT !.st = "closing"]
<1>1. c.run /\ c.st = "parse_cmd" /\ sock' = sock /\ Still
  BY DEF try_read_command
<1>2. \/ prot = "ascii" /\ Become(f, out_string(lost))
      \/ prot # "ascii" /\ Become(f, bad)
      \/ Become(f, wait)
      \/ prot = "ascii" /\ \E e \in process_command(d) : Become(f, e)
      \/ prot # "ascii" /\ \E e \in dispatch_bin_command(d) : Become(f, e)
  BY DEF try_read_command
<1>3. \A x \in {d, lost} : Driven(x) /\ SameRefs(c, x) /\ x.run = c.run /\ x.own = c.own
                           /\ x.prot = prot /\ x.st = "parse_cmd"
  <2> HIDE DEF prot
  <2>1. Driven(d) /\ SameRefs(c, d) /\ d.run = c.run /\ d.own = c.own /\ d.prot = prot /\ d.st = "parse_cmd"
    BY <1>1 DEF Driven, ConnFields, SameRefs
  <2>2. /\ Driven(lost) /\ SameRefs(c, lost) /\ lost.run = c.run /\ lost.own = c.own
        /\ lost.prot = prot /\ lost.st = "parse_cmd"
    BY <1>1 DEF Driven, ConnFields, SameRefs
  <2> QED
    BY <2>1, <2>2
<1>4. Driven(wait) /\ SameRefs(c, wait) /\ wait.run = c.run /\ wait.own = c.own /\ wait.prot = prot
      /\ wait.st = "waiting"
  <2> HIDE DEF prot
  <2> QED
    BY <1>1 DEF Driven, ConnFields, SameRefs
<1> HIDE DEF d, lost, wait
<1>5. Driven(bad) /\ SameOwner(lost, bad) /\ SameRefs(lost, bad) /\ bad.st = "closing"
  <2>1. Driven(lost)
    BY <1>3
  <2> QED
    BY <2>1 DEF Driven, ConnFields, SameRefs, SameOwner
<1> HIDE DEF bad
<1>6. Turned(c, wait)
  <2>1. Accounted(c) => Held(wait)
    BY <1>1, <1>4, HoldsNothing DEF Accounted, SameRefs, Empty, Held
  <2>2. Accounted(c) => Clean(wait)
    BY <1>4 DEF Accounted, Clean
  <2> QED
    BY <1>4, <2>1, <2>2 DEF Turned, Accounted
<1>7. ASSUME prot = "ascii" PROVE Turned(c, out_string(lost))
  <2>1. Handled(lost, out_string(lost), AsciiOk(lost))
    BY <1>3, OutString, RepliesHandled DEF AsciiOk
  <2> QED
    BY <1>1, <1>3, <1>7, <2>1, Negotiated
<1>8. ASSUME prot # "ascii" PROVE Turned(c, bad)
  <2>1. Handled(lost, bad, BinOk(lost))
    BY <1>5 DEF Handled, BinOk, Empty, Held, SameRefs
  <2> QED
    BY <1>1, <1>3, <1>8, <2>1, Negotiated
<1>9. ASSUME prot = "ascii", NEW e \in process_command(d) PROVE Turned(c, e)
  <2>1. Handled(d, e, AsciiOk(d))
    BY <1>3, <1>9, CommandHandled
  <2> QED
    BY <1>1, <1>3, <1>9, <2>1, Negotiated
<1>10. ASSUME prot # "ascii", NEW e \in dispatch_bin_command(d) PROVE Turned(c, e)
  <2>1. Handled(d, e, BinOk(d))
    BY <1>3, <1>10, DispatchHandled
  <2> QED
    BY <1>1, <1>3, <1>10, <2>1, Negotiated
<1> QED
  <2>1. PICK e : Become(f, e) /\ Turned(c, e)
    BY <1>2, <1>6, <1>7, <1>8, <1>9, <1>10
  <2>2. SockType' /\ SameOpen
    BY <1>1, SockStays
  <2> QED
    BY <1>1, <2>1, <2>2, TurnOf

(* Reading from the socket: what is read is counted, or the connection     *)
(* waits or closes.                                                        *)
LEMMA ReadMoreTurn ==
  ASSUME NEW f \in Fds, SockType, NEW c, Driven(c), c.st \in {"nread", "swallow"},
         NEW count, ReadMore(f, c, count)
  PROVE  /\ SockType' /\ SameOpen
         /\ \E e : Become(f, e) /\ Turned(c, e)
<1> DEFINE k == IF Len(sock[f].net) < count THEN Len(sock[f].net) ELSE count
           e1 == [c EXCEPT !.sb = @ - k]
           e2 == [c EXCEPT !.rl = @ - k]
           e3 == [c EXCEPT !.st = "closing"]
           e4 == Stop([c EXCEPT !.ev = "read"])
<1>1. sock' = [sock EXCEPT ![f].net = SubSeq(@, k + 1, Len(@))]
  BY DEF ReadMore
<1>2. Become(f, e1) \/ Become(f, e2) \/ Become(f, e3) \/ Become(f, e4)
  BY DEF ReadMore
<1>3. SockType' /\ SameOpen
  BY <1>1, SockChanges
<1> HIDE DEF k
<1>4. Turned(c, e1)
  <2>1. Driven(e1) /\ e1.own = c.own /\ e1.run = c.run /\ e1.prot = c.prot /\ SameRefs(c, e1)
        /\ e1.st = c.st /\ e1.sub = c.sub
    BY DEF Driven, ConnFields, SameRefs
  <2> QED
    BY <2>1, PlainTurn
<1>5. Turned(c, e2)
  <2>1. Driven(e2) /\ e2.own = c.own /\ e2.run = c.run /\ e2.prot = c.prot /\ SameRefs(c, e2)
        /\ e2.st = c.st /\ e2.sub = c.sub
    BY DEF Driven, ConnFields, SameRefs
  <2> QED
    BY <2>1, PlainTurn
<1>6. Turned(c, e3)
  <2>1. Driven(e3) /\ e3.own = c.own /\ e3.run = c.run /\ e3.prot = c.prot /\ SameRefs(c, e3)
        /\ e3.st = "closing"
    BY DEF Driven, ConnFields, SameRefs
  <2> QED
    BY <2>1, PlainTurn
<1>7. Turned(c, e4)
  <2>1. Driven(e4) /\ e4.own = c.own /\ e4.run = FALSE /\ e4.prot = c.prot /\ SameRefs(c, e4)
        /\ e4.st = c.st /\ e4.sub = c.sub
    BY DEF Stop, Driven, ConnFields, SameRefs
  <2> QED
    BY <2>1, PlainTurn
<1> QED
  BY <1>2, <1>3, <1>4, <1>5, <1>6, <1>7

\* Turns compose.
LEMMA TurnedTwice ==
  ASSUME NEW c, NEW d, NEW e, Turned(c, d), Turned(d, e)
  PROVE  Turned(c, e)
BY DEF Turned

(* What is taken from the read buffer.                                     *)
LEMMA FromBufferKeeps ==
  ASSUME NEW c, Driven(c), NEW count
  PROVE  LET d == FromBuffer(c, count).c
         IN  Driven(d) /\ SameOwner(c, d) /\ SameRefs(c, d) /\ d.st = c.st /\ d.sub = c.sub
<1> DEFINE k == IF Len(c.rbuf) < count THEN Len(c.rbuf) ELSE count
           d == [c EXCEPT !.rbuf = SubSeq(@, k + 1, Len(@))]
<1>1. FromBuffer(c, count).c = d
  BY DEF FromBuffer
<1> HIDE DEF k
<1>2. Driven(d) /\ SameOwner(c, d) /\ SameRefs(c, d) /\ d.st = c.st /\ d.sub = c.sub
  BY DEF Driven, ConnFields, SameOwner, SameRefs
<1> QED
  BY <1>1, <1>2

\* conn_nread is a turn, with every completion it calls.
LEMMA NreadTurn ==
  ASSUME NEW f \in Fds, Driven(conn[f]), SockType, Nread(f)
  PROVE  Turn(f)
<1> DEFINE c == conn[f]
           x == FromBuffer(c, c.rl)
           b == x.c
           d == [b EXCEPT !.rl = @ - x.k]
<1>1. c.run /\ c.st = "nread" /\ Still
  BY DEF Nread
<1>2. \/ (\E e \in complete_nread(c) : Become(f, e)) /\ sock' = sock
      \/ Become(f, d) /\ sock' = sock
      \/ ReadMore(f, d, d.rl)
  BY DEF Nread
<1>3. Driven(b) /\ SameOwner(c, b) /\ SameRefs(c, b) /\ b.st = c.st /\ b.sub = c.sub
  BY FromBufferKeeps
<1> HIDE DEF b
<1>4. Driven(d) /\ SameOwner(b, d) /\ SameRefs(b, d) /\ d.st = b.st /\ d.sub = b.sub
  BY <1>3 DEF Driven, ConnFields, SameOwner, SameRefs
<1> HIDE DEF d
<1>5. Turned(c, d)
  BY <1>3, <1>4, PlainTurn DEF SameOwner, SameRefs
<1>6. ASSUME NEW e \in complete_nread(c) PROVE Turned(c, e)
  <2>1. Handled(c, e, Held(c))
    BY <1>1, NreadHandled
  <2>2. Handled(c, e, Accounted(c))
    BY <2>1 DEF Handled, Accounted
  <2> QED
    BY <2>2, HandlerTurn
<1>7. ASSUME ReadMore(f, d, d.rl)
      PROVE  SockType' /\ SameOpen /\ \E e : Become(f, e) /\ Turned(c, e)
  <2>1. /\ SockType' /\ SameOpen
        /\ \E e : Become(f, e) /\ Turned(d, e)
    BY <1>1, <1>3, <1>4, <1>7, ReadMoreTurn
  <2> QED
    BY <1>5, <2>1, TurnedTwice
<1>8. (SockType' /\ SameOpen) /\ \E e : Become(f, e) /\ Turned(c, e)
  BY <1>2, <1>5, <1>6, <1>7, SockStays
<1> QED
  BY <1>1, <1>8, TurnOf

\* conn_swallow is a turn.
LEMMA SwallowTurn ==
  ASSUME NEW f \in Fds, Driven(conn[f]), SockType, Swallow(f)
  PROVE  Turn(f)
<1> DEFINE c == conn[f]
           x == FromBuffer(c, c.sb)
           b == x.c
           d == [b EXCEPT !.sb = @ - x.k]
           done == [c EXCEPT !.st = "new_cmd"]
<1>1. c.run /\ c.st = "swallow" /\ Still
  BY DEF Swallow
<1>2. \/ Become(f, done) /\ sock' = sock
      \/ Become(f, d) /\ sock' = sock
      \/ ReadMore(f, c, c.sb)
  BY DEF Swallow
<1>3. Driven(b) /\ SameOwner(c, b) /\ SameRefs(c, b) /\ b.st = c.st /\ b.sub = c.sub
  BY FromBufferKeeps
<1> HIDE DEF b
<1>4. Driven(d) /\ SameOwner(b, d) /\ SameRefs(b, d) /\ d.st = b.st /\ d.sub = b.sub
  BY <1>3 DEF Driven, ConnFields, SameOwner, SameRefs
<1> HIDE DEF d
<1>5. Turned(c, d)
  BY <1>3, <1>4, PlainTurn DEF SameOwner, SameRefs
<1>6. Turned(c, done)
  <2>1. Driven(done) /\ SameOwner(c, done) /\ SameRefs(c, done) /\ done.st = "new_cmd"
    BY DEF Driven, ConnFields, SameOwner, SameRefs
  <2> QED
    BY <1>1, <2>1, PlainTurn DEF SameOwner
<1>7. ASSUME ReadMore(f, c, c.sb)
      PROVE  SockType' /\ SameOpen /\ \E e : Become(f, e) /\ Turned(c, e)
  BY <1>1, <1>7, ReadMoreTurn
<1>8. (SockType' /\ SameOpen) /\ \E e : Become(f, e) /\ Turned(c, e)
  BY <1>2, <1>5, <1>6, <1>7, SockStays
<1> QED
  BY <1>1, <1>8, TurnOf

(* All of the answer is out: what it was made of is given back.            *)
LEMMA ReleaseItems ==
  ASSUME NEW c, Driven(c)
  PROVE  LET d == conn_release_items(c)
         IN  /\ Driven(d) /\ SameOwner(c, d) /\ d.st = c.st /\ d.sub = c.sub /\ d.go = c.go
             /\ Held(c) => Empty(d)
<1> DEFINE d == conn_release_items(c)
<1>1. Driven(d) /\ SameOwner(c, d) /\ d.st = c.st /\ d.sub = c.sub /\ d.go = c.go
  BY DEF conn_release_items, Driven, ConnFields, SameOwner
<1>2. /\ d.item = FALSE /\ d.ileft = 0 /\ d.suf = 0
      /\ d.refs = c.refs - c.ileft - (IF c.item THEN 1 ELSE 0)
      /\ d.sufs = c.sufs - c.suf
  BY DEF conn_release_items, Driven, ConnFields
<1>3. Held(c) => d.refs = 0 /\ d.sufs = 0
  BY <1>2 DEF Held
<1> QED
  BY <1>1, <1>2, <1>3 DEF Empty

\* The end of a reply releases what the reply referred to.
LEMMA TransmittedTurn ==
  ASSUME NEW c, Driven(c), c.st \in {"write", "mwrite"}
  PROVE  Turned(c, Transmitted(c))
<1> DEFINE e == Transmitted(c)
           d == conn_release_items(c)
<1>1. CASE c.st = "mwrite"
  <2>1. e = [d EXCEPT !.st = IF c.prot = "binary" THEN c.go ELSE "new_cmd"]
    BY <1>1 DEF Transmitted
  <2>2. Driven(d) /\ SameOwner(c, d) /\ d.go = c.go /\ (Held(c) => Empty(d))
    BY ReleaseItems
  <2> HIDE DEF d, e
  <2>3. /\ Driven(e) /\ SameOwner(d, e) /\ SameRefs(d, e)
        /\ e.st \in {"new_cmd", "swallow", "closing"}
    BY <2>1, <2>2 DEF Driven, ConnFields, SameOwner, SameRefs
  <2>4. Held(c) => Held(e)
    BY <2>2, <2>3 DEF SameRefs, Empty, Held
  <2> QED
    BY <2>2, <2>3, <2>4 DEF Turned, Accounted, Clean, SameOwner, e
<1>2. CASE c.st = "write"
  <2>1. e = [c EXCEPT !.wfree = FALSE, !.st = c.go]
    BY <1>2 DEF Transmitted
  <2> HIDE DEF e
  <2>2. /\ Driven(e) /\ SameOwner(c, e) /\ SameRefs(c, e)
        /\ e.st \in {"new_cmd", "swallow", "closing"}
    BY <2>1 DEF Driven, ConnFields, SameOwner, SameRefs
  <2>3. Turned(c, e)
    BY <1>2, <2>2, PlainTurn DEF SameOwner
  <2> QED
    BY <2>3 DEF e
<1> QED
  BY <1>1, <1>2

\* conn_write and conn_mwrite are turns.
LEMMA TransmitTurn ==
  ASSUME NEW f \in Fds, Driven(conn[f]), SockType, transmit(f)
  PROVE  Turn(f)
<1> DEFINE c == conn[f]
           full == Stop([c EXCEPT !.ev = "write"])
           gone == [c EXCEPT !.st = "closing"]
           some(x, y) == [c EXCEPT !.out = x, !.log = y]
<1>1. c.run /\ c.st \in {"write", "mwrite"} /\ Still
  BY DEF transmit
<1>2. sock' = sock \/ \E b : sock' = [sock EXCEPT ![f].wr = b]
  BY DEF transmit
<1>3. \/ Become(f, Transmitted(c)) \/ Become(f, full) \/ Become(f, gone)
      \/ \E x, y : Become(f, some(x, y))
  BY DEF transmit
<1>4. SockType' /\ SameOpen
  BY <1>2, SockStays, SockChanges
<1>5. Turned(c, full)
  <2>1. /\ Driven(full) /\ full.own = c.own /\ full.run = FALSE /\ full.prot = c.prot
        /\ SameRefs(c, full) /\ full.st = c.st /\ full.sub = c.sub
    BY DEF Stop, Driven, ConnFields, SameRefs
  <2> QED
    BY <2>1, PlainTurn
<1>6. Turned(c, gone)
  <2>1. Driven(gone) /\ SameOwner(c, gone) /\ SameRefs(c, gone) /\ gone.st = "closing"
    BY DEF Driven, ConnFields, SameOwner, SameRefs
  <2> QED
    BY <2>1, PlainTurn DEF SameOwner
<1>7. ASSUME NEW x, NEW y PROVE Turned(c, some(x, y))
  <2> DEFINE e == some(x, y)
  <2>1. Driven(e) /\ SameOwner(c, e) /\ SameRefs(c, e) /\ e.st = c.st /\ e.sub = c.sub
    BY DEF Driven, ConnFields, SameOwner, SameRefs
  <2> HIDE DEF e
  <2>2. Turned(c, e)
    BY <2>1, PlainTurn DEF SameOwner
  <2> QED
    BY <2>2 DEF e
<1>8. Turned(c, Transmitted(c))
  BY <1>1, TransmittedTurn
<1> QED
  <2>1. PICK e : Become(f, e) /\ Turned(c, e)
    BY <1>3, <1>5, <1>6, <1>7, <1>8
  <2> QED
    BY <1>1, <1>4, <2>1, TurnOf

(***************************************************************************)
(* Where descriptors are: the inductive invariant.                         *)
(***************************************************************************)

ConnOk ==
  /\ DOMAIN conn = Fds
  /\ \A f \in Fds :
       LET c == conn[f]
       IN  /\ DOMAIN c = ConnFields /\ c.own \in Worker /\ c.run \in BOOLEAN
           /\ c.st # "closed" => Driven(c)
           /\ c.st = "closed" => c.run = FALSE

WkOk ==
  /\ wk \in [Worker -> [cq : Seq(Fds), pipe : Nat, fin : {"no", "allow", "count"}]]
  /\ \A w \in Worker : wk[w].pipe = Len(wk[w].cq)

LisOk ==
  /\ DOMAIN lis = {"on", "allow", "timer", "pc", "last", "curr", "left"}
  /\ lis.last \in Worker

(* A worker drives one connection at a time.                               *)
OneDriven ==
  \A f, g \in Fds : conn[f].run /\ conn[g].run /\ conn[f].own = conn[g].own => f = g

QueuedAt(f, w) == \E x \in DOMAIN wk[w].cq : wk[w].cq[x] = f
InQueue(f) == \E w \in Worker : QueuedAt(f, w)

(* No descriptor is in two queues, or twice in one.                        *)
QueuedOnce ==
  \A w, v \in Worker : \A x \in DOMAIN wk[w].cq : \A y \in DOMAIN wk[v].cq :
    wk[w].cq[x] = wk[v].cq[y] => w = v /\ x = y

OpenConns == {f \in Fds : conn[f].st # "closed"}
Closing == {w \in Worker : wk[w].fin # "no"}

OnePlace ==
  \A f \in Fds : /\ sock[f].open <=> InQueue(f) \/ f \in OpenConns
                 /\ ~(InQueue(f) /\ f \in OpenConns)

Counted == lis.curr = Cardinality(OpenConns) + Cardinality(Closing)

FdInv ==
  ConnOk /\ SockType /\ WkOk /\ LisOk /\ OneDriven /\ QueuedOnce /\ OnePlace /\ Counted

\* Threads and descriptors are finite, and worker 0 exists.
LEMMA Finite == IsFiniteSet(Worker) /\ IsFiniteSet(Fds) /\ 0 \in Worker /\ NWorkers - 1 \in Worker
<1>1. 0 \in Int /\ NWorkers - 1 \in Int
  BY ConnAssumption
<1>2. IsFiniteSet(0 .. NWorkers - 1)
  BY <1>1, FS_Interval
<1> QED
  BY <1>2, ConnAssumption DEF Worker

\* So are the sets that curr_conns is compared with.
LEMMA FdFinite == IsFiniteSet(OpenConns) /\ IsFiniteSet(Closing)
BY Finite, FS_Subset DEF OpenConns, Closing

\* A set without two elements has at most one.
LEMMA AtMostOne ==
  ASSUME NEW S, \A x, y \in S : x = y
  PROVE  Cardinality(S) <= 1
<1>1. CASE S = {}
  BY <1>1, FS_EmptySet
<1>2. CASE S # {}
  <2>1. PICK x : x \in S
    BY <1>2
  <2>2. S = {x}
    BY <2>1
  <2>3. Cardinality({x}) = 1
    BY FS_Singleton
  <2> QED
    BY <2>2, <2>3
<1> QED
  BY <1>1, <1>2

(* The invariant says where every descriptor is.                           *)
LEMMA FdInvOwned == FdInv => FdOwned
<1> SUFFICES ASSUME FdInv PROVE FdOwned
  OBVIOUS
<1>1. ASSUME NEW f \in Fds
      PROVE  LET queued == {w \in Worker : \E x \in DOMAIN wk[w].cq : wk[w].cq[x] = f}
             IN  /\ Cardinality(queued) <= 1
                 /\ sock[f].open <=> (queued # {} \/ conn[f].st # "closed")
                 /\ queued = {} \/ conn[f].st = "closed"
  <2> DEFINE queued == {w \in Worker : \E x \in DOMAIN wk[w].cq : wk[w].cq[x] = f}
  <2>1. queued # {} <=> InQueue(f)
    BY DEF InQueue, QueuedAt
  <2>2. \A w, v \in queued : w = v
    BY DEF FdInv, QueuedOnce
  <2> HIDE DEF queued
  <2>3. Cardinality(queued) <= 1
    BY <2>2, AtMostOne
  <2>4. /\ sock[f].open <=> InQueue(f) \/ f \in OpenConns
        /\ ~(InQueue(f) /\ f \in OpenConns)
    BY DEF FdInv, OnePlace
  <2>5. f \in OpenConns <=> conn[f].st # "closed"
    BY DEF OpenConns
  <2>6. /\ sock[f].open <=> (queued # {} \/ conn[f].st # "closed")
        /\ queued = {} \/ conn[f].st = "closed"
    BY <2>1, <2>4, <2>5
  <2> QED
    BY <2>3, <2>6 DEF queued
<1>2. ASSUME NEW w \in Worker
      PROVE  Cardinality(Driving(w)) <= 1 /\ wk[w].pipe = Len(wk[w].cq)
  <2>1. \A f, g \in Driving(w) : f = g
    BY DEF FdInv, OneDriven, Driving
  <2>2. Cardinality(Driving(w)) <= 1
    BY <2>1, AtMostOne
  <2> QED
    BY <2>2 DEF FdInv, WkOk
<1>3. lis.curr = Cardinality({f \in Fds : conn[f].st # "closed"})
                  + Cardinality({w \in Worker : wk[w].fin # "no"})
  BY DEF FdInv, Counted, OpenConns, Closing
<1> QED
  BY <1>1, <1>2, <1>3 DEF FdOwned

\* The invariant holds before the first connection.
LEMMA FdInit == Init => FdInv
<1> SUFFICES ASSUME Init PROVE FdInv
  OBVIOUS
<1>1. ConnOk
  BY Finite DEF Init, ConnOk, NoConn, ConnFields
<1>2. SockType
  BY DEF Init, SockType, SockFields
<1>3. WkOk
  BY DEF Init, WkOk
<1>4. LisOk
  BY Finite DEF Init, LisOk
<1>5. OneDriven
  BY DEF Init, OneDriven, NoConn
<1>6. \A w \in Worker : wk[w].cq = <<>> /\ wk[w].fin = "no"
  BY DEF Init
<1>7. \A f \in Fds : ~InQueue(f)
  BY <1>6 DEF InQueue, QueuedAt
<1>8. QueuedOnce
  BY <1>6 DEF QueuedOnce
<1>9. OpenConns = {} /\ Closing = {}
  BY <1>6 DEF Init, OpenConns, Closing, NoConn
<1>10. OnePlace
  BY <1>7, <1>9 DEF Init, OnePlace
<1>11. Counted
  BY <1>9, FS_EmptySet DEF Init, Counted
<1> QED
  BY <1>1, <1>2, <1>3, <1>4, <1>5, <1>8, <1>10, <1>11 DEF FdInv

(***************************************************************************)
(* The steps.                                                              *)
(***************************************************************************)

(* Counting: one element more, one less.                                   *)
LEMMA OneMore ==
  ASSUME NEW S, IsFiniteSet(S), NEW x, x \notin S
  PROVE  Cardinality(S \cup {x}) = Cardinality(S) + 1
BY FS_AddElement, FS_CardinalityType

\* Removing an element lowers the size by one.
LEMMA OneLess ==
  ASSUME NEW S, IsFiniteSet(S), NEW x \in S
  PROVE  Cardinality(S \ {x}) = Cardinality(S) - 1
BY FS_RemoveElement, FS_CardinalityType

(* The queues are as they were.                                            *)
SameQueues ==
  /\ \A w \in Worker : wk'[w].cq = wk[w].cq

\* A step that leaves the queues alone keeps what they hold.
LEMMA QueuesStay ==
  ASSUME QueuedOnce, SameQueues
  PROVE  QueuedOnce' /\ \A f : InQueue(f)' <=> InQueue(f)
<1>1. QueuedOnce'
  BY DEF QueuedOnce, SameQueues
<1>2. ASSUME NEW f PROVE InQueue(f)' <=> InQueue(f)
  BY DEF InQueue, QueuedAt, SameQueues
<1> QED
  BY <1>1, <1>2

(* A turn of drive_machine, or of event_handler before it: the connection  *)
(* stays open under its worker, which was driving it or drives no other.   *)
LEMMA OpenTurn ==
  ASSUME FdInv, NEW f \in Fds, NEW e, conn' = [conn EXCEPT ![f] = e], Driven(e),
         conn[f].st # "closed", e.own = conn[f].own, e.run \in BOOLEAN,
         e.run => conn[f].run \/ Driving(conn[f].own) = {},
         SockType', SameOpen, UNCHANGED <<conf, wk, lis>>
  PROVE  FdInv'
<1> USE DEF FdInv
<1>1. ConnOk'
  BY DEF ConnOk, Driven
<1>2. WkOk' /\ LisOk' /\ SameQueues
  BY DEF WkOk, LisOk, SameQueues
<1>3. OneDriven'
  BY DEF OneDriven, ConnOk, Driving
<1>4. QueuedOnce' /\ \A g : InQueue(g)' <=> InQueue(g)
  BY <1>2, QueuesStay
<1>5. OpenConns' = OpenConns
  BY DEF OpenConns, ConnOk, Driven
<1>6. Closing' = Closing
  BY DEF Closing
<1>7. OnePlace'
  BY <1>4, <1>5 DEF OnePlace, SameOpen
<1>8. Counted'
  BY <1>5, <1>6 DEF Counted
<1> QED
  BY <1>1, <1>2, <1>3, <1>4, <1>7, <1>8

\* A turn of the state machine keeps the invariant.
LEMMA TurnFd ==
  ASSUME FdInv, NEW f \in Fds, Turn(f)
  PROVE  FdInv'
<1>1. conn[f].run = TRUE
  BY DEF Turn, FdInv, ConnOk
<1>2. conn[f].st # "closed"
  BY <1>1 DEF FdInv, ConnOk
<1>3. PICK e : conn' = [conn EXCEPT ![f] = e] /\ Turned(conn[f], e)
  BY DEF Turn
<1>4. e.run \in BOOLEAN /\ Driven(e) /\ e.own = conn[f].own
  BY <1>1, <1>3 DEF Turned
<1> QED
  BY <1>1, <1>2, <1>3, <1>4, OpenTurn DEF Turn

\* So does the event that starts to drive a connection.
LEMMA EventFd ==
  ASSUME FdInv, NEW f \in Fds, event_handler(f)
  PROVE  FdInv'
<1> DEFINE e == [conn[f] EXCEPT !.run = TRUE, !.nreqs = ReqsPerEvent]
<1>1. conn[f].st # "closed" /\ Driving(conn[f].own) = {}
  BY DEF event_handler, Ready
<1>2. Driven(conn[f])
  BY <1>1 DEF FdInv, ConnOk
<1>3. conn' = [conn EXCEPT ![f] = e] /\ sock' = sock /\ UNCHANGED <<conf, wk, lis>>
  BY DEF event_handler, Become, Still
<1>4. Driven(e) /\ e.own = conn[f].own /\ e.run \in BOOLEAN
  BY <1>2 DEF Driven, ConnFields
<1>5. SockType' /\ SameOpen
  BY <1>3, SockStays DEF FdInv
<1> QED
  BY <1>1, <1>3, <1>4, <1>5, OpenTurn

\* conn_cleanup leaves a closed connection without references.
LEMMA ReleasedRecord ==
  ASSUME NEW c, Driven(c)
  PROVE  LET e == Stop([conn_cleanup(c) EXCEPT !.st = "closed", !.ev = "none"])
         IN  /\ DOMAIN e = ConnFields /\ e.own = c.own /\ e.prot = c.prot /\ e.run = FALSE
             /\ e.st = "closed"
             /\ Held(c) => Empty(e)
<1> DEFINE d == conn_release_items(c)
           e == Stop([[d EXCEPT !.wfree = FALSE] EXCEPT !.st = "closed", !.ev = "none"])
<1>1. Driven(d) /\ SameOwner(c, d) /\ (Held(c) => Empty(d))
  BY ReleaseItems
<1> HIDE DEF d
<1>2. /\ DOMAIN e = ConnFields /\ e.own = d.own /\ e.prot = d.prot /\ e.run = FALSE
      /\ e.st = "closed" /\ SameRefs(d, e)
  BY <1>1 DEF Stop, Driven, ConnFields, SameRefs
<1>3. e = Stop([conn_cleanup(c) EXCEPT !.st = "closed", !.ev = "none"])
  BY DEF conn_cleanup, d
<1> HIDE DEF e
<1>4. Held(c) => Empty(e)
  BY <1>1, <1>2 DEF SameRefs, Empty
<1> QED
  BY <1>1, <1>2, <1>3, <1>4 DEF SameOwner

(* Closing frees the descriptor while the worker still has to tell the     *)
(* listener: for that time the worker is counted in its place.             *)
LEMMA CloseFd ==
  ASSUME FdInv, NEW f \in Fds, conn_close(f)
  PROVE  FdInv'
<1> DEFINE c == conn[f]
           e == Stop([conn_cleanup(c) EXCEPT !.st = "closed", !.ev = "none"])
           w == c.own
<1>1. /\ c.run /\ c.st = "closing" /\ wk[w].fin = "no"
      /\ conn' = [conn EXCEPT ![f] = e]
      /\ sock' = [sock EXCEPT ![f].open = FALSE, ![f].net = <<>>, ![f].todo = <<>>]
      /\ wk' = [wk EXCEPT ![w].fin = "allow"]
      /\ UNCHANGED lis
  BY DEF conn_close, Become
<1>2. w \in Worker /\ Driven(c) /\ DOMAIN conn = Fds
  BY <1>1 DEF FdInv, ConnOk
<1>3. DOMAIN e = ConnFields /\ e.own = w /\ e.run = FALSE /\ e.st = "closed"
  BY <1>2, ReleasedRecord
<1> HIDE DEF e
<1>4. ConnOk'
  <2>1. conn'[f] = e /\ \A g \in Fds \ {f} : conn'[g] = conn[g]
    BY <1>1, <1>2
  <2> QED
    BY <1>1, <1>2, <1>3, <2>1 DEF FdInv, ConnOk, Driven
<1>5. /\ SockType' /\ sock'[f].open = FALSE
      /\ \A g \in Fds \ {f} : sock'[g].open = sock[g].open
  BY <1>1 DEF FdInv, SockType, SockFields
<1> HIDE DEF w
<1>6. WkOk' /\ SameQueues /\ wk'[w].fin = "allow" /\ \A v \in Worker \ {w} : wk'[v].fin = wk[v].fin
  BY <1>1, <1>2 DEF FdInv, WkOk, SameQueues
<1>7. LisOk'
  BY <1>1 DEF FdInv, LisOk
<1>8. OneDriven'
  BY <1>1, <1>2, <1>3 DEF FdInv, OneDriven
<1>9. QueuedOnce' /\ \A g : InQueue(g)' <=> InQueue(g)
  BY <1>6, QueuesStay DEF FdInv
<1>10. f \in OpenConns /\ OpenConns' = OpenConns \ {f}
  BY <1>1, <1>2, <1>3 DEF OpenConns
<1>11. w \notin Closing /\ Closing' = Closing \cup {w}
  BY <1>1, <1>2, <1>6 DEF Closing
<1>12. OnePlace'
  BY <1>5, <1>9, <1>10 DEF FdInv, OnePlace
<1>13. Counted'
  <2>1. Cardinality(OpenConns') = Cardinality(OpenConns) - 1
    BY <1>10, FdFinite, OneLess
  <2>2. Cardinality(Closing') = Cardinality(Closing) + 1
    BY <1>11, FdFinite, OneMore
  <2>3. Cardinality(OpenConns) \in Nat /\ Cardinality(Closing) \in Nat
    BY FdFinite, FS_CardinalityType
  <2> QED
    BY <1>1, <2>1, <2>2, <2>3 DEF FdInv, Counted
<1> QED
  BY <1>4, <1>5, <1>6, <1>7, <1>8, <1>9, <1>12, <1>13 DEF FdInv

(* Steps that leave connections, queues and descriptors alone.             *)
LEMMA QuietFd ==
  ASSUME FdInv, UNCHANGED conn, SockType', SameOpen, WkOk', SameQueues, LisOk', Counted'
  PROVE  FdInv'
<1>1. ConnOk' /\ OneDriven'
  BY DEF FdInv, ConnOk, OneDriven, Driven
<1>2. QueuedOnce' /\ \A g : InQueue(g)' <=> InQueue(g)
  BY QueuesStay DEF FdInv
<1>3. OnePlace'
  BY <1>2 DEF FdInv, OnePlace, OpenConns, SameOpen
<1> QED
  BY <1>1, <1>2, <1>3 DEF FdInv

\* accept_new_conns(true) at the end of conn_close.
LEMMA CloseAllowFd ==
  ASSUME FdInv, NEW w \in Worker, CloseAllow(w)
  PROVE  FdInv'
<1>1. /\ wk[w].fin = "allow" /\ lis' = [lis EXCEPT !.allow = TRUE]
      /\ wk' = [wk EXCEPT ![w].fin = "count"] /\ UNCHANGED <<conn, sock>>
  BY DEF CloseAllow
<1>2. SockType' /\ SameOpen
  BY <1>1, SockStays DEF FdInv
<1>3. WkOk' /\ SameQueues /\ wk'[w].fin = "count" /\ \A v \in Worker \ {w} : wk'[v].fin = wk[v].fin
  BY <1>1 DEF FdInv, WkOk, SameQueues
<1>4. LisOk' /\ lis'.curr = lis.curr
  BY <1>1 DEF FdInv, LisOk
<1>5. Closing' = Closing
  BY <1>1, <1>3 DEF Closing
<1>6. Counted'
  BY <1>1, <1>4, <1>5 DEF FdInv, Counted, OpenConns
<1> QED
  BY <1>1, <1>2, <1>3, <1>4, <1>6, QuietFd

\* The decrement of curr_conns at the end of conn_close.
LEMMA CloseCountFd ==
  ASSUME FdInv, NEW w \in Worker, CloseCount(w)
  PROVE  FdInv'
<1>1. /\ wk[w].fin = "count" /\ lis' = [lis EXCEPT !.curr = @ - 1]
      /\ wk' = [wk EXCEPT ![w].fin = "no"] /\ UNCHANGED <<conn, sock>>
  BY DEF CloseCount
<1>2. SockType' /\ SameOpen
  BY <1>1, SockStays DEF FdInv
<1>3. WkOk' /\ SameQueues /\ wk'[w].fin = "no" /\ \A v \in Worker \ {w} : wk'[v].fin = wk[v].fin
  BY <1>1 DEF FdInv, WkOk, SameQueues
<1>4. LisOk' /\ lis'.curr = lis.curr - 1
  BY <1>1 DEF FdInv, LisOk
<1>5. w \in Closing /\ Closing' = Closing \ {w}
  BY <1>1, <1>3 DEF Closing
<1>6. Cardinality(Closing') = Cardinality(Closing) - 1
  BY <1>5, FdFinite, OneLess
<1>7. Cardinality(OpenConns) \in Nat /\ Cardinality(Closing) \in Nat
  BY FdFinite, FS_CardinalityType
<1>8. Counted'
  BY <1>1, <1>4, <1>6, <1>7 DEF FdInv, Counted, OpenConns
<1> QED
  BY <1>1, <1>2, <1>3, <1>4, <1>8, QuietFd

(* A worker takes the oldest descriptor from its queue.                    *)
LEMMA QueueTail ==
  ASSUME WkOk, QueuedOnce, NEW w \in Worker, wk[w].pipe > 0,
         wk' = [wk EXCEPT ![w].pipe = @ - 1, ![w].cq = Tail(@)]
  PROVE  LET f == Head(wk[w].cq)
         IN  /\ f \in Fds /\ InQueue(f) /\ WkOk' /\ QueuedOnce'
             /\ \A g : InQueue(g)' <=> InQueue(g) /\ g # f
             /\ \A v \in Worker : wk'[v].fin = wk[v].fin
<1> DEFINE q == wk[w].cq
           f == Head(q)
<1>1. q \in Seq(Fds) /\ Len(q) \in Nat /\ Len(q) > 0 /\ wk[w].pipe = Len(q)
  BY DEF WkOk
<1>2. f = q[1] /\ f \in Fds /\ DOMAIN q = 1 .. Len(q)
  BY <1>1
<1>3. /\ Tail(q) \in Seq(Fds) /\ Len(Tail(q)) = Len(q) - 1
      /\ DOMAIN Tail(q) = 1 .. Len(q) - 1
      /\ \A x \in 1 .. Len(q) - 1 : Tail(q)[x] = q[x + 1]
  BY <1>1
<1>4. /\ wk'[w].cq = Tail(q) /\ wk'[w].pipe = wk[w].pipe - 1 /\ wk'[w].fin = wk[w].fin
      /\ \A v \in Worker \ {w} : wk'[v] = wk[v]
  BY DEF WkOk
<1>5. WkOk'
  <2>1. wk'[w].pipe = Len(wk'[w].cq)
    BY <1>1, <1>3, <1>4
  <2>2. wk' \in [Worker -> [cq : Seq(Fds), pipe : Nat, fin : {"no", "allow", "count"}]]
    <3>1. wk[w].pipe - 1 \in Nat
      BY <1>1
    <3> QED
      BY <1>3, <3>1 DEF WkOk
  <2> QED
    BY <1>4, <2>1, <2>2 DEF WkOk
<1>6. InQueue(f)
  BY <1>1, <1>2 DEF InQueue, QueuedAt
<1>7. \A x \in DOMAIN Tail(q) : x + 1 \in DOMAIN q /\ Tail(q)[x] = q[x + 1] /\ x + 1 # 1
  BY <1>1, <1>2, <1>3
<1> HIDE DEF f
<1>8. QueuedOnce'
  <2> SUFFICES ASSUME NEW a \in Worker, NEW b \in Worker,
                      NEW x \in DOMAIN wk'[a].cq, NEW y \in DOMAIN wk'[b].cq,
                      wk'[a].cq[x] = wk'[b].cq[y]
               PROVE  a = b /\ x = y
    BY DEF QueuedOnce
  <2>1. CASE a # w /\ b # w
    <3>1. wk'[a].cq = wk[a].cq /\ wk'[b].cq = wk[b].cq
      BY <1>4, <2>1
    <3>2. /\ x \in DOMAIN wk[a].cq /\ y \in DOMAIN wk[b].cq
          /\ wk[a].cq[x] = wk[b].cq[y]
      BY <3>1
    <3> QED
      BY ONLY QueuedOnce, a \in Worker, b \in Worker, <3>2 DEF QueuedOnce
  <2>2. CASE a = w /\ b # w
    <3>1. x + 1 \in DOMAIN wk[w].cq /\ wk[w].cq[x + 1] = wk[b].cq[y] /\ y \in DOMAIN wk[b].cq
      BY <1>4, <1>7, <2>2
    <3> QED
      BY <2>2, <3>1 DEF QueuedOnce
  <2>3. CASE a # w /\ b = w
    <3>1. y + 1 \in DOMAIN wk[w].cq /\ wk[w].cq[y + 1] = wk[a].cq[x] /\ x \in DOMAIN wk[a].cq
      BY <1>4, <1>7, <2>3
    <3> QED
      BY <2>3, <3>1 DEF QueuedOnce
  <2>4. CASE a = w /\ b = w
    <3>1. /\ x \in DOMAIN Tail(q) /\ y \in DOMAIN Tail(q)
          /\ Tail(q)[x] = Tail(q)[y]
      BY <1>4, <2>4
    <3>2. x + 1 \in DOMAIN q /\ y + 1 \in DOMAIN q /\ q[x + 1] = q[y + 1]
      BY <1>7, <3>1
    <3>3. x + 1 = y + 1
      BY <3>2 DEF QueuedOnce
    <3>4. x \in 1 .. Len(q) - 1 /\ y \in 1 .. Len(q) - 1
      BY <1>3, <3>1
    <3>5. x = y
      BY <1>1, <3>3, <3>4
    <3> QED
      BY <2>4, <3>5
  <2> QED
    BY <2>1, <2>2, <2>3, <2>4
<1>9. ASSUME NEW g PROVE InQueue(g)' <=> InQueue(g) /\ g # f
  <2>1. ASSUME NEW a \in Worker, NEW x \in DOMAIN wk'[a].cq, wk'[a].cq[x] = g
        PROVE  InQueue(g) /\ g # f
    <3>1. CASE a = w
      <4>1. x + 1 \in DOMAIN q /\ q[x + 1] = g /\ x + 1 # 1
        BY <1>4, <1>7, <2>1, <3>1
      <4>2. g # f
        BY <1>1, <1>2, <4>1 DEF QueuedOnce
      <4> QED
        BY <4>1, <4>2 DEF InQueue, QueuedAt
    <3>2. CASE a # w
      <4>1. x \in DOMAIN wk[a].cq /\ wk[a].cq[x] = g
        BY <1>4, <2>1, <3>2
      <4>2. 1 \in DOMAIN q
        BY <1>1, <1>2
      <4>3. g # f
        BY <1>2, <3>2, <4>1, <4>2 DEF QueuedOnce
      <4> QED
        BY <4>1, <4>3 DEF InQueue, QueuedAt
    <3> QED
      BY <3>1, <3>2
  <2>2. ASSUME NEW a \in Worker, NEW x \in DOMAIN wk[a].cq, wk[a].cq[x] = g, g # f
        PROVE  \E b \in Worker : \E y \in DOMAIN wk'[b].cq : wk'[b].cq[y] = g
    <3>1. CASE a = w
      <4>1. x \in 1 .. Len(q) /\ x # 1
        BY <1>2, <2>2, <3>1
      <4>2. x - 1 \in 1 .. Len(q) - 1 /\ (x - 1) + 1 = x
        BY <1>1, <4>1
      <4>3. x - 1 \in DOMAIN Tail(q) /\ Tail(q)[x - 1] = q[x]
        BY <1>3, <4>2
      <4> QED
        BY <1>4, <2>2, <3>1, <4>3
    <3>2. CASE a # w
      BY <1>4, <2>2, <3>2
    <3> QED
      BY <3>1, <3>2
  <2> QED
    BY <2>1, <2>2 DEF InQueue, QueuedAt
<1>10. \A v \in Worker : wk'[v].fin = wk[v].fin
  BY <1>4
<1> QED
  BY <1>2, <1>5, <1>6, <1>8, <1>9, <1>10 DEF f

(* The listener adds a descriptor that is in no queue.                     *)
LEMMA QueueAppend ==
  ASSUME WkOk, QueuedOnce, NEW w \in Worker, NEW f \in Fds, ~InQueue(f), cq_push(w, f)
  PROVE  /\ WkOk' /\ QueuedOnce'
         /\ \A g : InQueue(g)' <=> InQueue(g) \/ g = f
         /\ \A v \in Worker : wk'[v].fin = wk[v].fin
<1> DEFINE q == wk[w].cq
           n == Len(q) + 1
<1>1. q \in Seq(Fds) /\ Len(q) \in Nat /\ wk[w].pipe = Len(q) /\ DOMAIN q = 1 .. Len(q)
  BY DEF WkOk
<1>2. /\ Append(q, f) \in Seq(Fds) /\ Len(Append(q, f)) = n /\ DOMAIN Append(q, f) = 1 .. n
      /\ Append(q, f)[n] = f /\ \A x \in 1 .. Len(q) : Append(q, f)[x] = q[x]
  BY <1>1
<1>3. /\ wk'[w].cq = Append(q, f) /\ wk'[w].pipe = wk[w].pipe + 1 /\ wk'[w].fin = wk[w].fin
      /\ \A v \in Worker \ {w} : wk'[v] = wk[v]
  BY DEF WkOk, cq_push
<1>4. WkOk'
  <2>1. wk'[w].pipe = Len(wk'[w].cq)
    BY <1>1, <1>2, <1>3
  <2>2. wk' \in [Worker -> [cq : Seq(Fds), pipe : Nat, fin : {"no", "allow", "count"}]]
    BY <1>1, <1>2 DEF WkOk, cq_push
  <2> QED
    BY <1>3, <2>1, <2>2 DEF WkOk
<1>5. \A x \in DOMAIN Append(q, f) : x = n \/ (x \in DOMAIN q /\ Append(q, f)[x] = q[x])
  <2>1. \A x \in 1 .. n : x = n \/ x \in 1 .. Len(q)
    BY <1>1
  <2> DEFINE s == Append(q, f)
  <2>2. DOMAIN s = 1 .. n /\ \A x \in 1 .. Len(q) : s[x] = q[x]
    BY <1>2
  <2> HIDE DEF s, n
  <2>3. \A x \in DOMAIN s : x = n \/ (x \in DOMAIN q /\ s[x] = q[x])
    BY <1>1, <2>1, <2>2
  <2> QED
    BY <2>3 DEF s
<1>6. \A a \in Worker : \A x \in DOMAIN wk'[a].cq :
        \/ a = w /\ x = n /\ wk'[a].cq[x] = f
        \/ x \in DOMAIN wk[a].cq /\ wk'[a].cq[x] = wk[a].cq[x] /\ wk[a].cq[x] # f
  BY <1>2, <1>3, <1>5 DEF InQueue, QueuedAt
<1>7. \A a \in Worker : \A x \in DOMAIN wk[a].cq :
        x \in DOMAIN wk'[a].cq /\ wk'[a].cq[x] = wk[a].cq[x]
  <2> SUFFICES ASSUME NEW a \in Worker, NEW x \in DOMAIN wk[a].cq
               PROVE  x \in DOMAIN wk'[a].cq /\ wk'[a].cq[x] = wk[a].cq[x]
    OBVIOUS
  <2>1. CASE a = w
    <3>1. x \in 1 .. Len(q) /\ x \in 1 .. n
      BY <1>1, <2>1
    <3> QED
      BY <1>2, <1>3, <2>1, <3>1
  <2>2. CASE a # w
    BY <1>3, <2>2
  <2> QED
    BY <2>1, <2>2
<1>8. n \in DOMAIN wk'[w].cq /\ wk'[w].cq[n] = f
  BY <1>1, <1>2, <1>3
<1> HIDE DEF n
<1>9. QueuedOnce'
  BY <1>6 DEF QueuedOnce
<1>10. ASSUME NEW g PROVE InQueue(g)' <=> InQueue(g) \/ g = f
  BY <1>6, <1>7, <1>8 DEF InQueue, QueuedAt
<1> QED
  BY <1>3, <1>4, <1>9, <1>10

\* A worker takes a descriptor off its queue and makes a connection of it.
LEMMA ProcessFd ==
  ASSUME FdInv, NEW w \in Worker, thread_libevent_process(w)
  PROVE  FdInv'
<1> DEFINE f == Head(wk[w].cq)
           e == conn_new(conn[f], w)
<1>1. /\ wk[w].pipe > 0 /\ Driving(w) = {}
      /\ wk' = [wk EXCEPT ![w].pipe = @ - 1, ![w].cq = Tail(@)]
  BY DEF thread_libevent_process
<1>2. /\ f \in Fds /\ InQueue(f) /\ WkOk' /\ QueuedOnce'
      /\ \A g : InQueue(g)' <=> InQueue(g) /\ g # f
      /\ \A v \in Worker : wk'[v].fin = wk[v].fin
  BY <1>1, QueueTail DEF FdInv
<1>3. \/ /\ Become(f, e) /\ sock' = sock
         /\ lis' = [lis EXCEPT !.curr = @ + 1]
      \/ /\ UNCHANGED <<conn, lis>>
         /\ sock' = [sock EXCEPT ![f].open = FALSE, ![f].net = <<>>, ![f].todo = <<>>]
  BY DEF thread_libevent_process
<1> HIDE DEF f
<1>4. Closing' = Closing
  BY <1>2 DEF Closing
<1>5. f \notin OpenConns /\ sock[f].open = TRUE
  BY <1>2 DEF FdInv, OnePlace, SockType
<1>6. CASE /\ Become(f, e) /\ sock' = sock
           /\ lis' = [lis EXCEPT !.curr = @ + 1]
  <2>1. Driven(e) /\ e.own = w /\ e.run = FALSE
    BY DEF conn_new, NoConn, Driven, ConnFields
  <2> HIDE DEF e
  <2>2. conn' = [conn EXCEPT ![f] = e] /\ DOMAIN conn = Fds
    BY <1>6 DEF Become, FdInv, ConnOk
  <2>3. ConnOk'
    <3>1. conn'[f] = e /\ \A g \in Fds \ {f} : conn'[g] = conn[g]
      BY <1>2, <2>2
    <3> QED
      BY <2>1, <2>2, <3>1 DEF FdInv, ConnOk, Driven
  <2>4. SockType' /\ SameOpen
    BY <1>6, SockStays DEF FdInv
  <2>5. LisOk' /\ lis'.curr = lis.curr + 1
    BY <1>6 DEF FdInv, LisOk
  <2>6. OneDriven'
    BY <2>1, <2>2 DEF FdInv, OneDriven
  <2>7. OpenConns' = OpenConns \cup {f}
    BY <1>2, <2>1, <2>2 DEF OpenConns, Driven
  <2>8. OnePlace'
    BY <1>2, <1>5, <2>4, <2>7 DEF FdInv, OnePlace, SameOpen
  <2>9. Counted'
    <3>1. Cardinality(OpenConns') = Cardinality(OpenConns) + 1
      BY <1>5, <2>7, FdFinite, OneMore
    <3>2. Cardinality(OpenConns) \in Nat /\ Cardinality(Closing) \in Nat
      BY FdFinite, FS_CardinalityType
    <3> QED
      BY <1>4, <2>5, <3>1, <3>2 DEF FdInv, Counted
  <2> QED
    BY <1>2, <2>3, <2>4, <2>5, <2>6, <2>8, <2>9 DEF FdInv
<1>7. CASE /\ UNCHANGED <<conn, lis>>
           /\ sock' = [sock EXCEPT ![f].open = FALSE, ![f].net = <<>>, ![f].todo = <<>>]
  <2>1. ConnOk' /\ OneDriven' /\ OpenConns' = OpenConns
    BY <1>7 DEF FdInv, ConnOk, OneDriven, OpenConns, Driven
  <2>2. LisOk' /\ Counted'
    BY <1>4, <1>7, <2>1 DEF FdInv, LisOk, Counted
  <2>3. /\ SockType' /\ sock'[f].open = FALSE
        /\ \A g \in Fds \ {f} : sock'[g].open = sock[g].open
    BY <1>2, <1>7 DEF FdInv, SockType, SockFields
  <2>4. OnePlace'
    BY <1>2, <1>5, <2>1, <2>3 DEF FdInv, OnePlace
  <2> QED
    BY <1>2, <2>1, <2>2, <2>3, <2>4 DEF FdInv
<1> QED
  BY <1>3, <1>6, <1>7

(* The listener hands a free descriptor to the next worker.                *)
LEMMA DispatchFd ==
  ASSUME FdInv, NEW f \in Fds, ~sock[f].open, dispatch_conn_new(f), UNCHANGED conn
  PROVE  FdInv'
<1> DEFINE w == (lis.last + 1) % NWorkers
           s == [open |-> TRUE, todo |-> Stream, net |-> <<>>, eof |-> FALSE, wr |-> TRUE]
<1>1. /\ sock' = [sock EXCEPT ![f] = s]
      /\ cq_push(w, f)
      /\ lis' = [lis EXCEPT !.last = w, !.left = @ - 1]
  BY DEF dispatch_conn_new
<1>2. w \in Worker
  <2>1. lis.last \in Nat /\ NWorkers \in Nat /\ NWorkers > 0
    BY ConnAssumption DEF FdInv, LisOk, Worker
  <2> QED
    BY <2>1 DEF Worker
<1>3. ~InQueue(f) /\ f \notin OpenConns
  BY DEF FdInv, OnePlace
<1> HIDE DEF w
<1>4. /\ WkOk' /\ QueuedOnce'
      /\ \A g : InQueue(g)' <=> InQueue(g) \/ g = f
      /\ \A v \in Worker : wk'[v].fin = wk[v].fin
  BY <1>1, <1>2, <1>3, QueueAppend DEF FdInv
<1>5. ConnOk' /\ OneDriven' /\ OpenConns' = OpenConns
  BY DEF FdInv, ConnOk, OneDriven, OpenConns, Driven
<1>6. LisOk' /\ lis'.curr = lis.curr
  BY <1>1, <1>2 DEF FdInv, LisOk
<1>7. Counted'
  BY <1>4, <1>5, <1>6 DEF FdInv, Counted, Closing
<1>8. /\ SockType' /\ sock'[f].open = TRUE
      /\ \A g \in Fds \ {f} : sock'[g].open = sock[g].open
  <2>1. DOMAIN s = SockFields /\ s.open = TRUE
    BY DEF SockFields
  <2> HIDE DEF s
  <2> QED
    BY <1>1, <2>1 DEF FdInv, SockType
<1>9. OnePlace'
  BY <1>3, <1>4, <1>5, <1>8 DEF FdInv, OnePlace
<1> QED
  BY <1>4, <1>5, <1>6, <1>7, <1>8, <1>9 DEF FdInv

(* The other steps of the listener and of the clients.                     *)
LEMMA ElsewhereFd ==
  ASSUME FdInv, UNCHANGED <<conn, wk>>, SockType', SameOpen,
         LisOk', lis'.curr = lis.curr
  PROVE  FdInv'
<1>1. WkOk' /\ SameQueues
  BY DEF FdInv, WkOk, SameQueues
<1>2. Counted'
  BY DEF FdInv, Counted, OpenConns, Closing
<1> QED
  BY <1>1, <1>2, QuietFd

\* accept: the descriptor is dispatched, or refused and closed.
LEMMA AcceptFd ==
  ASSUME FdInv, Accept
  PROVE  FdInv'
<1>1. UNCHANGED conn
  BY DEF Accept
<1>2. CASE \E f \in Fds : ~sock[f].open /\ dispatch_conn_new(f)
  BY <1>1, <1>2, DispatchFd
<1>3. CASE /\ lis' = [lis EXCEPT !.left = @ - 1] \/ lis' = [lis EXCEPT !.pc = "emfile"]
           /\ UNCHANGED <<sock, wk>>
  <2>1. LisOk' /\ lis'.curr = lis.curr
    BY <1>3 DEF FdInv, LisOk
  <2>2. SockType' /\ SameOpen
    BY <1>3, SockStays DEF FdInv
  <2> QED
    BY <1>1, <1>3, <2>1, <2>2, ElsewhereFd
<1> QED
  BY <1>2, <1>3 DEF Accept

\* The listener's event and the timer that lets it listen again.
LEMMA ListenerFd ==
  ASSUME FdInv, do_accept_new_conns \/ maxconns_handler
  PROVE  FdInv'
<1>1. UNCHANGED <<conn, sock, wk>>
  BY DEF do_accept_new_conns, maxconns_handler
<1>2. LisOk' /\ lis'.curr = lis.curr
  BY DEF FdInv, LisOk, do_accept_new_conns, maxconns_handler
<1>3. SockType' /\ SameOpen
  BY <1>1, SockStays DEF FdInv
<1> QED
  BY <1>1, <1>2, <1>3, ElsewhereFd

\* What the clients do.
LEMMA ClientFd ==
  ASSUME FdInv, NEW f \in Fds, ClientSend(f) \/ ClientRecv(f) \/ ClientClose(f)
  PROVE  FdInv'
<1>1. UNCHANGED <<conn, wk, lis>>
  BY DEF ClientSend, ClientRecv, ClientClose, Still
<1>2. \/ \E x, y : sock' = [sock EXCEPT ![f].net = x, ![f].todo = y]
      \/ sock' = [sock EXCEPT ![f].wr = TRUE]
      \/ sock' = [sock EXCEPT ![f].eof = TRUE, ![f].todo = <<>>]
  BY DEF ClientSend, ClientRecv, ClientClose
<1>3. SockType' /\ SameOpen
  BY <1>2 DEF FdInv, SockType, SameOpen, SockFields
<1>4. LisOk' /\ lis'.curr = lis.curr
  BY <1>1 DEF FdInv, LisOk
<1> QED
  BY <1>1, <1>3, <1>4, ElsewhereFd

\* Every step of drive_machine but closing is a turn.
LEMMA DriveTurn ==
  ASSUME FdInv, NEW f \in Fds, DriveMachine(f), ~conn_close(f)
  PROVE  Turn(f)
<1>1. conn[f].run /\ conn[f].st # "closed"
  BY DEF DriveMachine, NewCmd, Waiting, try_read_network, try_read_command, Nread, Swallow,
         transmit
<1>2. Driven(conn[f]) /\ SockType
  BY <1>1 DEF FdInv, ConnOk
<1> QED
  BY <1>2, NewCmdTurn, WaitingTurn, ReadNetworkTurn, ReadCommandTurn, NreadTurn, SwallowTurn,
     TransmitTurn DEF DriveMachine

\* Every step keeps the invariant.
LEMMA FdStep == FdInv /\ [Next]_vars => FdInv'
<1> SUFFICES ASSUME FdInv, [Next]_vars PROVE FdInv'
  OBVIOUS
<1>1. ASSUME NEW f \in Fds, DriveMachine(f) PROVE FdInv'
  BY <1>1, CloseFd, DriveTurn, TurnFd
<1>2. ASSUME Server PROVE FdInv'
  BY <1>1, <1>2, EventFd, ProcessFd, CloseAllowFd, CloseCountFd, AcceptFd, ListenerFd DEF Server
<1>3. ASSUME Client \/ HangUp PROVE FdInv'
  BY <1>3, ClientFd DEF Client, HangUp
<1>4. ASSUME UNCHANGED vars PROVE FdInv'
  <2>1. UNCHANGED <<conn, sock, wk, lis>>
    BY <1>4 DEF vars
  <2>2. SockType' /\ SameOpen
    BY <2>1, SockStays DEF FdInv
  <2>3. LisOk' /\ lis'.curr = lis.curr
    BY <2>1 DEF FdInv, LisOk
  <2> QED
    BY <2>1, <2>2, <2>3, ElsewhereFd
<1> QED
  BY <1>2, <1>3, <1>4 DEF Next

(* Whatever the clients do and whichever calls fail: a descriptor is free, *)
(* in one queue, or open under one worker, a worker drives one connection, *)
(* and the listener's count is the connections that are open or closing.   *)
THEOREM DescriptorsOwned == Spec => []FdOwned
<1>1. Spec => []FdInv
  BY FdInit, FdStep, PTL DEF Spec
<1> QED
  BY <1>1, FdInvOwned, PTL

(***************************************************************************)
(* References and suffix buffers.  ASCII commands lose some when memory    *)
(* runs out in a get, or when a key of a gets is too long; so the theorem  *)
(* is about scenarios where that does not happen to an ASCII client.  A    *)
(* binary client may meet every failure.                                   *)
(***************************************************************************)

Spared(s) == s.prot = "ascii" \/ s.bind = "ascii" => ~s.oom /\ ~s.badkey

RefInv ==
  /\ Spared(conf)
  /\ \A f \in Fds : Accounted(conn[f])

\* The invariant implies the property.
LEMMA RefInvReleased == FdInv /\ RefInv => RefsReleased
<1> SUFFICES ASSUME FdInv, RefInv, NEW f \in Fds
             PROVE  LET c == conn[f]
                    IN  /\ c.refs = c.ileft + (IF c.item THEN 1 ELSE 0) /\ c.sufs = c.suf
                        /\ c.st \in {"waiting", "read", "parse_cmd", "closed"} =>
                             c.refs = 0 /\ c.sufs = 0
  BY DEF RefsReleased
<1> DEFINE c == conn[f]
<1>1. Held(c)
  BY DEF RefInv, Accounted
<1> HIDE DEF c
<1>2. c.refs = c.ileft + (IF c.item THEN 1 ELSE 0) /\ c.sufs = c.suf
  BY <1>1 DEF Held
<1>3. c.st \in {"waiting", "read", "parse_cmd", "closed"} => c.refs = 0 /\ c.sufs = 0
  BY <1>1, HoldsNothing DEF Empty
<1> QED
  BY <1>2, <1>3 DEF c

\* No connection has references at first.
LEMMA RefInit ==
  ASSUME Init, \A s \in Scenarios : Spared(s)
  PROVE  RefInv
<1>1. Spared(conf)
  BY DEF Init
<1>2. Held(NoConn)
  BY DEF NoConn, Held
<1>3. NoConn.prot = "none"
  BY DEF NoConn
<1>4. Accounted(NoConn)
  BY <1>1, <1>2, <1>3 DEF Accounted, Clean, Spared
<1> QED
  BY <1>1, <1>4 DEF Init, RefInv

(* One connection changes, and stays accounted for.                        *)
LEMMA RefOne ==
  ASSUME FdInv, RefInv, UNCHANGED conf, NEW f \in Fds, NEW e, conn' = [conn EXCEPT ![f] = e],
         Accounted(e)
  PROVE  RefInv'
<1>1. Spared(conf)'
  BY DEF RefInv, Spared
<1>2. ASSUME NEW c, Accounted(c) PROVE Held(c) /\ (c.prot = "ascii" \/ conf'.prot = "ascii" => ~conf'.oom /\ ~conf'.badkey)
  BY <1>2 DEF Accounted, Clean
<1>3. ASSUME NEW g \in Fds PROVE Accounted(conn[g])'
  <2>1. conn'[g] = e \/ conn'[g] = conn[g]
    BY DEF FdInv, ConnOk
  <2>2. Accounted(conn'[g])
    BY <2>1 DEF RefInv
  <2> QED
    BY <1>2, <2>2 DEF Accounted, Held, Clean
<1> QED
  BY <1>1, <1>3 DEF RefInv

\* Steps that leave all connections alone.
LEMMA RefSame ==
  ASSUME RefInv, UNCHANGED <<conf, conn>>
  PROVE  RefInv'
BY DEF RefInv, Spared, Accounted, Held, Clean

\* conn_close releases everything.
LEMMA RefClose ==
  ASSUME FdInv, RefInv, NEW f \in Fds, conn_close(f)
  PROVE  RefInv'
<1> DEFINE c == conn[f]
           e == Stop([conn_cleanup(c) EXCEPT !.st = "closed", !.ev = "none"])
<1>1. c.st = "closing" /\ conn' = [conn EXCEPT ![f] = e] /\ UNCHANGED conf
  BY DEF conn_close, Become
<1>2. Driven(c) /\ Accounted(c)
  BY <1>1 DEF FdInv, ConnOk, RefInv
<1>3. e.prot = c.prot /\ e.st = "closed" /\ Empty(e)
  BY <1>2, ReleasedRecord DEF Accounted
<1> HIDE DEF e
<1>4. Accounted(e)
  BY <1>2, <1>3 DEF Accounted, Clean, Empty, Held
<1> QED
  BY <1>1, <1>4, RefOne

\* An event takes nothing.
LEMMA RefEvent ==
  ASSUME FdInv, RefInv, NEW f \in Fds, event_handler(f)
  PROVE  RefInv'
<1> DEFINE c == conn[f]
           e == [c EXCEPT !.run = TRUE, !.nreqs = ReqsPerEvent]
<1>1. c.st # "closed" /\ conn' = [conn EXCEPT ![f] = e] /\ UNCHANGED conf
  BY DEF event_handler, Ready, Become, Still
<1>2. Driven(c) /\ Accounted(c)
  BY <1>1 DEF FdInv, ConnOk, RefInv
<1>3. e.prot = c.prot /\ e.st = c.st /\ e.sub = c.sub /\ SameRefs(c, e)
  BY <1>2 DEF Driven, ConnFields, SameRefs
<1> HIDE DEF e
<1>4. Accounted(e)
  BY <1>2, <1>3, HeldKept DEF Accounted, Clean
<1> QED
  BY <1>1, <1>4, RefOne

\* A new connection starts with nothing.
LEMMA RefProcess ==
  ASSUME FdInv, RefInv, NEW w \in Worker, thread_libevent_process(w)
  PROVE  RefInv'
<1> DEFINE f == Head(wk[w].cq)
           e == conn_new(conn[f], w)
<1>1. UNCHANGED conf /\ (conn' = conn \/ conn' = [conn EXCEPT ![f] = e])
  BY DEF thread_libevent_process, Become
<1>2. f \in Fds
  BY QueueTail DEF FdInv, thread_libevent_process
<1>3. Empty(e) /\ e.st = "new_cmd" /\ e.prot = conf.bind
  BY DEF conn_new, NoConn, Empty
<1> HIDE DEF f, e
<1>4. Held(e)
  BY <1>3 DEF Empty, Held
<1>5. Clean(e)
  BY <1>3 DEF RefInv, Spared, Clean
<1> QED
  BY <1>1, <1>2, <1>4, <1>5, RefOne, RefSame DEF Accounted

\* Every step keeps the invariant.
LEMMA RefStep == FdInv /\ RefInv /\ [Next]_vars => RefInv'
<1> SUFFICES ASSUME FdInv, RefInv, [Next]_vars PROVE RefInv'
  OBVIOUS
<1>1. ASSUME NEW f \in Fds, Turn(f) PROVE RefInv'
  <2>1. PICK e : conn' = [conn EXCEPT ![f] = e] /\ Turned(conn[f], e)
    BY <1>1 DEF Turn
  <2>2. Accounted(e) /\ UNCHANGED conf
    BY <1>1, <2>1 DEF Turn, Turned, RefInv
  <2> QED
    BY <2>1, <2>2, RefOne
<1>2. ASSUME NEW f \in Fds, DriveMachine(f) PROVE RefInv'
  BY <1>1, <1>2, RefClose, DriveTurn
<1>3. ASSUME NEW w \in Worker, CloseAllow(w) \/ CloseCount(w) PROVE RefInv'
  BY <1>3, RefSame DEF CloseAllow, CloseCount
<1>4. ASSUME Accept \/ do_accept_new_conns \/ maxconns_handler PROVE RefInv'
  BY <1>4, RefSame DEF Accept, do_accept_new_conns, maxconns_handler
<1>5. ASSUME Server PROVE RefInv'
  BY <1>2, <1>3, <1>4, <1>5, RefEvent, RefProcess DEF Server
<1>6. ASSUME Client \/ HangUp PROVE RefInv'
  BY <1>6, RefSame DEF Client, HangUp, ClientSend, ClientRecv, ClientClose, Still
<1>7. ASSUME UNCHANGED vars PROVE RefInv'
  BY <1>7, RefSame DEF vars
<1> QED
  BY <1>5, <1>6, <1>7 DEF Next

(* No handler of either protocol loses track of an item reference or of a  *)
(* suffix buffer, and none is held while a connection waits for a command  *)
(* or after it has closed; as long as no ASCII client meets a failed       *)
(* allocation or sends a key that is too long.                             *)
THEOREM ReferencesReleased ==
  ASSUME \A s \in Scenarios : Spared(s)
  PROVE  Spec => []RefsReleased
<1>1. Init => FdInv /\ RefInv
  BY FdInit, RefInit
<1>2. (FdInv /\ RefInv) /\ [Next]_vars => (FdInv /\ RefInv)'
  BY FdStep, RefStep
<1>3. FdInv /\ RefInv => RefsReleased
  BY RefInvReleased
<1> QED
  BY <1>1, <1>2, <1>3, PTL DEF Spec


(***************************************************************************)
(* The stream and the parser.  Where the commands of a script begin and    *)
(* end in the stream of units.                                             *)
(***************************************************************************)

Units == [i : Nat, p : {"h", "e", "k", "v"}]

\* r is a, of length l, followed by b, of length m.
Joins(r, a, l, b, m) ==
  /\ \A x \in 1 .. l : r[x] = a[x]
  /\ \A x \in 1 .. m : r[l + x] = b[x]
  /\ \A x \in l + 1 .. l + m : r[x] = b[x - l]

\* What concatenation gives.
LEMMA Joined ==
  ASSUME NEW S, NEW a \in Seq(S), NEW b \in Seq(S), NEW l \in Nat, Len(a) = l,
         NEW m \in Nat, Len(b) = m
  PROVE  a \o b \in Seq(S) /\ Len(a \o b) = l + m /\ Joins(a \o b, a, l, b, m)
<1> DEFINE r == a \o b
<1>1. /\ r \in Seq(S) /\ Len(r) = l + m
      /\ \A i \in 1 .. l + m : r[i] = IF i <= l THEN a[i] ELSE b[i - l]
  BY ConcatProperties
<1> HIDE DEF r
<1>2. Joins(r, a, l, b, m)
  BY ONLY <1>1, l \in Nat, m \in Nat DEF Joins
<1> QED
  BY <1>1, <1>2 DEF r

\* A sequence is empty when its length is zero.
LEMMA NonEmpty ==
  ASSUME NEW S, NEW s \in Seq(S)
  PROVE  Len(s) \in Nat /\ (s = <<>> <=> Len(s) = 0)
BY EmptySeq

\* The first l of s are units of command j, and only the very first is a header.
Begun(j, s, l) == \A x \in 1 .. l : s[x].i = j /\ (s[x].p = "h" <=> x = 1)

\* More units of the command.
LEMMA MoreUnits ==
  ASSUME NEW j \in Nat, NEW l \in Nat \ {0}, NEW n \in Nat, NEW s, NEW t, NEW r,
         Begun(j, s, l), NEW p, p # "h", \A x \in 1 .. n : t[x] = [i |-> j, p |-> p],
         Joins(r, s, l, t, n)
  PROVE  Begun(j, r, l + n)
<1> SUFFICES ASSUME NEW x \in 1 .. l + n
             PROVE  r[x].i = j /\ (r[x].p = "h" <=> x = 1)
  BY DEF Begun
<1>1. CASE x \in 1 .. l
  BY <1>1 DEF Begun, Joins
<1>2. CASE x \in l + 1 .. l + n
  <2>1. x - l \in 1 .. n /\ x # 1
    BY <1>2
  <2>2. r[x] = [i |-> j, p |-> p]
    BY <1>2, <2>1 DEF Joins
  <2> QED
    BY <2>1, <2>2
<1> QED
  BY <1>1, <1>2

\* Unit makes a sequence of its units.
LEMMA UnitIs ==
  ASSUME NEW j \in Nat, NEW p \in {"h", "e", "k", "v"}, NEW n \in Nat
  PROVE  /\ Unit(j, p, n) \in Seq(Units) /\ Len(Unit(j, p, n)) = n
         /\ \A x \in 1 .. n : Unit(j, p, n)[x] = [i |-> j, p |-> p]
BY DEF Unit, Units

\* So does appending the units of one part of a command.
LEMMA UnitsAdded ==
  ASSUME NEW j \in Nat, NEW l \in Nat \ {0}, NEW s \in Seq(Units), Len(s) = l, Begun(j, s, l),
         NEW p \in {"e", "k", "v"}, NEW n \in Nat
  PROVE  LET r == s \o Unit(j, p, n)
         IN  r \in Seq(Units) /\ Len(r) = l + n /\ Begun(j, r, l + n)
<1> DEFINE t == Unit(j, p, n)
<1>1. t \in Seq(Units) /\ Len(t) = n /\ \A x \in 1 .. n : t[x] = [i |-> j, p |-> p]
  <2>1. p \in {"h", "e", "k", "v"}
    OBVIOUS
  <2> QED
    BY <2>1, UnitIs, Zenon
<1> HIDE DEF t
<1>2. s \o t \in Seq(Units) /\ Len(s \o t) = l + n /\ Joins(s \o t, s, l, t, n)
  BY <1>1, Joined
<1>3. Begun(j, s \o t, l + n)
  BY <1>1, <1>2, MoreUnits
<1> QED
  BY <1>2, <1>3 DEF t

\* The units of a command: header first, and nowhere else.
LEMMA EncodeUnits ==
  ASSUME NEW j \in Nat, NEW q, q.key \in Nat, q.n \in Nat
  PROVE  /\ Encode(j, q) \in Seq(Units) /\ Len(Encode(j, q)) = 2 + q.key + q.n
         /\ Begun(j, Encode(j, q), 2 + q.key + q.n)
<1> DEFINE h == Unit(j, "h", 1)
           a == h \o Unit(j, "e", 1)
           b == a \o Unit(j, "k", q.key)
           e == b \o Unit(j, "v", q.n)
<1>1. h \in Seq(Units) /\ Len(h) = 1 /\ Begun(j, h, 1)
  <2>1. "h" \in {"h", "e", "k", "v"} /\ 1 \in Nat
    OBVIOUS
  <2>2. h \in Seq(Units) /\ Len(h) = 1 /\ \A x \in 1 .. 1 : h[x] = [i |-> j, p |-> "h"]
    BY <2>1, UnitIs, Zenon
  <2> HIDE DEF h
  <2> QED
    BY <2>2 DEF Begun
<1>2. Encode(j, q) = e
  BY DEF Encode
<1> HIDE DEF h
<1>6. /\ "e" \in {"e", "k", "v"} /\ "k" \in {"e", "k", "v"} /\ "v" \in {"e", "k", "v"}
      /\ 1 \in Nat /\ 1 \in Nat \ {0} /\ 1 + 1 = 2 /\ 2 \in Nat \ {0} /\ 2 + q.key \in Nat \ {0}
  OBVIOUS
<1>3. a \in Seq(Units) /\ Len(a) = 1 + 1 /\ Begun(j, a, 1 + 1)
  BY <1>1, <1>6, UnitsAdded, Zenon
<1> HIDE DEF a
<1>7. a \in Seq(Units) /\ Len(a) = 2 /\ Begun(j, a, 2)
  BY <1>3, <1>6
<1>4. b \in Seq(Units) /\ Len(b) = 2 + q.key /\ Begun(j, b, 2 + q.key)
  BY <1>6, <1>7, UnitsAdded, Zenon
<1> HIDE DEF b
<1>5. e \in Seq(Units) /\ Len(e) = 2 + q.key + q.n /\ Begun(j, e, 2 + q.key + q.n)
  BY <1>4, <1>6, UnitsAdded, Zenon
<1> QED
  BY <1>2, <1>5

\* A set of numbers has a least one.
LEMMA LeastOne ==
  ASSUME NEW T, T \subseteq Nat, T # {}
  PROVE  \E x \in T : \A y \in T : x <= y
<1> DEFINE less == OpToRel(<, Nat)
<1>1. IsWellFoundedOn(less, Nat)
  BY NatLessThanWellFounded, Zenon
<1>2. \A x, y \in Nat : y < x => <<y, x>> \in less
  BY DEF OpToRel
<1> HIDE DEF less
<1>3. PICK x \in T : \A y \in T : <<y, x>> \notin less
  BY <1>1, WFMin
<1>4. ASSUME NEW y \in T, ~(x <= y) PROVE FALSE
  <2>1. x \in Nat /\ y \in Nat /\ y < x
    BY <1>4
  <2> QED
    BY <1>2, <1>3, <2>1
<1> QED
  BY <1>4

\* The recursive function that FlattenSeq is defined by, for the first n sequences.
Flattens(seqs, n, g) ==
  g = [i \in 1 .. n |-> IF i = 1 THEN seqs[i] ELSE g[i - 1] \o seqs[i]]

\* There is one.
LEMMA FlattenExists ==
  ASSUME NEW seqs, NEW n \in Nat
  PROVE  \E g : Flattens(seqs, n, g)
<1> DEFINE T == {m \in Nat : ~\E g : Flattens(seqs, m, g)}
<1>1. SUFFICES ASSUME T # {} PROVE FALSE
  OBVIOUS
<1>2. PICK m \in T : \A y \in T : m <= y
  BY <1>1, LeastOne
<1>3. CASE m = 0
  <2>1. Flattens(seqs, 0, <<>>)
    BY DEF Flattens
  <2> QED
    BY <1>2, <1>3, <2>1
<1>4. CASE m # 0
  <2>1. m - 1 \in Nat /\ m - 1 \notin T
    BY <1>2, <1>4
  <2>2. PICK g : Flattens(seqs, m - 1, g)
    BY <2>1
  <2> DEFINE h == [i \in 1 .. m |-> IF i < m THEN g[i]
                                    ELSE IF i = 1 THEN seqs[i] ELSE g[i - 1] \o seqs[i]]
  <2>3. ASSUME NEW i \in 1 .. m
        PROVE  h[i] = IF i = 1 THEN seqs[i] ELSE h[i - 1] \o seqs[i]
    <3>1. CASE i < m
      <4>1. i \in 1 .. m - 1 /\ g[i] = IF i = 1 THEN seqs[i] ELSE g[i - 1] \o seqs[i]
        <5>1. i \in 1 .. m - 1
          BY <1>2, <3>1
        <5> QED
          BY <2>2, <5>1 DEF Flattens
      <4>2. i # 1 => h[i - 1] = g[i - 1]
        BY <3>1
      <4> QED
        BY <3>1, <4>1, <4>2
    <3>2. CASE i = m
      BY <3>2
    <3> QED
      BY <3>1, <3>2
  <2>4. h = [i \in 1 .. m |-> h[i]]
    OBVIOUS
  <2> HIDE DEF h
  <2>5. Flattens(seqs, m, h)
    BY <2>3, <2>4 DEF Flattens
  <2> QED
    BY <1>2, <2>5
<1> QED
  BY <1>3, <1>4

\* FlattenSeq is its last value.
LEMMA FlattenIs ==
  ASSUME NEW seqs, Len(seqs) \in Nat \ {0}
  PROVE  \E g : Flattens(seqs, Len(seqs), g) /\ FlattenSeq(seqs) = g[Len(seqs)]
<1> DEFINE F == CHOOSE g : Flattens(seqs, Len(seqs), g)
<1>1. Flattens(seqs, Len(seqs), F)
  BY FlattenExists
<1>2. FlattenSeq(seqs) = F[Len(seqs)]
  BY DEF FlattenSeq, Flattens
<1> QED
  BY <1>1, <1>2


\* The first k commands of a script lie in s, command j up to off[j].
Laid(s, off, k) ==
  /\ \A j \in 0 .. k : off[j] \in Nat /\ off[j] <= off[k]
  /\ \A j \in 1 .. k : \A x \in off[j - 1] + 1 .. off[j] :
       s[x].i = j /\ (s[x].p = "h" <=> x = off[j - 1] + 1)
  /\ \A x \in 1 .. off[k] : s[x].i \in 1 .. k /\ off[s[x].i - 1] < x /\ x <= off[s[x].i]

\* One more command.
LEMMA LaidMore ==
  ASSUME NEW k \in Nat, k > 0, NEW off, NEW s, NEW t, NEW r, NEW m \in Nat, Laid(s, off, k - 1),
         off[k] = off[k - 1] + m, Joins(r, s, off[k - 1], t, m), Begun(k, t, m)
  PROVE  Laid(r, off, k)
<1> DEFINE l == off[k - 1]
<1>1. l \in Nat /\ off[k] = l + m /\ k - 1 \in 0 .. k - 1
  BY DEF Laid
<1>2. ASSUME NEW j \in 0 .. k PROVE off[j] \in Nat /\ off[j] <= off[k]
  <2>1. CASE j = k
    BY <1>1, <2>1
  <2>2. CASE j # k
    <3>1. j \in 0 .. k - 1
      BY <2>2
    <3>2. off[j] \in Nat /\ off[j] <= l
      BY <3>1 DEF Laid
    <3> QED
      BY <1>1, <3>2
  <2> QED
    BY <2>1, <2>2
<1>3. ASSUME NEW x \in 1 .. l PROVE r[x] = s[x]
  BY <1>3 DEF Joins
<1>4. ASSUME NEW x \in l + 1 .. l + m
      PROVE  r[x].i = k /\ (r[x].p = "h" <=> x = l + 1)
  <2>1. x - l \in 1 .. m /\ r[x] = t[x - l] /\ (x - l = 1 <=> x = l + 1)
    BY <1>1, <1>4 DEF Joins
  <2> QED
    BY <2>1 DEF Begun
<1>5. ASSUME NEW j \in 1 .. k, NEW x \in off[j - 1] + 1 .. off[j]
      PROVE  r[x].i = j /\ (r[x].p = "h" <=> x = off[j - 1] + 1)
  <2>1. CASE j = k
    BY <1>1, <1>4, <1>5, <2>1
  <2>2. CASE j # k
    <3>1. j \in 1 .. k - 1 /\ j \in 0 .. k - 1 /\ j - 1 \in 0 .. k - 1
      BY <2>2
    <3>2. s[x].i = j /\ (s[x].p = "h" <=> x = off[j - 1] + 1)
      BY <1>5, <3>1 DEF Laid
    <3>3. off[j - 1] \in Nat /\ off[j] \in Nat /\ off[j] <= l
      BY <3>1 DEF Laid
    <3>4. x \in 1 .. l
      BY ONLY <1>1, <1>5, <3>3
    <3> QED
      BY <1>3, <3>2, <3>4
  <2> QED
    BY <2>1, <2>2
<1>6. ASSUME NEW x \in 1 .. off[k]
      PROVE  r[x].i \in 1 .. k /\ off[r[x].i - 1] < x /\ x <= off[r[x].i]
  <2>1. CASE x \in 1 .. l
    <3>1. r[x] = s[x]
      BY <1>3, <2>1
    <3>2. s[x].i \in 1 .. k - 1 /\ off[s[x].i - 1] < x /\ x <= off[s[x].i]
      BY <2>1 DEF Laid
    <3>3. s[x].i \in 1 .. k
      BY <3>2
    <3> QED
      BY <3>1, <3>2, <3>3
  <2>2. CASE x \in l + 1 .. l + m
    <3>1. r[x].i = k /\ l < x /\ x <= l + m
      BY <1>1, <1>4, <2>2
    <3> QED
      BY <1>1, <3>1
  <2>3. x \in 1 .. l \/ x \in l + 1 .. l + m
    BY <1>1, <1>6
  <2> QED
    BY <2>1, <2>2, <2>3
<1> QED
  BY <1>2, <1>5, <1>6 DEF Laid

\* The stream of a script, and where its commands end.
Bytes(script) == FlattenSeq([j \in DOMAIN script |-> Encode(j, script[j])])

Ends(script, off) ==
  /\ off \in [0 .. Len(script) -> Nat] /\ off[0] = 0
  /\ \A k \in 1 .. Len(script) : off[k] = off[k - 1] + (2 + script[k].key + script[k].n)
  /\ Bytes(script) \in Seq(Units) /\ Len(Bytes(script)) = off[Len(script)]
  /\ Laid(Bytes(script), off, Len(script))

\* Every script has such ends.
LEMMA EndsExist ==
  ASSUME NEW script, script \in Seq(Range(script)),
         \A j \in DOMAIN script : script[j].key \in Nat /\ script[j].n \in Nat
  PROVE  \E off : Ends(script, off)
<1> DEFINE n == Len(script)
           seqs == [j \in DOMAIN script |-> Encode(j, script[j])]
           z(k) == 2 + script[k].key + script[k].n
<1>1. n \in Nat /\ DOMAIN script = 1 .. n
  OBVIOUS
<1>2. Len(seqs) = n
  BY <1>1
<1>3. ASSUME NEW k \in 1 .. n
      PROVE  /\ seqs[k] \in Seq(Units) /\ Len(seqs[k]) = z(k) /\ z(k) \in Nat /\ z(k) > 0
             /\ Begun(k, seqs[k], z(k))
  <2>1. seqs[k] = Encode(k, script[k]) /\ script[k].key \in Nat /\ script[k].n \in Nat /\ k \in Nat
    BY <1>1
  <2> QED
    BY <2>1, EncodeUnits
<1>4. Bytes(script) = FlattenSeq(seqs)
  BY DEF Bytes
<1> HIDE DEF n, seqs, z
<1>5. CASE n = 0
  <2> DEFINE off == [k \in 0 .. 0 |-> 0]
  <2>1. Bytes(script) = seqs
    BY <1>2, <1>4, <1>5 DEF FlattenSeq
  <2>2. seqs \in Seq(Units)
    <3>1. seqs = [j \in 1 .. 0 |-> Encode(j, script[j])]
      BY <1>1, <1>5 DEF seqs
    <3>2. \A j \in 1 .. 0 : Encode(j, script[j]) \in Units
      OBVIOUS
    <3> QED
      BY <3>1, <3>2, IsASeq
  <2>3. off[0] = 0 /\ off \in [0 .. n -> Nat] /\ 1 .. n = {} /\ 0 .. n = {0}
    BY <1>5
  <2> HIDE DEF off
  <2>4. Laid(seqs, off, n)
    BY <1>5, <2>3 DEF Laid
  <2> QED
    BY <1>2, <1>5, <2>1, <2>2, <2>3, <2>4 DEF Ends, n
<1>6. CASE n # 0
  <2>1. PICK g : Flattens(seqs, n, g) /\ FlattenSeq(seqs) = g[n]
    BY <1>1, <1>2, <1>6, FlattenIs
  <2> DEFINE off == [k \in 0 .. n |-> IF k = 0 THEN 0 ELSE Len(g[k])]
             Fine(k) == /\ g[k] \in Seq(Units) /\ off[k] = off[k - 1] + z(k)
                        /\ Laid(g[k], off, k)
             T == {k \in 1 .. n : ~Fine(k)}
  <2>2. off[0] = 0 /\ \A k \in 1 .. n : off[k] = Len(g[k])
    BY <1>1
  <2>3. DOMAIN off = 0 .. n
    OBVIOUS
  <2>4. /\ n > 0 => g[1] = seqs[1]
        /\ \A k \in 1 .. n : k # 1 => g[k] = g[k - 1] \o seqs[k]
    <3>1. \A k \in 1 .. n : g[k] = IF k = 1 THEN seqs[k] ELSE g[k - 1] \o seqs[k]
      BY <2>1 DEF Flattens
    <3>2. n > 0 => 1 \in 1 .. n
      BY <1>1
    <3> QED
      BY <3>1, <3>2
  <2> HIDE DEF off, Fine
  <2>5. ASSUME NEW k \in 1 .. n, k = 1 \/ Fine(k - 1)
        PROVE  Fine(k)
    <3>0. k \in Nat /\ k > 0 /\ off[k] = Len(g[k])
      BY <1>1, <2>2
    <3>1. CASE k = 1
      <4>1. g[k] = seqs[k] /\ off[k] = 0 + z(k) /\ off[k - 1] = 0
        BY <1>1, <1>3, <2>2, <2>4, <3>0, <3>1
      <4>2. Joins(seqs[k], <<>>, 0, seqs[k], z(k))
        BY <1>3 DEF Joins
      <4>3. Laid(<<>>, off, 0)
        BY <2>2 DEF Laid
      <4>4. Laid(g[k], off, k)
        BY <1>3, <3>0, <3>1, <4>1, <4>2, <4>3, LaidMore
      <4> QED
        BY <1>3, <4>1, <4>4 DEF Fine
    <3>2. CASE k # 1
      <4> DEFINE a == g[k - 1]
                 b == seqs[k]
                 l == off[k - 1]
                 m == z(k)
      <4>1. /\ k - 1 \in 1 .. n /\ a \in Seq(Units) /\ Laid(a, off, k - 1)
            /\ l = Len(a) /\ g[k] = a \o b
        <5>1. k - 1 \in 1 .. n /\ k \in 1 .. n
          BY <1>1, <3>0, <3>2
        <5>2. Fine(k - 1)
          BY <2>5, <3>2
        <5>3. g[k] = a \o b
          BY <2>4, <3>2, <5>1
        <5>4. l = Len(a)
          BY <2>2, <5>1
        <5> QED
          BY <5>1, <5>2, <5>3, <5>4 DEF Fine
      <4>2. b \in Seq(Units) /\ Len(b) = m /\ m \in Nat /\ l \in Nat /\ Begun(k, b, m)
        BY <1>3, <4>1
      <4> HIDE DEF a, b, l, m
      <4>3. a \o b \in Seq(Units) /\ Len(a \o b) = l + m /\ Joins(a \o b, a, l, b, m)
        BY <4>1, <4>2, Joined
      <4>4. g[k] \in Seq(Units) /\ off[k] = l + m /\ Joins(g[k], a, l, b, m)
        BY <3>0, <4>1, <4>3
      <4>5. Laid(g[k], off, k)
        BY <3>0, <4>1, <4>2, <4>4, LaidMore DEF l
      <4> QED
        BY <4>4, <4>5 DEF Fine, l, m
    <3> QED
      BY <3>1, <3>2
  <2>6. ASSUME T # {} PROVE FALSE
    <3>1. T \subseteq Nat
      BY <1>1
    <3>2. PICK k \in T : \A y \in T : k <= y
      BY <2>6, <3>1, LeastOne
    <3>3. k \in 1 .. n /\ ~Fine(k)
      BY <3>2
    <3>4. k # 1 => k - 1 \in 1 .. n /\ ~(k <= k - 1)
      BY <1>1, <3>3
    <3>5. k # 1 => Fine(k - 1)
      BY <3>2, <3>4
    <3> QED
      BY <2>5, <3>3, <3>5
  <2>7. \A k \in 1 .. n : Fine(k)
    BY <2>6
  <2>8. Bytes(script) = g[n] /\ n \in 1 .. n
    BY <1>1, <1>4, <1>6, <2>1
  <2>9. /\ g[n] \in Seq(Units) /\ Len(g[n]) = off[n] /\ Laid(g[n], off, n)
        /\ \A k \in 1 .. n : off[k] = off[k - 1] + z(k)
    BY <2>2, <2>7, <2>8 DEF Fine
  <2>10. off \in [0 .. n -> Nat]
    <3>1. off = [k \in 0 .. n |-> off[k]]
      BY DEF off
    <3>2. \A k \in 0 .. n : off[k] \in Nat
      BY <2>9 DEF Laid
    <3> QED
      BY <3>1, <3>2
  <2> QED
    BY <2>2, <2>8, <2>9, <2>10 DEF Ends, n, z
<1> QED
  BY <1>5, <1>6


\* s is the piece of the stream behind its first p units.
Piece(str, s, p) == p + Len(s) <= Len(str) /\ \A x \in 1 .. Len(s) : s[x] = str[p + x]

\* The first k units of a piece, and the others.
LEMMA PieceSplit ==
  ASSUME NEW str \in Seq(Units), NEW s \in Seq(Units), NEW p \in Nat, Piece(str, s, p),
         NEW k \in 0 .. Len(s)
  PROVE  /\ SubSeq(s, 1, k) \in Seq(Units) /\ Len(SubSeq(s, 1, k)) = k
         /\ Piece(str, SubSeq(s, 1, k), p)
         /\ SubSeq(s, k + 1, Len(s)) \in Seq(Units) /\ Len(SubSeq(s, k + 1, Len(s))) = Len(s) - k
         /\ Piece(str, SubSeq(s, k + 1, Len(s)), p + k)
<1> DEFINE l == Len(s)
           n == Len(str)
           a == SubSeq(s, 1, k)
           b == SubSeq(s, k + 1, l)
<1>1. l \in Nat /\ n \in Nat /\ k \in Nat /\ k <= l
  OBVIOUS
<1>2. a \in Seq(Units) /\ Len(a) = k /\ \A x \in 1 .. k : a[x] = s[x]
  <2>1. Len(a) = k /\ \A x \in 1 .. k : a[x] = s[1 + x - 1]
    BY <1>1, SubSeqProperties
  <2> QED
    BY <1>1, <2>1, SubSeqProperties
<1>3. b \in Seq(Units) /\ Len(b) = l - k /\ \A x \in 1 .. l - k : b[x] = s[k + x]
  <2>1. Len(b) = l - k /\ \A x \in 1 .. l - k : b[x] = s[(k + 1) + x - 1]
    BY <1>1, SubSeqProperties
  <2> QED
    BY <1>1, <2>1, SubSeqProperties
<1>4. p + l <= n /\ \A x \in 1 .. l : s[x] = str[p + x]
  BY DEF Piece
<1> HIDE DEF a, b, l, n
<1>5. Piece(str, a, p)
  <2>1. ASSUME NEW x \in 1 .. k PROVE a[x] = str[p + x]
    <3>1. x \in 1 .. l
      BY <1>1
    <3> QED
      BY <1>2, <1>4, <3>1
  <2>2. p + k <= n
    BY <1>1, <1>4
  <2> QED
    BY <1>2, <2>1, <2>2 DEF Piece, n
<1>6. Piece(str, b, p + k)
  <2>1. ASSUME NEW x \in 1 .. l - k PROVE b[x] = str[(p + k) + x]
    <3>1. k + x \in 1 .. l /\ p + (k + x) = (p + k) + x
      BY <1>1
    <3> QED
      BY <1>3, <1>4, <3>1
  <2> QED
    BY <1>1, <1>3, <1>4, <2>1 DEF Piece, n
<1> QED
  BY <1>2, <1>3, <1>5, <1>6 DEF a, b, l

\* Two pieces, one behind the other.
LEMMA PieceJoin ==
  ASSUME NEW str \in Seq(Units), NEW a \in Seq(Units), NEW b \in Seq(Units), NEW p \in Nat,
         Piece(str, a, p), Piece(str, b, p + Len(a))
  PROVE  /\ a \o b \in Seq(Units) /\ Len(a \o b) = Len(a) + Len(b)
         /\ Piece(str, a \o b, p)
<1> DEFINE l == Len(a)
           m == Len(b)
           n == Len(str)
           r == a \o b
<1>1. l \in Nat /\ m \in Nat /\ n \in Nat
  OBVIOUS
<1>2. r \in Seq(Units) /\ Len(r) = l + m /\ Joins(r, a, l, b, m)
  BY <1>1, Joined
<1>3. /\ \A x \in 1 .. l : a[x] = str[p + x]
      /\ (p + l) + m <= n /\ \A x \in 1 .. m : b[x] = str[(p + l) + x]
  BY DEF Piece
<1> HIDE DEF l, m, n, r
<1>4. ASSUME NEW x \in 1 .. l + m PROVE r[x] = str[p + x]
  <2>1. CASE x \in 1 .. l
    BY <1>2, <1>3, <2>1 DEF Joins
  <2>2. CASE x \in l + 1 .. l + m
    <3>1. x - l \in 1 .. m /\ (p + l) + (x - l) = p + x
      BY <1>1, <2>2
    <3>2. r[x] = b[x - l]
      BY <1>2, <2>2 DEF Joins
    <3> QED
      BY <1>3, <3>1, <3>2
  <2> QED
    BY <1>1, <2>1, <2>2
<1>5. Piece(str, r, p)
  BY <1>1, <1>2, <1>3, <1>4 DEF Piece, n
<1> QED
  BY <1>2, <1>5 DEF l, m, r


\* The read buffer, the kernel's buffer and what the client still sends are the
\* stream behind its first p units, to the end unless the client has hung up.
Placed(str, b, net, todo, eof, p) ==
  /\ b \in Seq(Units) /\ net \in Seq(Units) /\ todo \in Seq(Units) /\ p \in Nat
  /\ Piece(str, b, p) /\ Piece(str, net, p + Len(b)) /\ Piece(str, todo, p + Len(b) + Len(net))
  /\ ~eof => p + Len(b) + Len(net) + Len(todo) = Len(str)

\* The client sends a unit.
LEMMA PlacedSend ==
  ASSUME NEW str \in Seq(Units), NEW b, NEW net, NEW todo, NEW eof, NEW p,
         Placed(str, b, net, todo, eof, p), todo # <<>>
  PROVE  Placed(str, b, Append(net, Head(todo)), Tail(todo), eof, p)
<1> DEFINE net1 == Append(net, Head(todo))
           todo1 == Tail(todo)
           n == Len(str)
           q == p + Len(b)
           l == Len(net)
           m == Len(todo)
<1>1. /\ b \in Seq(Units) /\ net \in Seq(Units) /\ todo \in Seq(Units) /\ p \in Nat
      /\ Len(b) \in Nat /\ q \in Nat /\ l \in Nat /\ m \in Nat /\ n \in Nat
  BY DEF Placed
<1>2. m # 0
  BY ONLY todo # <<>>, <1>1, NonEmpty, Zenon
<1>3. /\ Head(todo) \in Units /\ Head(todo) = todo[1] /\ todo1 \in Seq(Units) /\ Len(todo1) = m - 1
      /\ \A i \in 1 .. m - 1 : todo1[i] = todo[i + 1]
  BY <1>1, HeadTailProperties
<1>4. /\ net1 \in Seq(Units) /\ Len(net1) = l + 1
      /\ \A i \in 1 .. l : net1[i] = net[i]
      /\ net1[l + 1] = todo[1]
  BY <1>1, <1>3, AppendProperties
<1>5. /\ q + l <= n /\ \A x \in 1 .. l : net[x] = str[q + x]
      /\ (q + l) + m <= n /\ \A x \in 1 .. m : todo[x] = str[(q + l) + x]
      /\ Piece(str, b, p) /\ (~eof => q + l + m = n)
  BY DEF Placed, Piece
<1> HIDE DEF net1, todo1, n, q, l, m
<1>6. Piece(str, net1, q)
  <2>1. ASSUME NEW x \in 1 .. l + 1 PROVE net1[x] = str[q + x]
    <3>1. CASE x \in 1 .. l
      BY <1>4, <1>5, <3>1
    <3>2. CASE x = l + 1
      <4>1. 1 \in 1 .. m /\ (q + l) + 1 = q + x
        BY <1>1, <1>2, <3>2
      <4> QED
        BY <1>4, <1>5, <3>2, <4>1
    <3> QED
      BY <1>1, <3>1, <3>2
  <2>2. q + (l + 1) <= n
    BY <1>1, <1>2, <1>5
  <2> QED
    BY <1>4, <2>1, <2>2 DEF Piece, n
<1>7. Piece(str, todo1, q + (l + 1))
  <2>1. ASSUME NEW x \in 1 .. m - 1 PROVE todo1[x] = str[(q + (l + 1)) + x]
    <3>1. x + 1 \in 1 .. m /\ (q + l) + (x + 1) = (q + (l + 1)) + x
      BY <1>1, <1>2
    <3> QED
      BY <1>3, <1>5, <3>1
  <2>2. (q + (l + 1)) + (m - 1) <= n
    BY <1>1, <1>2, <1>5
  <2> QED
    BY <1>3, <2>1, <2>2 DEF Piece, n
<1>8. ~eof => q + (l + 1) + (m - 1) = n
  BY <1>1, <1>5
<1> QED
  BY <1>1, <1>3, <1>4, <1>5, <1>6, <1>7, <1>8 DEF Placed, q, n, net1, todo1

\* The server reads k units.
LEMMA PlacedRead ==
  ASSUME NEW str \in Seq(Units), NEW b, NEW net, NEW todo, NEW eof, NEW p,
         Placed(str, b, net, todo, eof, p), NEW k \in 0 .. Len(net)
  PROVE  Placed(str, b \o SubSeq(net, 1, k), SubSeq(net, k + 1, Len(net)), todo, eof, p)
<1> DEFINE q == p + Len(b)
           u == SubSeq(net, 1, k)
           v == SubSeq(net, k + 1, Len(net))
<1>1. /\ b \in Seq(Units) /\ net \in Seq(Units) /\ todo \in Seq(Units) /\ p \in Nat
      /\ Len(b) \in Nat /\ q \in Nat /\ Len(net) \in Nat /\ Len(todo) \in Nat /\ Len(str) \in Nat
      /\ k \in Nat
  BY DEF Placed
<1>2. /\ Piece(str, b, p) /\ Piece(str, net, q) /\ Piece(str, todo, q + Len(net))
      /\ ~eof => q + Len(net) + Len(todo) = Len(str)
  BY DEF Placed
<1>3. /\ u \in Seq(Units) /\ Len(u) = k /\ Piece(str, u, q)
      /\ v \in Seq(Units) /\ Len(v) = Len(net) - k /\ Piece(str, v, q + k)
  BY <1>1, <1>2, PieceSplit
<1> HIDE DEF u, v
<1>4. /\ b \o u \in Seq(Units) /\ Len(b \o u) = Len(b) + Len(u)
      /\ Piece(str, b \o u, p)
  BY <1>1, <1>2, <1>3, PieceJoin DEF q
<1>5. p + Len(b \o u) = q + k /\ (p + Len(b \o u)) + Len(v) = q + Len(net)
  BY <1>1, <1>3, <1>4
<1> HIDE DEF q
<1> QED
  BY <1>1, <1>2, <1>3, <1>4, <1>5 DEF Placed, u, v

\* k units of the buffer are taken.
LEMMA PlacedTake ==
  ASSUME NEW str \in Seq(Units), NEW b, NEW net, NEW todo, NEW eof, NEW p,
         Placed(str, b, net, todo, eof, p), NEW k \in 0 .. Len(b)
  PROVE  /\ Placed(str, SubSeq(b, k + 1, Len(b)), net, todo, eof, p + k)
         /\ Len(SubSeq(b, k + 1, Len(b))) = Len(b) - k
<1> DEFINE v == SubSeq(b, k + 1, Len(b))
<1>1. /\ b \in Seq(Units) /\ net \in Seq(Units) /\ todo \in Seq(Units) /\ p \in Nat
      /\ Len(b) \in Nat /\ Len(net) \in Nat /\ Len(todo) \in Nat /\ Len(str) \in Nat /\ k \in Nat
      /\ p + k \in Nat
  BY DEF Placed
<1>2. /\ Piece(str, b, p) /\ Piece(str, net, p + Len(b)) /\ Piece(str, todo, p + Len(b) + Len(net))
      /\ ~eof => p + Len(b) + Len(net) + Len(todo) = Len(str)
  BY DEF Placed
<1>3. v \in Seq(Units) /\ Len(v) = Len(b) - k /\ Piece(str, v, p + k)
  BY <1>1, <1>2, PieceSplit
<1> HIDE DEF v
<1>4. (p + k) + Len(v) = p + Len(b)
  BY <1>1, <1>3
<1> QED
  BY <1>1, <1>2, <1>3, <1>4 DEF Placed, v

\* With an empty buffer k units go past it.
LEMMA PlacedSkip ==
  ASSUME NEW str \in Seq(Units), NEW net, NEW todo, NEW eof, NEW p,
         Placed(str, <<>>, net, todo, eof, p), NEW k \in 0 .. Len(net)
  PROVE  Placed(str, <<>>, SubSeq(net, k + 1, Len(net)), todo, eof, p + k)
<1> DEFINE v == SubSeq(net, k + 1, Len(net))
<1>1. /\ net \in Seq(Units) /\ todo \in Seq(Units) /\ p \in Nat
      /\ Len(net) \in Nat /\ Len(todo) \in Nat /\ Len(str) \in Nat /\ k \in Nat
      /\ p + k \in Nat
  BY DEF Placed
<1>0. <<>> \in Seq(Units) /\ Len(<<>>) = 0
  BY EmptySeq
<1>2. /\ p + 0 = p /\ (p + k) + 0 = p + k
      /\ Piece(str, net, p) /\ Piece(str, todo, p + Len(net))
      /\ ~eof => p + Len(net) + Len(todo) = Len(str)
  BY <1>0, <1>1 DEF Placed
<1>3. v \in Seq(Units) /\ Len(v) = Len(net) - k /\ Piece(str, v, p + k)
  BY <1>1, <1>2, PieceSplit
<1> HIDE DEF v
<1>4. (p + k) + Len(v) = p + Len(net) /\ (p + k) + 0 + Len(v) = p + Len(net)
  BY <1>1, <1>3
<1>5. Piece(str, <<>>, p + k)
  <2>1. p + Len(net) <= Len(str)
    BY <1>2 DEF Piece
  <2> QED
    BY <1>0, <1>1, <2>1 DEF Piece
<1> QED
  BY <1>0, <1>1, <1>2, <1>3, <1>4, <1>5 DEF Placed, v

\* A client that hangs up sends no more.
LEMMA PlacedEnd ==
  ASSUME NEW str \in Seq(Units), NEW b, NEW net, NEW todo, NEW eof, NEW p,
         Placed(str, b, net, todo, eof, p)
  PROVE  Placed(str, b, net, <<>>, TRUE, p)
<1>1. /\ b \in Seq(Units) /\ net \in Seq(Units) /\ p \in Nat
      /\ Len(b) \in Nat /\ Len(net) \in Nat /\ Len(str) \in Nat
  BY DEF Placed
<1>2. <<>> \in Seq(Units) /\ Len(<<>>) = 0
  BY EmptySeq
<1>3. (p + Len(b)) + Len(net) <= Len(str)
  BY DEF Placed, Piece
<1>4. Piece(str, <<>>, p + Len(b) + Len(net))
  BY <1>1, <1>2, <1>3 DEF Piece
<1> QED
  BY <1>1, <1>2, <1>4 DEF Placed


(***************************************************************************)
(* How far a connection has come in the stream, and what it has answered.  *)
(***************************************************************************)

\* What must not happen to a client for it to be understood: a quiet ASCII set
\* that is refused, a binary set without memory for it (its value is then read as
\* commands), or an authentication without memory and without data.
Afforded(s) ==
  \A j \in DOMAIN s.script :
    LET q == s.script[j]
    IN  IF s.prot = "ascii" THEN q.op = "set" /\ q.quiet => ~q.big /\ ~s.oom
        ELSE s.oom => (q.op \in {"set", "append"} => q.big) /\ (q.op = "sasl" => q.n > 0)

Between == {"new_cmd", "waiting", "read", "parse_cmd"}
States == Between \cup {"nread", "swallow", "write", "mwrite", "closing", "closed"}

Live(c) == c.st \notin {"closing", "closed"}

\* The state a connection is in, or goes to when its answer is out.
Target(c) == IF c.st \in {"write", "mwrite"} THEN c.go ELSE c.st

\* Units of the command in progress that are still to come.
WithItem == {"none", "set_value", "sasl_data"}
Due(c) ==
  IF Target(c) = "swallow" THEN c.sb
  ELSE IF Target(c) = "nread" THEN c.rl + (IF c.sub \in WithItem THEN 0 ELSE Cmd(c).n)
  ELSE 0

\* What is being read fits the command.
SubFits(c) ==
  IF c.prot = "ascii" THEN c.sub = "none"
  ELSE /\ c.sub \in Subs
       /\ c.sub = "set_header" => Cmd(c).op \in {"set", "append"}
       /\ c.sub = "sasl" => Cmd(c).op = "sasl"
       /\ c.sub \in {"get_key", "stat", "del", "incr", "flush"} => Cmd(c).n = 0

\* What a state goes with; sbytes and write_and_go may be left from long ago.
Told(c) ==
  /\ c.prot \in {conf.bind, conf.prot} /\ c.rl \in Nat
  /\ c.go = "closing" => c.st = "write" \/ (c.st = "mwrite" /\ c.prot = "binary")
  /\ c.go = "swallow" => \/ c.sb = 0 \/ c.st \in {"swallow", "write"}
                         \/ (c.st = "mwrite" /\ c.prot = "binary")
  /\ c.st \in {"waiting", "read", "parse_cmd"} => c.sub = "none"
  /\ c.st = "parse_cmd" => c.rbuf # <<>>
  /\ c.st = "nread" => c.i # 0 /\ c.prot = conf.prot /\ c.noreply = Cmd(c).quiet /\ SubFits(c)
  /\ c.st # "nread" => c.prot = "binary" \/ c.noreply = FALSE

\* Which command is in progress, and that no more of it is due than there is.
InStep(c) ==
  Target(c) # "closing" =>
    /\ c.i \in 0 .. Len(conf.script)
    /\ c.i = 0 => Due(c) = 0
    /\ c.i # 0 => Due(c) <= Cmd(c).key + Cmd(c).n

\* Command j has its answer, or wants none; all answers are to commands below j.
Answered(c, j) == conf.script[j].quiet \/ \E x \in DOMAIN c.log : c.log[x] = j
Below(c, j) == \A x \in DOMAIN c.log : c.log[x] < j

\* The answer being sent is to the command in progress, and its last piece the last.
OutFits(c) == \A x \in DOMAIN c.out : c.out[x].i = c.i /\ (c.out[x].last <=> x = Len(c.out))

Answers(c) ==
  /\ \A j \in 1 .. c.i - 1 : Answered(c, j)
  /\ Target(c) # "closing" => Below(c, c.i + 1)
  /\ c.st \in {"write", "mwrite"} =>
       /\ OutFits(c)
       /\ c.out = <<>> => c.i = 0 \/ Answered(c, c.i)
       /\ c.out # <<>> => c.i = 0 \/ Below(c, c.i)
  /\ c.st = "nread" => Below(c, c.i)
  /\ c.st \in Between \cup {"swallow"} => c.i = 0 \/ Answered(c, c.i)

LogOrder(c) ==
  /\ c.log \in Seq(Nat)
  /\ \A x, y \in DOMAIN c.log : x < y => c.log[x] < c.log[y] \/ c.log[y] = 0

RecordInv(c) ==
  /\ DOMAIN c = ConnFields /\ c.go \in {"new_cmd", "swallow", "closing"}
  /\ c.st \in States /\ LogOrder(c) /\ c.sb \in Nat /\ c.rsize \in Nat /\ c.i \in Nat
  /\ Live(c) => /\ c.rbuf \in Seq(Units) /\ Len(c.rbuf) <= c.rsize
                /\ c.out \in Seq([i : Nat, last : BOOLEAN])
                /\ Told(c) /\ InStep(c) /\ Answers(c)

\* A connection and its socket are in step with the stream.
Synced(off, c, s) ==
  /\ RecordInv(c)
  /\ Live(c) /\ Target(c) # "closing" =>
       Placed(Stream, c.rbuf, s.net, s.todo, s.eof, off[c.i] - Due(c))
  /\ c.st = "closed" /\ s.open => Placed(Stream, <<>>, s.net, s.todo, s.eof, 0)

SyncInv(off) ==
  /\ conf \in Scenarios /\ Afforded(conf) /\ Ends(conf.script, off)
  /\ DOMAIN conn = Fds /\ DOMAIN sock = Fds
  /\ \A f \in Fds : DOMAIN sock[f] = SockFields /\ Synced(off, conn[f], sock[f])

\* The stream is that of the script, and stays.
LEMMA StreamIs == Stream = Bytes(conf.script)
BY DEF Stream, Bytes

\* The stream depends on the scenario only, which never changes.
LEMMA StreamStays ==
  ASSUME conf' = conf
  PROVE  Stream' = Stream
BY DEF Stream

\* A connection and its socket change, and stay in step.
LEMMA SyncOne ==
  ASSUME NEW off, SyncInv(off), conf' = conf, NEW f \in Fds,
         NEW c, conn' = [conn EXCEPT ![f] = c] \/ (conn' = conn /\ c = conn[f]),
         NEW s, sock' = [sock EXCEPT ![f] = s] \/ (sock' = sock /\ s = sock[f]),
         DOMAIN s = SockFields, Synced(off, c, s)
  PROVE  SyncInv(off)'
<1>1. /\ conf' \in Scenarios /\ Afforded(conf)' /\ Ends(conf'.script, off)
      /\ DOMAIN conn' = Fds /\ DOMAIN sock' = Fds
  BY DEF SyncInv, Afforded
<1>2. ASSUME NEW g \in Fds
      PROVE  DOMAIN sock'[g] = SockFields /\ Synced(off, conn'[g], sock'[g])
  BY DEF SyncInv
<1>3. ASSUME NEW g \in Fds
      PROVE  Synced(off, conn[g], sock[g])'
  <2> DEFINE d == conn'[g]
             r == sock'[g]
  <2>1. RecordInv(d) /\ Stream' = Stream
    BY <1>2, StreamStays DEF Synced
  <2>2. RecordInv(conn[g])'
    BY <2>1 DEF RecordInv, Told, SubFits, InStep, Answers, Answered, Below, Due, Target, Cmd,
                OutFits, LogOrder, Live
  <2>3. Due(conn[g])' = Due(d) /\ Target(conn[g])' = Target(d) /\ (Live(conn[g])' <=> Live(d))
    BY DEF Due, Target, Cmd, Live
  <2> QED
    BY <1>2, <2>1, <2>2, <2>3 DEF Synced
<1> QED
  BY <1>1, <1>2, <1>3 DEF SyncInv


\* What is assumed of scripts.
LEMMA ScriptFacts ==
  ASSUME conf \in Scenarios
  PROVE  /\ Len(conf.script) \in Nat /\ DOMAIN conf.script = 1 .. Len(conf.script)
         /\ \A j \in 1 .. Len(conf.script) : Spoken(conf.prot, conf.script[j])
         /\ \A j \in 1 .. Len(conf.script) :
              /\ conf.script[j].key \in Nat /\ conf.script[j].n \in Nat
              /\ conf.script[j].quiet \in BOOLEAN
         /\ conf.prot \in {"ascii", "binary"} /\ conf.bind \in {"negotiating", conf.prot}
         /\ conf.script \in Seq(Range(conf.script))
<1>1. /\ conf.script \in Seq(Range(conf.script))
      /\ \A j \in DOMAIN conf.script : Spoken(conf.prot, conf.script[j])
      /\ conf.prot \in {"ascii", "binary"} /\ conf.bind \in {"negotiating", conf.prot}
  BY ScriptAssumption
<1>2. Len(conf.script) \in Nat /\ DOMAIN conf.script = 1 .. Len(conf.script)
  BY <1>1
<1> QED
  BY <1>1, <1>2 DEF Spoken

\* All that is still to come is a piece of the stream.
LEMMA AheadPiece ==
  ASSUME NEW f \in Fds, Stream \in Seq(Units), NEW p,
         Placed(Stream, conn[f].rbuf, sock[f].net, sock[f].todo, sock[f].eof, p)
  PROVE  /\ Ahead(f) \in Seq(Units) /\ Piece(Stream, Ahead(f), p) /\ p \in Nat
         /\ ~sock[f].eof => p + Len(Ahead(f)) = Len(Stream)
<1> DEFINE b == conn[f].rbuf
           n == sock[f].net
           d == sock[f].todo
<1>1. /\ b \in Seq(Units) /\ n \in Seq(Units) /\ d \in Seq(Units) /\ p \in Nat
      /\ Piece(Stream, b, p) /\ Piece(Stream, n, p + Len(b)) /\ Piece(Stream, d, p + Len(b) + Len(n))
      /\ ~sock[f].eof => p + Len(b) + Len(n) + Len(d) = Len(Stream)
  BY DEF Placed
<1>2. Ahead(f) = (b \o n) \o d
  BY DEF Ahead
<1> HIDE DEF b, n, d
<1>3. b \o n \in Seq(Units) /\ Len(b \o n) = Len(b) + Len(n) /\ Piece(Stream, b \o n, p)
  BY <1>1, PieceJoin
<1>4. Len(b) \in Nat /\ Len(n) \in Nat /\ Len(d) \in Nat
  BY <1>1
<1>5. p + Len(b \o n) = p + Len(b) + Len(n)
  BY <1>1, <1>3, <1>4
<1> DEFINE a == b \o n
<1> HIDE DEF a
<1>6. /\ a \o d \in Seq(Units) /\ Len(a \o d) = Len(a) + Len(d)
      /\ Piece(Stream, a \o d, p)
  BY <1>1, <1>3, <1>5, PieceJoin DEF a
<1>7. ~sock[f].eof => p + (Len(a) + Len(d)) = Len(Stream)
  BY <1>1, <1>3, <1>4 DEF a
<1> QED
  BY <1>1, <1>2, <1>6, <1>7 DEF a

\* Behind the end of a command comes the header of the next.
LEMMA NextHeader ==
  ASSUME conf \in Scenarios, NEW off, Ends(conf.script, off), NEW i \in 0 .. Len(conf.script),
         NEW x, x = off[i] + 1, x <= Len(Stream)
  PROVE  /\ i + 1 \in 1 .. Len(conf.script) /\ x \in 1 .. Len(Stream) /\ off[i] \in Nat
         /\ Stream[x].i = i + 1 /\ Stream[x].p = "h"
         /\ off[i + 1] = off[i] + (2 + conf.script[i + 1].key + conf.script[i + 1].n)
<1> DEFINE n == Len(conf.script)
           m == Len(Stream)
<1>1. /\ n \in Nat /\ off[i] \in Nat /\ m = off[n] /\ m \in Nat
      /\ \A j \in 1 .. n : conf.script[j].key \in Nat /\ conf.script[j].n \in Nat
  BY ScriptFacts, StreamIs DEF Ends
<1>2. i # n
  BY <1>1
<1>3. i + 1 \in 1 .. n /\ (i + 1) - 1 = i
  BY <1>1, <1>2
<1>4. off[i + 1] = off[i] + (2 + conf.script[i + 1].key + conf.script[i + 1].n)
  BY <1>3 DEF Ends
<1>5. x \in off[(i + 1) - 1] + 1 .. off[i + 1] /\ x \in 1 .. m
  <2> DEFINE y == conf.script[i + 1].key
             z == conf.script[i + 1].n
             l == off[i]
  <2>1. y \in Nat /\ z \in Nat /\ l \in Nat /\ off[i + 1] = l + (2 + y + z) /\ m \in Nat
    BY <1>1, <1>3, <1>4
  <2>2. off[(i + 1) - 1] = l /\ x = l + 1 /\ x <= m
    BY <1>3
  <2> HIDE DEF y, z, l, m
  <2> QED
    BY <2>1, <2>2
<1>6. Stream[x].i = i + 1 /\ (Stream[x].p = "h" <=> x = off[(i + 1) - 1] + 1)
  BY <1>3, <1>5, StreamIs DEF Ends, Laid
<1> QED
  BY <1>1, <1>3, <1>4, <1>5, <1>6

\* What is due is what the stream still holds of the command in progress.
LEMMA RestIsDue ==
  ASSUME NEW off, SyncInv(off), NEW f \in Fds, Live(conn[f]), Target(conn[f]) # "closing",
         Due(conn[f]) \in Nat, ~sock[f].eof
  PROVE  Rest(f) = Due(conn[f])
<1> DEFINE c == conn[f]
           n == Len(conf.script)
           D == Due(conn[f])
           p == off[c.i] - D
           m == Len(Stream)
           a == Ahead(f)
<1>1. /\ conf \in Scenarios /\ Ends(conf.script, off) /\ n \in Nat
      /\ c.i \in 0 .. n /\ (c.i = 0 => D = 0) /\ (c.i # 0 => D <= Cmd(c).key + Cmd(c).n)
      /\ Placed(Stream, c.rbuf, sock[f].net, sock[f].todo, sock[f].eof, p)
  BY ScriptFacts DEF SyncInv, Synced, RecordInv, InStep
<1>2. /\ Stream \in Seq(Units) /\ off \in [0 .. n -> Nat] /\ off[0] = 0 /\ m = off[n]
      /\ Laid(Stream, off, n)
      /\ \A k \in 1 .. n : off[k] = off[k - 1] + (2 + conf.script[k].key + conf.script[k].n)
      /\ \A k \in 1 .. n : conf.script[k].key \in Nat /\ conf.script[k].n \in Nat
  BY <1>1, StreamIs, ScriptFacts DEF Ends
<1>3. a \in Seq(Units) /\ Piece(Stream, a, p) /\ p \in Nat /\ p + Len(a) = m
  BY <1>1, <1>2, AheadPiece
<1>4. Len(a) \in Nat /\ DOMAIN a = 1 .. Len(a) /\ m \in Nat
  BY <1>2, <1>3
<1>5. \A x \in 1 .. Len(a) : a[x] = Stream[p + x]
  BY <1>3 DEF Piece
<1>6. Rest(f) = Cardinality({x \in 1 .. Len(a) : a[x].i = c.i})
  BY <1>4 DEF Rest
<1>7. off[c.i] \in Nat /\ off[c.i] = p + D /\ off[c.i] <= m
  <2>1. off[c.i] \in Nat /\ off[c.i] <= off[n]
    BY <1>1, <1>2 DEF Laid
  <2> QED
    BY <1>1, <1>2, <1>3, <2>1
<1> HIDE DEF c, n, D, p, m, a
<1>8. ASSUME NEW x \in 1 .. Len(a)
      PROVE  a[x].i = c.i <=> x <= D
  <2>1. p + x \in 1 .. m /\ a[x] = Stream[p + x]
    BY <1>3, <1>4, <1>5
  <2>2. /\ Stream[p + x].i \in 1 .. n /\ off[Stream[p + x].i - 1] < p + x
        /\ p + x <= off[Stream[p + x].i]
    BY <1>2, <2>1 DEF Laid
  <2>0. p \in Nat /\ D \in Nat /\ x \in Nat
    BY <1>3, <1>4 DEF D, c
  <2>3. ASSUME a[x].i = c.i PROVE x <= D
    <3>1. p + x <= off[c.i]
      BY <2>1, <2>2, <2>3
    <3>2. p + x <= p + D
      BY <1>7, <3>1
    <3> QED
      BY <2>0, <3>2
  <2>4. ASSUME x <= D PROVE a[x].i = c.i
    <3>1. c.i # 0 /\ c.i \in 1 .. n /\ Cmd(c) = conf.script[c.i]
      BY <1>1, <2>4 DEF Cmd
    <3> DEFINE l == off[c.i - 1]
               y == conf.script[c.i].key
               z == conf.script[c.i].n
    <3>2. l \in Nat /\ off[c.i] = l + (2 + y + z) /\ y \in Nat /\ z \in Nat
      <4>1. c.i - 1 \in 0 .. n
        BY <1>1, <3>1
      <4> QED
        BY <1>2, <3>1, <4>1
    <3>3. D <= y + z
      BY <1>1, <3>1
    <3>4. p + x \in off[c.i - 1] + 1 .. off[c.i]
      <4>1. p + x \in l + 1 .. p + D
        <5>1. p + D = l + (2 + y + z)
          BY <1>7, <3>2
        <5>2. x >= 1
          OBVIOUS
        <5> HIDE DEF l, y, z
        <5> QED
          BY <2>0, <2>4, <3>2, <3>3, <5>1, <5>2
      <4> QED
        BY <1>7, <4>1
    <3> QED
      BY <1>2, <2>1, <3>1, <3>4 DEF Laid
  <2> QED
    BY <2>3, <2>4
<1>9. D \in Nat /\ D <= Len(a)
  BY <1>3, <1>4, <1>7 DEF D
<1>10. {x \in 1 .. Len(a) : a[x].i = c.i} = 1 .. D
  BY <1>4, <1>8, <1>9
<1>11. Cardinality(1 .. D) = D
  BY <1>9, FS_Interval
<1> QED
  BY <1>6, <1>10, <1>11 DEF D


\* What is due is a number.
LEMMA DueType ==
  ASSUME conf \in Scenarios, NEW c, RecordInv(c), Live(c), Target(c) # "closing"
  PROVE  Due(c) \in Nat
<1>1. c.sb \in Nat /\ c.rl \in Nat
  BY DEF RecordInv, Told
<1>2. CASE Target(c) = "nread"
  <2>1. c.st = "nread"
    BY <1>2 DEF Target, RecordInv
  <2>2. c.i \in 1 .. Len(conf.script)
    BY <2>1, ScriptFacts DEF RecordInv, Told, InStep
  <2>3. Cmd(c).n \in Nat
    BY <2>2, ScriptFacts DEF Cmd
  <2> QED
    BY <1>1, <1>2, <2>3 DEF Due
<1> QED
  BY <1>1, <1>2 DEF Due

\* Connections in step have both properties.
LEMMA SyncInvMeans ==
  ASSUME NEW off, SyncInv(off)
  PROVE  StreamInSync /\ AnswersInOrder
<1> USE DEF SyncInv
<1>1. ASSUME NEW f \in Fds, Live(conn[f]), Target(conn[f]) \in Between, Ahead(f) # <<>>
      PROVE  Head(Ahead(f)).p = "h"
  <2> DEFINE c == conn[f]
             a == Ahead(f)
  <2>1. RecordInv(c) /\ Target(c) \notin {"closing", "swallow", "nread"} /\ Due(c) = 0
    BY <1>1 DEF Synced, Between, Due
  <2>2. /\ c.i \in 0 .. Len(conf.script)
        /\ Placed(Stream, c.rbuf, sock[f].net, sock[f].todo, sock[f].eof, off[c.i] - 0)
    BY <1>1, <2>1 DEF Synced, RecordInv, InStep
  <2>3. Stream \in Seq(Units) /\ off[c.i] \in Nat
    BY <2>2, ScriptFacts, StreamIs DEF Ends
  <2>4. Placed(Stream, c.rbuf, sock[f].net, sock[f].todo, sock[f].eof, off[c.i])
    BY <2>2, <2>3
  <2>5. a \in Seq(Units) /\ Piece(Stream, a, off[c.i])
    BY <2>3, <2>4, AheadPiece
  <2> HIDE DEF c, a
  <2>6. Len(a) \in Nat /\ Len(a) # 0 /\ Head(a) = a[1]
    <3>1. a # <<>>
      BY <1>1 DEF a
    <3> QED
      BY <2>5, <3>1, NonEmpty
  <2>7. 1 \in 1 .. Len(a) /\ Len(Stream) \in Nat
    BY <2>3, <2>6
  <2>8. a[1] = Stream[off[c.i] + 1] /\ off[c.i] + 1 <= Len(Stream)
    BY <2>3, <2>5, <2>6, <2>7 DEF Piece
  <2>9. Stream[off[c.i] + 1].p = "h"
    BY <2>2, <2>8, NextHeader
  <2> QED
    BY <2>6, <2>8, <2>9 DEF a
<1>2. ASSUME NEW f \in Fds, Live(conn[f]), Target(conn[f]) \in {"swallow", "nread"}, ~sock[f].eof
      PROVE  Rest(f) = Due(conn[f])
  <2>1. RecordInv(conn[f]) /\ Target(conn[f]) # "closing"
    BY <1>2 DEF Synced
  <2>2. Due(conn[f]) \in Nat
    BY <1>2, <2>1, DueType
  <2> QED
    BY <1>2, <2>1, <2>2, RestIsDue
<1>3. StreamInSync
  <2> SUFFICES ASSUME NEW f \in Fds
               PROVE  LET c == conn[f]
                          next == IF c.st \in {"write", "mwrite"} THEN c.go ELSE c.st
                      IN  /\ next \in {"new_cmd", "waiting", "read", "parse_cmd"} /\ Ahead(f) # <<>> =>
                               Head(Ahead(f)).p = "h" \/ sock[f].eof
                          /\ next = "swallow" /\ ~sock[f].eof => Rest(f) = c.sb
                          /\ next = "nread" /\ ~sock[f].eof =>
                               Rest(f) = c.rl + (IF c.sub \in {"none", "set_value", "sasl_data"}
                                                 THEN 0 ELSE Cmd(c).n)
    BY DEF StreamInSync
  <2> DEFINE c == conn[f]
  <2>1. Target(c) \in Between \cup {"swallow", "nread"} => Live(c)
    BY DEF Target, Live, Between
  <2> HIDE DEF c
  <2>2. CASE Target(c) \in Between
    <3>1. Target(c) \notin {"swallow", "nread"} /\ (Ahead(f) # <<>> => Head(Ahead(f)).p = "h")
      BY <1>1, <2>1, <2>2 DEF c, Between
    <3> QED
      BY <3>1 DEF Target, c
  <2>3. CASE Target(c) = "swallow"
    <3>1. ~sock[f].eof => Rest(f) = c.sb
      BY <1>2, <2>1, <2>3 DEF c, Due
    <3> QED
      BY <2>3, <3>1 DEF Target, c
  <2>4. CASE Target(c) = "nread"
    <3>1. ~sock[f].eof => Rest(f) = c.rl + (IF c.sub \in WithItem THEN 0 ELSE Cmd(c).n)
      BY <1>2, <2>1, <2>4 DEF c, Due
    <3> QED
      BY <2>4, <3>1 DEF Target, c, WithItem
  <2>5. CASE Target(c) \notin Between \cup {"swallow", "nread"}
    BY <2>5 DEF Target, c, Between
  <2> QED
    BY <2>2, <2>3, <2>4, <2>5
<1>4. AnswersInOrder
  <2> SUFFICES ASSUME NEW f \in Fds
               PROVE  LET c == conn[f]
                          between == c.st \in {"new_cmd", "waiting", "read", "parse_cmd"}
                      IN  /\ \A x, y \in DOMAIN c.log : x < y => c.log[x] < c.log[y] \/ c.log[y] = 0
                          /\ c.st \notin {"closing", "closed"} =>
                               \A j \in 1 .. (IF between THEN c.i ELSE c.i - 1) :
                                 conf.script[j].quiet \/ \E x \in DOMAIN c.log : c.log[x] = j
    BY DEF AnswersInOrder
  <2> DEFINE c == conn[f]
  <2>1. RecordInv(c)
    BY DEF Synced
  <2> HIDE DEF c
  <2>2. \A x, y \in DOMAIN c.log : x < y => c.log[x] < c.log[y] \/ c.log[y] = 0
    BY <2>1 DEF RecordInv, LogOrder
  <2>3. ASSUME c.st \notin {"closing", "closed"},
               NEW j \in 1 .. (IF c.st \in Between THEN c.i ELSE c.i - 1)
        PROVE  Answered(c, j)
    <3>1. Answers(c) /\ c.i \in Nat
      BY <2>1, <2>3 DEF RecordInv, Live
    <3>2. j \in 1 .. c.i - 1 \/ (c.st \in Between /\ j = c.i /\ c.i # 0)
      BY <2>3, <3>1
    <3> QED
      BY <3>1, <3>2 DEF Answers
  <2> QED
    BY <2>2, <2>3 DEF Answered, Between, c
<1> QED
  BY <1>3, <1>4


(***************************************************************************)
(* The handlers.  Each is given a command whose earlier ones have their    *)
(* answers, and leaves the connection answering it, silent about it,       *)
(* reading more of it, or closing, with R units of it still due.           *)
(***************************************************************************)

Pieces == [i : Nat, last : BOOLEAN]

\* The command c.i is being handled.
Started(c) ==
  /\ DOMAIN c = ConnFields /\ c.go \in {"new_cmd", "swallow"} /\ (c.go = "swallow" => c.sb = 0)
  /\ c.i \in 1 .. Len(conf.script) /\ c.prot = conf.prot
  /\ LogOrder(c) /\ Below(c, c.i) /\ \A j \in 1 .. c.i - 1 : Answered(c, j)
  /\ c.rbuf \in Seq(Units) /\ c.rsize \in Nat /\ Len(c.rbuf) <= c.rsize
  /\ c.rl \in Nat /\ c.sb \in Nat /\ c.out \in Seq(Pieces)

\* What no handler changes, and the types of what it may.
Stays(c, e) ==
  /\ DOMAIN e = ConnFields /\ e.rbuf = c.rbuf /\ e.log = c.log /\ e.i = c.i /\ e.prot = c.prot
  /\ e.rsize \in Nat /\ e.rsize >= c.rsize /\ e.rl \in Nat /\ e.sb \in Nat
  /\ e.go \in {"new_cmd", "swallow", "closing"} /\ e.out \in Seq(Pieces)

\* An answer, with what comes after it.
Replying(c, e, R) ==
  /\ Stays(c, e) /\ e.st \in {"write", "mwrite"} /\ e.out # <<>> /\ OutFits(e)
  /\ e.prot = "binary" \/ e.noreply = FALSE
  /\ \/ e.go = "closing" /\ (e.st = "write" \/ e.prot = "binary")
     \/ e.go = "new_cmd" /\ R = 0
     \/ e.go = "swallow" /\ e.sb = R /\ (R = 0 \/ e.st = "write" \/ e.prot = "binary")

\* No answer, to a quiet command.
Silent(c, e, R) ==
  /\ Stays(c, e) /\ e.st = "new_cmd" /\ R = 0 /\ Cmd(c).quiet
  /\ e.prot = "binary" \/ e.noreply = FALSE
  /\ e.go # "closing" /\ (e.go = "swallow" => e.sb = 0)

\* More of the command is read.
Reading(c, e, R) ==
  /\ Stays(c, e) /\ e.st = "nread" /\ e.noreply = Cmd(c).quiet /\ SubFits(e)
  /\ R = e.rl + (IF e.sub \in WithItem THEN 0 ELSE Cmd(c).n)
  /\ e.go # "closing" /\ (e.go = "swallow" => e.sb = 0)

Hanging(c, e) == Stays(c, e) /\ e.st = "closing"

Formed(c, e, R) == Replying(c, e, R) \/ Silent(c, e, R) \/ Reading(c, e, R) \/ Hanging(c, e)

\* The connection is in step, R units before the end of its command.
Done(c, e, R) ==
  /\ RecordInv(e) /\ e.st # "closed" /\ e.rbuf = c.rbuf
  /\ Live(e) /\ Target(e) # "closing" => e.i = c.i /\ Due(e) = R

\* The log of a connection is all below a command if it is below an earlier one.
LEMMA BelowMore ==
  ASSUME NEW c, LogOrder(c), NEW j \in Nat, Below(c, j)
  PROVE  Below(c, j + 1)
<1>1. \A x \in DOMAIN c.log : c.log[x] \in Nat
  BY DEF LogOrder
<1> QED
  BY <1>1 DEF Below

\* Whatever a handler leaves is in step.
LEMMA FormedDone ==
  ASSUME conf \in Scenarios, NEW c, Started(c), NEW R \in Nat, R <= Cmd(c).key + Cmd(c).n,
         NEW e, Formed(c, e, R)
  PROVE  Done(c, e, R)
<1>1. /\ Stays(c, e) /\ e.st \in {"write", "mwrite", "new_cmd", "nread", "closing"}
      /\ DOMAIN e = ConnFields /\ e.go \in {"new_cmd", "swallow", "closing"} /\ e.i = c.i
      /\ e.rbuf = c.rbuf /\ e.log = c.log /\ e.prot = c.prot /\ e.sb \in Nat /\ e.rsize \in Nat
      /\ e.rl \in Nat /\ e.out \in Seq(Pieces)
  BY DEF Formed, Replying, Silent, Reading, Hanging, Stays
<1>2. /\ c.i \in 1 .. Len(conf.script) /\ c.i \in Nat /\ c.i # 0 /\ c.prot = conf.prot
      /\ Cmd(e) = Cmd(c) /\ e.i \in Nat
  BY <1>1, ScriptFacts DEF Started, Cmd
<1>3. LogOrder(e) /\ Below(e, e.i) /\ \A j \in 1 .. e.i - 1 : Answered(e, j)
  BY <1>1 DEF Started, LogOrder, Below, Answered
<1>4. Below(e, e.i + 1)
  BY <1>2, <1>3, BelowMore
<1>5. e.rbuf \in Seq(Units) /\ Len(e.rbuf) <= e.rsize
  <2>1. Len(c.rbuf) \in Nat /\ Len(c.rbuf) <= c.rsize /\ c.rsize \in Nat /\ e.rsize >= c.rsize
    BY <1>1 DEF Started, Stays
  <2> QED
    BY <1>1, <2>1 DEF Started
<1>6. Live(e) /\ Target(e) # "closing" => Due(e) = R
  BY <1>2 DEF Formed, Replying, Silent, Reading, Hanging, Live, Target, Due
<1>7. ASSUME Live(e) PROVE Told(e)
  BY <1>1, <1>2, <1>7 DEF Formed, Replying, Silent, Reading, Hanging, Live, Told, Cmd
<1>8. ASSUME Live(e) PROVE InStep(e)
  BY <1>1, <1>2, <1>6, <1>8 DEF InStep
<1>9. ASSUME Live(e) PROVE Answers(e)
  <2>1. e.st = "new_cmd" => Answered(e, e.i)
    BY <1>1, <1>2 DEF Formed, Replying, Silent, Reading, Hanging, Answered, Cmd
  <2>2. e.st \in {"write", "mwrite"} => OutFits(e) /\ e.out # <<>>
    BY <1>1 DEF Formed, Replying, Silent, Reading, Hanging
  <2> QED
    BY <1>1, <1>3, <1>4, <1>9, <2>1, <2>2 DEF Answers, Between
<1>10. RecordInv(e)
  BY <1>1, <1>2, <1>3, <1>5, <1>7, <1>8, <1>9 DEF RecordInv, States, Between, Pieces
<1> QED
  BY <1>1, <1>6, <1>10 DEF Done

\* An answer of one or more pieces.
LEMMA AnswerFits ==
  ASSUME NEW c, c.i \in Nat, NEW n \in Nat \ {0}
  PROVE  /\ Answer(c, n) \in Seq(Pieces) /\ Answer(c, n) # <<>> /\ Len(Answer(c, n)) = n
         /\ \A x \in DOMAIN Answer(c, n) : /\ Answer(c, n)[x].i = c.i
                                           /\ Answer(c, n)[x].last <=> x = Len(Answer(c, n))
<1> DEFINE a == Answer(c, n)
<1>1. a = [x \in 1 .. n |-> [i |-> c.i, last |-> x = n]]
  BY DEF Answer
<1>2. a \in Seq(Pieces) /\ Len(a) = n
  <2>1. \A x \in 1 .. n : [i |-> c.i, last |-> x = n] \in Pieces
    BY DEF Pieces
  <2>2. a \in [1 .. n -> Pieces]
    BY <1>1, <2>1
  <2> QED
    BY <1>1, <2>2, SeqDef, LenProperties
<1>3. \A x \in DOMAIN a : a[x].i = c.i /\ (a[x].last <=> x = Len(a))
  <2> SUFFICES ASSUME NEW x \in 1 .. n PROVE a[x].i = c.i /\ (a[x].last <=> x = n)
    BY <1>1, <1>2
  <2>1. a[x].i = c.i /\ a[x].last = (x = n)
    BY <1>1
  <2> QED
    BY <2>1, Zenon
<1>4. a # <<>>
  BY <1>2, EmptySeq
<1> QED
  BY <1>2, <1>3, <1>4


\* A record that a handler passes on.
Alike(c, d) ==
  /\ DOMAIN d = ConnFields /\ d.rbuf = c.rbuf /\ d.log = c.log /\ d.i = c.i /\ d.prot = c.prot
  /\ d.rsize = c.rsize /\ d.rl = c.rl /\ d.sb = c.sb /\ d.go = c.go /\ d.out = c.out
  /\ d.st = c.st /\ d.sub = c.sub

\* A quiet command is one that has set noreply.
Noted(c) == Started(c) /\ c.noreply \in BOOLEAN /\ (c.noreply => Cmd(c).quiet)

\* Handlers of the record that is passed on work for the one they are given.
LEMMA AlikeFormed ==
  ASSUME NEW c, NEW d, Alike(c, d)
  PROVE  /\ Started(c) => Started(d)
         /\ Noted(c) /\ d.noreply = c.noreply => Noted(d)
         /\ \A e, R : Formed(d, e, R) => Formed(c, e, R)
<1>1. Cmd(d) = Cmd(c)
  BY DEF Alike, Cmd
<1>2. Started(c) => Started(d)
  BY DEF Alike, Started, LogOrder, Below, Answered
<1>3. ASSUME NEW e, Stays(d, e) PROVE Stays(c, e)
  BY <1>3 DEF Alike, Stays
<1>4. \A e, R : Formed(d, e, R) => Formed(c, e, R)
  BY <1>1, <1>3 DEF Formed, Replying, Silent, Reading, Hanging
<1> QED
  BY <1>1, <1>2, <1>4 DEF Noted, Started

\* An answer, given to a record.
LEMMA ReplyFormed ==
  ASSUME NEW c, Started(c), NEW e, Stays(c, e), NEW n \in Nat \ {0}, e.out = Answer(c, n),
         e.st \in {"write", "mwrite"}, e.prot = "binary" \/ e.noreply = FALSE, NEW R,
         \/ e.go = "closing" /\ (e.st = "write" \/ e.prot = "binary")
         \/ e.go = "new_cmd" /\ R = 0
         \/ e.go = "swallow" /\ e.sb = R /\ (R = 0 \/ e.st = "write" \/ e.prot = "binary")
  PROVE  Formed(c, e, R)
<1>1. c.i \in Nat
  BY DEF Started
<1>2. e.out # <<>> /\ \A x \in DOMAIN e.out : e.out[x].i = c.i /\ (e.out[x].last <=> x = Len(e.out))
  BY <1>1, AnswerFits
<1>3. OutFits(e)
  BY <1>2 DEF OutFits, Stays
<1> QED
  BY <1>2, <1>3 DEF Formed, Replying

\* out_string answers, or is silent about a quiet command.
LEMMA OutStringFormed ==
  ASSUME NEW c, Noted(c)
  PROVE  /\ Formed(c, out_string(c), 0)
         /\ ~c.noreply => Replying(c, out_string(c), 0) /\ out_string(c).st = "write"
<1> DEFINE a == Answer(c, 1)
           e1 == [c EXCEPT !.noreply = FALSE, !.st = "new_cmd"]
           e2 == [c EXCEPT !.out = a, !.st = "write", !.go = "new_cmd"]
<1>1. Started(c)
  BY DEF Noted
<1>2. a \in Seq(Pieces) /\ 1 \in Nat \ {0}
  BY <1>1, AnswerFits DEF Started
<1>3. CASE c.noreply
  <2>1. out_string(c) = e1
    BY <1>3 DEF out_string
  <2>2. Stays(c, e1) /\ e1.st = "new_cmd" /\ e1.noreply = FALSE /\ e1.go = c.go /\ e1.sb = c.sb
    BY <1>1 DEF Started, Stays, ConnFields
  <2> HIDE DEF e1
  <2> QED
    BY <1>1, <1>3, <2>1, <2>2 DEF Formed, Silent, Started, Noted
<1>4. CASE ~c.noreply
  <2>1. out_string(c) = e2
    BY <1>4 DEF out_string
  <2>2. Stays(c, e2) /\ e2.st = "write" /\ e2.noreply = FALSE /\ e2.go = "new_cmd" /\ e2.out = a
    BY <1>1, <1>2, <1>4 DEF Started, Stays, ConnFields
  <2> HIDE DEF e2
  <2>3. Formed(c, e2, 0)
    BY <1>1, <1>2, <2>2, ReplyFormed DEF a
  <2> QED
    BY <1>4, <2>1, <2>2, <2>3 DEF Formed, Silent, Reading, Hanging
<1> QED
  BY <1>3, <1>4

\* An error of the binary protocol, and what it says to swallow.
LEMMA BinErrorFormed ==
  ASSUME NEW c, Started(c), c.prot = "binary", NEW n \in Nat
  PROVE  /\ Formed(c, write_bin_error(c, n), n)
         /\ n > 0 => Formed(c, [write_bin_error(c, n) EXCEPT !.go = "swallow"], n)
         /\ \A R : Formed(c, [write_bin_error(c, n) EXCEPT !.go = "closing"], R)
<1> DEFINE a == Answer(c, 1)
           s == IF n > 0 THEN n ELSE c.sb
           g == IF n > 0 THEN "swallow" ELSE "new_cmd"
           e == [c EXCEPT !.out = a, !.st = "mwrite", !.sb = s, !.go = g]
           e1 == [e EXCEPT !.go = "swallow"]
           e2 == [e EXCEPT !.go = "closing"]
<1>1. a \in Seq(Pieces) /\ 1 \in Nat \ {0} /\ s \in Nat
  BY AnswerFits DEF Started
<1>2. write_bin_error(c, n) = e
  BY DEF write_bin_error
<1> HIDE DEF a
<1>3. Stays(c, e) /\ e.st = "mwrite" /\ e.go = g /\ e.out = a /\ e.sb = s /\ e.prot = "binary"
  BY <1>1 DEF Started, Stays, ConnFields
<1> HIDE DEF e
<1>4. Stays(c, e1) /\ e1.st = "mwrite" /\ e1.go = "swallow" /\ e1.out = a /\ e1.sb = s /\ e1.prot = "binary"
  BY <1>3 DEF Stays, ConnFields
<1>5. Stays(c, e2) /\ e2.st = "mwrite" /\ e2.go = "closing" /\ e2.out = a /\ e2.prot = "binary"
  BY <1>3 DEF Stays, ConnFields
<1> HIDE DEF e1, e2
<1>6. Formed(c, e, n)
  <2>1. (e.go = "new_cmd" /\ n = 0) \/ (e.go = "swallow" /\ e.sb = n)
    BY <1>3
  <2> QED
    BY <1>1, <1>3, <2>1, ReplyFormed DEF a
<1>7. n > 0 => Formed(c, e1, n)
  BY <1>1, <1>4, ReplyFormed DEF a
<1>8. \A R : Formed(c, e2, R)
  BY <1>1, <1>5, ReplyFormed DEF a
<1> QED
  BY <1>2, <1>6, <1>7, <1>8 DEF e1, e2

\* A binary answer, or silence about a quiet command.
LEMMA BinResponseFormed ==
  ASSUME NEW c, Noted(c), c.prot = "binary"
  PROVE  /\ Formed(c, write_bin_response(c), 0)
         /\ \A R : ~c.noreply => Formed(c, [write_bin_response(c) EXCEPT !.go = "closing"], R)
<1> DEFINE a == Answer(c, 1)
           e == [c EXCEPT !.out = a, !.st = "mwrite", !.go = "new_cmd"]
           e1 == [e EXCEPT !.go = "closing"]
           e2 == [c EXCEPT !.st = "new_cmd"]
<1>0. Started(c)
  BY DEF Noted
<1>1. a \in Seq(Pieces) /\ 1 \in Nat \ {0}
  BY <1>0, AnswerFits DEF Started
<1> HIDE DEF a
<1>2. Stays(c, e) /\ e.st = "mwrite" /\ e.go = "new_cmd" /\ e.out = a /\ e.prot = "binary"
  BY <1>0, <1>1 DEF Started, Stays, ConnFields
<1>3. Stays(c, e1) /\ e1.st = "mwrite" /\ e1.go = "closing" /\ e1.out = a /\ e1.prot = "binary"
  BY <1>0, <1>1 DEF Started, Stays, ConnFields
<1>4. Stays(c, e2) /\ e2.st = "new_cmd" /\ e2.go = c.go /\ e2.sb = c.sb /\ e2.prot = "binary"
  BY <1>0 DEF Started, Stays, ConnFields
<1>5. /\ ~c.noreply => write_bin_response(c) = e
      /\ write_bin_response(c) = e \/ (c.noreply /\ write_bin_response(c) = e2)
  BY DEF write_bin_response, a
<1> HIDE DEF e, e1, e2
<1>6. Formed(c, e, 0) /\ \A R : Formed(c, e1, R)
  BY <1>0, <1>1, <1>2, <1>3, ReplyFormed DEF a
<1>7. c.noreply => Formed(c, e2, 0)
  BY <1>0, <1>4 DEF Formed, Silent, Started, Noted
<1> QED
  BY <1>5, <1>6, <1>7 DEF e1

\* The answer to a failed allocation.
LEMMA OutOfMemoryFormed ==
  ASSUME NEW c, Noted(c)
  PROVE  Formed(c, out_of_memory(c), 0)
BY OutStringFormed, BinErrorFormed DEF out_of_memory, Noted

\* A block of statistics.
LEMMA WriteAndFreeFormed ==
  ASSUME NEW c, Started(c), c.prot = "binary" \/ c.noreply = FALSE
  PROVE  Formed(c, write_and_free(c), 0)
<1> DEFINE a == Answer(c, 1)
           e == [c EXCEPT !.wfree = TRUE, !.out = a, !.st = "write", !.go = "new_cmd"]
<1>1. a \in Seq(Pieces) /\ 1 \in Nat \ {0}
  BY AnswerFits DEF Started
<1>2. write_and_free(c) = e
  BY DEF write_and_free
<1> HIDE DEF a
<1>3. Stays(c, e) /\ e.st = "write" /\ e.go = "new_cmd" /\ e.out = a
      /\ (e.prot = "binary" \/ e.noreply = FALSE)
  BY <1>1 DEF Started, Stays, ConnFields
<1> HIDE DEF e
<1> QED
  BY <1>1, <1>2, <1>3, ReplyFormed DEF a

\* Giving an item back changes nothing of this.
LEMMA DropFormed ==
  ASSUME NEW c, NEW e, NEW R, Formed(c, e, R)
  PROVE  Formed(c, DropItem(e), R)
<1> DEFINE d == DropItem(e)
<1>1. Stays(c, e)
  BY DEF Formed, Replying, Silent, Reading, Hanging
<1>2. /\ DOMAIN d = DOMAIN e /\ d.rbuf = e.rbuf /\ d.log = e.log /\ d.i = e.i /\ d.prot = e.prot
      /\ d.rsize = e.rsize /\ d.rl = e.rl /\ d.sb = e.sb /\ d.go = e.go /\ d.out = e.out
      /\ d.st = e.st /\ d.sub = e.sub /\ d.noreply = e.noreply
  BY <1>1 DEF DropItem, Stays, ConnFields
<1> HIDE DEF d
<1>3. Stays(c, d) /\ (OutFits(e) => OutFits(d)) /\ (SubFits(e) => SubFits(d))
  BY <1>1, <1>2 DEF Stays, OutFits, SubFits, Cmd
<1> QED
  BY <1>2, <1>3 DEF Formed, Replying, Silent, Reading, Hanging, d


\* What is known of the command that is being handled.
LEMMA CmdFacts ==
  ASSUME conf \in Scenarios, Afforded(conf), NEW c, Started(c)
  PROVE  /\ Cmd(c).key \in Nat /\ Cmd(c).n \in Nat /\ Cmd(c).quiet \in BOOLEAN
         /\ Spoken(conf.prot, Cmd(c))
         /\ conf.prot = "ascii" => (Cmd(c).op = "set" /\ Cmd(c).quiet => ~Cmd(c).big /\ ~conf.oom)
         /\ conf.prot # "ascii" /\ conf.oom =>
              /\ Cmd(c).op \in {"set", "append"} => Cmd(c).big
              /\ Cmd(c).op = "sasl" => Cmd(c).n > 0
BY ScriptFacts DEF Started, Cmd, Afforded

\* A handler notes noreply, or the quiet form of an opcode.
LEMMA NotesQuiet ==
  ASSUME conf \in Scenarios, Afforded(conf), NEW c, Started(c)
  PROVE  LET d == [c EXCEPT !.noreply = Cmd(c).quiet]
         IN  Alike(c, d) /\ d.noreply = Cmd(c).quiet /\ Noted(d)
<1> DEFINE q == Cmd(c).quiet
           d == [c EXCEPT !.noreply = q]
<1>1. q \in BOOLEAN
  BY CmdFacts
<1>2. Alike(c, d) /\ d.noreply = q
  BY DEF Started, Alike, ConnFields
<1> HIDE DEF d
<1>3. Started(d) /\ Cmd(d) = Cmd(c)
  BY <1>1, <1>2, AlikeFormed DEF Alike, Cmd
<1> QED
  BY <1>1, <1>2, <1>3 DEF Noted, d

\* get and gets answer, with the hits or with an error.
LEMMA GetFormed ==
  ASSUME NEW c, Noted(c), c.noreply = FALSE, NEW e \in process_get_command(c)
  PROVE  Formed(c, e, 0)
<1> DEFINE cas == Cmd(c).op = "gets"
           S(n) == IF cas THEN n ELSE 0
           kept(h) == [c EXCEPT !.refs = @ + h, !.ileft = h, !.sufs = @ + S(h),
                                !.suf = IF cas THEN h ELSE @]
           dropped(h) == [c EXCEPT !.sufs = @ + S(h)]
           full(h) == [kept(h) EXCEPT !.out = Answer(c, h + 1), !.st = "mwrite"]
<1>1. PICK h \in 0 .. 2 : \/ e = full(h)
                          \/ e = out_of_memory(kept(h)) \/ e = out_of_memory(dropped(h))
                          \/ e = out_string(dropped(h))
  <2>1. \A h \in 0 .. 1 : h \in 0 .. 2
    OBVIOUS
  <2> QED
    BY <2>1 DEF process_get_command, OrFail
<1>2. Started(c)
  BY DEF Noted
<1>3. Alike(c, kept(h)) /\ kept(h).noreply = FALSE
  BY <1>2 DEF Started, Alike, ConnFields
<1>4. Alike(c, dropped(h)) /\ dropped(h).noreply = FALSE
  BY <1>2 DEF Started, Alike, ConnFields
<1> DEFINE a == Answer(c, h + 1)
<1>5. a \in Seq(Pieces) /\ h + 1 \in Nat \ {0}
  <2>1. h + 1 \in Nat \ {0}
    OBVIOUS
  <2> QED
    BY <1>2, <2>1, AnswerFits DEF Started
<1> HIDE DEF a
<1>6. full(h) = [kept(h) EXCEPT !.out = a, !.st = "mwrite"]
  BY DEF a
<1> HIDE DEF kept, dropped
<1>7. Formed(c, full(h), 0)
  <2> DEFINE k == kept(h)
             b == [k EXCEPT !.out = a, !.st = "mwrite"]
  <2>1. /\ DOMAIN k = ConnFields /\ k.rbuf = c.rbuf /\ k.log = c.log /\ k.i = c.i
        /\ k.prot = c.prot /\ k.rsize = c.rsize /\ k.rl = c.rl /\ k.sb = c.sb /\ k.go = c.go
        /\ k.noreply = FALSE
    BY <1>3 DEF Alike
  <2> HIDE DEF k
  <2>2. Stays(c, b) /\ b.st = "mwrite" /\ b.go = c.go /\ b.sb = c.sb /\ b.out = a /\ b.noreply = FALSE
    BY <1>2, <1>5, <2>1 DEF Started, Stays, ConnFields
  <2> HIDE DEF b
  <2>3. Formed(c, b, 0)
    BY <1>2, <1>5, <2>2, ReplyFormed DEF Started, a
  <2> QED
    BY <1>6, <2>3 DEF b, k
<1>8. Noted(kept(h)) /\ Noted(dropped(h))
  BY <1>3, <1>4, AlikeFormed
<1>9. /\ Formed(c, out_of_memory(kept(h)), 0) /\ Formed(c, out_of_memory(dropped(h)), 0)
      /\ Formed(c, out_string(dropped(h)), 0)
  BY <1>3, <1>4, <1>8, OutOfMemoryFormed, OutStringFormed, AlikeFormed
<1> HIDE DEF full
<1> QED
  BY <1>1, <1>7, <1>9

\* set reads the value into an item, or answers and swallows it.
LEMMA UpdateFormed ==
  ASSUME conf \in Scenarios, Afforded(conf), NEW c, Started(c), c.prot = "ascii", c.sub = "none",
         Cmd(c).op = "set", NEW e \in process_update_command(c)
  PROVE  Formed(c, e, Cmd(c).n)
<1> DEFINE q == Cmd(c)
           n == Cmd(c).n
           d == set_noreply_maybe(c)
           t == TakeItem(d)
           stored == [t EXCEPT !.rl = n, !.st = "nread"]
           o == out_string(d)
           refused == [o EXCEPT !.go = "swallow", !.sb = n]
<1>1. \/ e = stored
      \/ e = refused /\ (q.big \/ conf.oom)
  BY DEF process_update_command, OrFail
<1>2. Alike(c, d) /\ d.noreply = q.quiet /\ Noted(d) /\ n \in Nat
  BY NotesQuiet, CmdFacts DEF set_noreply_maybe
<1> HIDE DEF d
<1>3. CASE e = stored
  <2>1. Alike(c, t) /\ t.noreply = q.quiet
    BY <1>2 DEF Alike, TakeItem, ConnFields
  <2> HIDE DEF t, n
  <2>2. /\ Stays(c, stored) /\ stored.st = "nread" /\ stored.rl = n /\ stored.go = c.go
        /\ stored.sb = c.sb /\ stored.noreply = q.quiet /\ stored.sub = "none"
    BY <1>2, <2>1 DEF Alike, Started, Stays, ConnFields
  <2> HIDE DEF stored
  <2>3. SubFits(stored)
    BY <2>2 DEF SubFits, Stays
  <2>4. n = stored.rl + 0
    BY <1>2, <2>2
  <2> QED
    BY <1>3, <2>2, <2>3, <2>4 DEF Formed, Reading, Started, WithItem, n
<1>4. CASE e = refused /\ (q.big \/ conf.oom)
  <2>1. ~q.quiet
    BY <1>4, CmdFacts DEF Started
  <2>2. Replying(d, o, 0) /\ o.st = "write"
    BY <1>2, <2>1, OutStringFormed
  <2>3. Stays(c, o) /\ o.out # <<>> /\ OutFits(o) /\ o.noreply = FALSE
    BY <1>2, <2>2 DEF Replying, Stays, Alike, Started
  <2> HIDE DEF o, n
  <2>4. /\ Stays(c, refused) /\ refused.st = "write" /\ refused.go = "swallow" /\ refused.sb = n
        /\ refused.noreply = FALSE /\ refused.out = o.out /\ refused.i = o.i
    BY <1>2, <2>2, <2>3 DEF Stays, ConnFields
  <2> HIDE DEF refused
  <2>5. OutFits(refused)
    BY <2>3, <2>4 DEF OutFits
  <2> QED
    BY <1>4, <2>3, <2>4, <2>5 DEF Formed, Replying, n
<1> QED
  BY <1>1, <1>3, <1>4

\* A whole command line.
LEMMA CommandFormed ==
  ASSUME conf \in Scenarios, Afforded(conf), NEW c, Started(c), c.prot = "ascii",
         c.noreply = FALSE, c.sub = "none", NEW e \in process_command(c)
  PROVE  Formed(c, e, Cmd(c).n)
<1> DEFINE d == set_noreply_maybe(c)
           quitted == [c EXCEPT !.st = "closing"]
<1>0. Noted(c)
  BY DEF Noted
<1>1. \/ Cmd(c).op = "set" /\ e \in process_update_command(c)
      \/ e = quitted
      \/ Cmd(c).op # "set" /\ (e \in process_get_command(c)
                                \/ e = write_and_free(c) \/ e = out_of_memory(c)
                                \/ e = out_string(c) \/ e = out_string(d))
  BY DEF process_command, process_arithmetic_command, process_delete_command, process_stat,
         process_touch_command, process_verbosity_command, process_slabs_command, OrFail,
         process_slabs_automove_command, process_lru_crawler_command, process_flush_all_command,
         process_stats_detail
<1>2. CASE e = quitted
  <2>1. Stays(c, quitted) /\ quitted.st = "closing"
    BY DEF Started, Stays, ConnFields
  <2> QED
    BY <1>2, <2>1 DEF Formed, Hanging
<1>3. ASSUME Cmd(c).op # "set" PROVE Cmd(c).n = 0
  BY <1>3, CmdFacts DEF Started, Spoken
<1>4. Formed(c, out_string(d), 0)
  <2>1. Alike(c, d) /\ Noted(d)
    BY NotesQuiet DEF set_noreply_maybe
  <2> HIDE DEF d
  <2> QED
    BY <2>1, OutStringFormed, AlikeFormed
<1>5. /\ Formed(c, write_and_free(c), 0) /\ Formed(c, out_of_memory(c), 0)
      /\ Formed(c, out_string(c), 0)
  BY <1>0, OutStringFormed, OutOfMemoryFormed, WriteAndFreeFormed
<1> HIDE DEF d, quitted
<1> QED
  BY <1>0, <1>1, <1>2, <1>3, <1>4, <1>5, UpdateFormed, GetFormed


\* bin_read_key waits for the key and extras, or closes.
LEMMA BinReadKeyFormed ==
  ASSUME conf \in Scenarios, Afforded(conf), NEW c, Started(c), c.prot = "binary",
         c.noreply = Cmd(c).quiet, NEW sub \in Subs \ {"set_value", "sasl_data"},
         sub = "set_header" => Cmd(c).op \in {"set", "append"},
         sub = "sasl" => Cmd(c).op = "sasl",
         sub \in {"get_key", "stat", "del", "incr", "flush"} => Cmd(c).n = 0,
         NEW e \in bin_read_key(c, sub)
  PROVE  Formed(c, e, Cmd(c).key + Cmd(c).n)
<1> DEFINE k == Cmd(c).key
           r == IF c.rsize < 2 + k THEN 2 * c.rsize ELSE c.rsize
           key == [c EXCEPT !.sub = sub, !.rl = k, !.st = "nread", !.rsize = r]
           none == [c EXCEPT !.sub = sub, !.rl = k, !.st = "closing"]
<1>1. e = key \/ e = none
  BY DEF bin_read_key, OrFail
<1>2. k \in Nat /\ r \in Nat /\ r >= c.rsize
  <2>1. k \in Nat /\ c.rsize \in Nat
    BY CmdFacts DEF Started
  <2> HIDE DEF k
  <2> QED
    BY <2>1
<1> HIDE DEF r, k
<1>3. CASE e = none
  <2>1. Stays(c, none) /\ none.st = "closing"
    BY <1>2 DEF Started, Stays, ConnFields
  <2> QED
    BY <1>3, <2>1 DEF Formed, Hanging
<1>4. CASE e = key
  <2>1. /\ Stays(c, key) /\ key.st = "nread" /\ key.go = c.go /\ key.sb = c.sb /\ key.rl = k
        /\ key.noreply = c.noreply /\ key.sub = sub /\ key.prot = "binary" /\ Cmd(key) = Cmd(c)
    BY <1>2 DEF Started, Stays, ConnFields, Cmd
  <2> HIDE DEF key
  <2>2. SubFits(key)
    BY <2>1 DEF SubFits
  <2>3. sub \notin WithItem
    BY DEF Subs, WithItem
  <2> QED
    BY <1>4, <2>1, <2>2, <2>3 DEF Formed, Reading, Started, k
<1> QED
  BY <1>1, <1>3, <1>4

\* The list of mechanisms is an answer or an error.
LEMMA MechsFormed ==
  ASSUME NEW c, Noted(c), c.prot = "binary", NEW e \in bin_list_sasl_mechs(c)
  PROVE  Formed(c, e, 0)
<1> DEFINE d == [c EXCEPT !.auth = FALSE]
<1>1. e = write_bin_response(d) \/ e = write_bin_error(d, 0) \/ e = write_bin_error(c, 0)
  BY DEF bin_list_sasl_mechs
<1>2. Alike(c, d) /\ d.noreply = c.noreply
  BY DEF Noted, Started, Alike, ConnFields
<1> HIDE DEF d
<1>3. Noted(d) /\ d.prot = "binary" /\ 0 \in Nat
  BY <1>2, AlikeFormed DEF Alike
<1>4. Formed(d, write_bin_response(d), 0) /\ Formed(d, write_bin_error(d, 0), 0)
  BY <1>3, BinResponseFormed, BinErrorFormed DEF Noted
<1>5. Formed(c, write_bin_error(c, 0), 0)
  BY <1>3, BinErrorFormed DEF Noted
<1> QED
  BY <1>1, <1>2, <1>4, <1>5, AlikeFormed

\* A whole binary header.
LEMMA DispatchFormed ==
  ASSUME conf \in Scenarios, Afforded(conf), NEW c0, Started(c0), c0.prot = "binary",
         NEW e \in dispatch_bin_command(c0)
  PROVE  Formed(c0, e, Cmd(c0).key + Cmd(c0).n)
<1> DEFINE c == NoteQuiet(c0)
           q == Cmd(c)
           R == Cmd(c).key + Cmd(c).n
           bye == [write_bin_response(c) EXCEPT !.go = "closing"]
           hung == [bye EXCEPT !.st = "closing"]
           key(sub) == e \in bin_read_key(c, sub)
<1>1. Alike(c0, c) /\ c.noreply = Cmd(c0).quiet /\ Noted(c)
  BY NotesQuiet DEF NoteQuiet
<1>2. Cmd(c) = Cmd(c0) /\ Started(c) /\ c.prot = "binary" /\ conf.prot = "binary"
  BY <1>1 DEF Alike, Cmd, Noted, Started
<1>3. \/ e = [write_bin_error(c0, 0) EXCEPT !.go = "closing"]
      \/ e = [write_bin_error(c, 0) EXCEPT !.go = "closing"]
      \/ e = write_bin_response(c) /\ q.op \in {"version", "noop"}
      \/ key("flush") /\ q.op = "flush_all"
      \/ key("set_header") /\ q.op \in {"set", "append"}
      \/ key("get_key") /\ q.op \in {"get", "touch"}
      \/ key("del") /\ q.op = "delete"
      \/ key("incr") /\ q.op = "incr"
      \/ key("stat") /\ q.op = "stats"
      \/ key("sasl") /\ q.op = "sasl"
      \/ e \in bin_list_sasl_mechs(c) /\ q.op = "mechs"
      \/ e = bye /\ ~c.noreply
      \/ e = hung
      \/ e = write_bin_error(c, R)
  BY <1>2 DEF dispatch_bin_command, handle_binary_protocol_error, dispatch_unknown
<1> HIDE DEF c
<1>4. /\ q.key \in Nat /\ q.n \in Nat /\ Spoken("binary", q) /\ R \in Nat
  BY <1>2, CmdFacts
<1>5. ASSUME Formed(c, e, R) PROVE Formed(c0, e, Cmd(c0).key + Cmd(c0).n)
  BY <1>1, <1>2, <1>5, AlikeFormed
<1>6. CASE e = [write_bin_error(c0, 0) EXCEPT !.go = "closing"]
  <2>1. 0 \in Nat
    OBVIOUS
  <2> QED
    BY <1>6, <2>1, BinErrorFormed
<1>7. CASE e = [write_bin_error(c, 0) EXCEPT !.go = "closing"]
  <2>1. 0 \in Nat
    OBVIOUS
  <2> QED
    BY <1>2, <1>5, <1>7, <2>1, BinErrorFormed
<1>8. CASE e = write_bin_response(c) /\ q.op \in {"version", "noop"}
  <2>1. R = 0
    BY <1>4, <1>8 DEF Spoken
  <2>2. Formed(c, e, 0)
    BY <1>1, <1>2, <1>8, BinResponseFormed
  <2> QED
    BY <1>5, <2>1, <2>2
<1>9. CASE e \in bin_list_sasl_mechs(c) /\ q.op = "mechs"
  <2>1. R = 0
    BY <1>4, <1>9 DEF Spoken
  <2>2. Formed(c, e, 0)
    BY <1>1, <1>2, <1>9, MechsFormed
  <2> QED
    BY <1>5, <2>1, <2>2
<1>10. CASE e = bye /\ ~c.noreply
  BY <1>1, <1>2, <1>5, <1>10, BinResponseFormed
<1>11. CASE e = hung
  <2> DEFINE b == write_bin_response(c)
  <2>1. Stays(c, b)
    <3>1. Formed(c, b, 0)
      BY <1>1, <1>2, BinResponseFormed
    <3> QED
      BY <3>1 DEF Formed, Replying, Silent, Reading, Hanging
  <2>2. hung = [[b EXCEPT !.go = "closing"] EXCEPT !.st = "closing"]
    OBVIOUS
  <2> HIDE DEF b, bye, hung
  <2>3. Stays(c, hung) /\ hung.st = "closing"
    BY <2>1, <2>2 DEF Stays, ConnFields
  <2> QED
    BY <1>5, <1>11, <2>3 DEF Formed, Hanging
<1>12. CASE e = write_bin_error(c, R)
  BY <1>2, <1>4, <1>5, <1>12, BinErrorFormed
<1>13. CASE \E sub \in {"flush", "get_key", "del", "incr", "stat"} :
              key(sub) /\ q.op \in {"flush_all", "get", "touch", "delete", "incr", "stats"}
  <2>1. PICK sub \in {"flush", "get_key", "del", "incr", "stat"} : key(sub)
    BY <1>13
  <2>2. q.n = 0 /\ sub \in Subs \ {"set_value", "sasl_data"} /\ sub \notin {"set_header", "sasl"}
    BY <1>4, <1>13, <2>1 DEF Spoken, Subs
  <2>3. Formed(c, e, R)
    BY <1>1, <1>2, <2>1, <2>2, BinReadKeyFormed
  <2> QED
    BY <1>5, <2>3
<1>14. CASE key("set_header") /\ q.op \in {"set", "append"}
  <2>1. "set_header" \in Subs \ {"set_value", "sasl_data"}
    BY DEF Subs
  <2>2. Formed(c, e, R)
    BY <1>1, <1>2, <1>14, <2>1, BinReadKeyFormed
  <2> QED
    BY <1>5, <2>2
<1>15. CASE key("sasl") /\ q.op = "sasl"
  <2>1. "sasl" \in Subs \ {"set_value", "sasl_data"}
    BY DEF Subs
  <2>2. Formed(c, e, R)
    BY <1>1, <1>2, <1>15, <2>1, BinReadKeyFormed
  <2> QED
    BY <1>5, <2>2
<1> HIDE DEF key, bye, hung, q, R
<1>16. \/ \E sub \in {"flush", "get_key", "del", "incr", "stat"} :
            key(sub) /\ q.op \in {"flush_all", "get", "touch", "delete", "incr", "stats"}
       \/ ~(\/ key("flush") /\ q.op = "flush_all"
            \/ key("get_key") /\ q.op \in {"get", "touch"}
            \/ key("del") /\ q.op = "delete"
            \/ key("incr") /\ q.op = "incr"
            \/ key("stat") /\ q.op = "stats")
  OBVIOUS
<1> QED
  BY <1>3, <1>6, <1>7, <1>8, <1>9, <1>10, <1>11, <1>12, <1>13, <1>14, <1>15, <1>16


\* A hit takes the item and answers with it, or reads a value into it.
LEMMA TakeAlike ==
  ASSUME NEW c, Started(c)
  PROVE  Alike(c, TakeItem(c)) /\ TakeItem(c).noreply = c.noreply
BY DEF Started, Alike, TakeItem, ConnFields

\* What comes next of a command is read into an item.
LEMMA ItemFormed ==
  ASSUME conf \in Scenarios, Afforded(conf), NEW c, Started(c), c.prot = "binary",
         c.noreply = Cmd(c).quiet, NEW sub \in {"set_value", "sasl_data"}
  PROVE  Formed(c, [TakeItem(c) EXCEPT !.rl = Cmd(c).n, !.sub = sub, !.st = "nread"], Cmd(c).n)
<1> DEFINE t == TakeItem(c)
           n == Cmd(c).n
           e == [t EXCEPT !.rl = n, !.sub = sub, !.st = "nread"]
<1>1. n \in Nat
  BY CmdFacts
<1>2. Alike(c, t) /\ t.noreply = c.noreply
  BY TakeAlike
<1> HIDE DEF t, n
<1>3. /\ Stays(c, e) /\ e.st = "nread" /\ e.rl = n /\ e.sub = sub /\ e.noreply = c.noreply
      /\ e.go = c.go /\ e.sb = c.sb /\ e.prot = "binary"
  BY <1>1, <1>2 DEF Started, Alike, Stays, ConnFields
<1> HIDE DEF e
<1>4. SubFits(e) /\ e.sub \in WithItem /\ n = e.rl + 0
  BY <1>1, <1>3 DEF SubFits, Subs, WithItem
<1> QED
  BY <1>3, <1>4 DEF Formed, Reading, Started, e, t, n

\* A set goes on with its value, or swallows it after the error.
LEMMA ValueItemFormed ==
  ASSUME conf \in Scenarios, Afforded(conf), NEW c, Started(c), c.prot = "binary",
         c.noreply = Cmd(c).quiet, Cmd(c).op \in {"set", "append"}, NEW e \in ValueItem(c)
  PROVE  Formed(c, e, Cmd(c).n)
<1> DEFINE q == Cmd(c)
<1>1. \/ e = [TakeItem(c) EXCEPT !.rl = q.n, !.sub = "set_value", !.st = "nread"]
      \/ q.big /\ e = [write_bin_error(c, q.n) EXCEPT !.go = "swallow"]
      \/ ~q.big /\ conf.oom
  BY DEF ValueItem, OrFail
<1>2. /\ q.n \in Nat /\ (q.big => q.n > 0) /\ ~(~q.big /\ conf.oom)
      /\ "set_value" \in {"set_value", "sasl_data"}
  BY CmdFacts DEF Spoken, Started
<1>3. Formed(c, [TakeItem(c) EXCEPT !.rl = q.n, !.sub = "set_value", !.st = "nread"], q.n)
  BY <1>2, ItemFormed
<1>4. q.n > 0 => Formed(c, [write_bin_error(c, q.n) EXCEPT !.go = "swallow"], q.n)
  BY <1>2, BinErrorFormed
<1> QED
  BY <1>1, <1>2, <1>3, <1>4

\* An authentication goes on with its data, or swallows them.
LEMMA SaslAuthFormed ==
  ASSUME conf \in Scenarios, Afforded(conf), NEW c, Started(c), c.prot = "binary",
         c.noreply = Cmd(c).quiet, Cmd(c).op = "sasl", NEW e \in process_bin_sasl_auth(c)
  PROVE  Formed(c, e, Cmd(c).n)
<1> DEFINE q == Cmd(c)
<1>1. \/ e = [TakeItem(c) EXCEPT !.rl = q.n, !.sub = "sasl_data", !.st = "nread"]
      \/ e = write_bin_error(c, q.n)
      \/ conf.oom /\ e = [write_bin_error(c, q.n) EXCEPT !.go = "swallow"]
  BY DEF process_bin_sasl_auth, OrFail
<1>2. q.n \in Nat /\ (conf.oom => q.n > 0) /\ "sasl_data" \in {"set_value", "sasl_data"}
  BY CmdFacts DEF Started
<1>3. Formed(c, [TakeItem(c) EXCEPT !.rl = q.n, !.sub = "sasl_data", !.st = "nread"], q.n)
  BY <1>2, ItemFormed
<1>4. /\ Formed(c, write_bin_error(c, q.n), q.n)
      /\ q.n > 0 => Formed(c, [write_bin_error(c, q.n) EXCEPT !.go = "swallow"], q.n)
  BY <1>2, BinErrorFormed
<1> QED
  BY <1>1, <1>2, <1>3, <1>4

\* A get that hits answers with the item; one that misses answers, or is silent.
LEMMA GetOrTouchFormed ==
  ASSUME NEW c, Noted(c), c.prot = "binary", NEW e \in process_bin_get_or_touch(c)
  PROVE  Formed(c, e, 0)
<1> DEFINE a == Answer(c, 1)
           t == TakeItem(c)
           hit == [t EXCEPT !.out = a, !.st = "mwrite", !.go = "new_cmd"]
           miss == [c EXCEPT !.st = "new_cmd"]
<1>0. Started(c) /\ 0 \in Nat
  BY DEF Noted
<1>1. e = hit \/ (c.noreply /\ e = miss) \/ e = write_bin_error(c, 0)
  BY DEF process_bin_get_or_touch
<1>2. a \in Seq(Pieces) /\ 1 \in Nat \ {0}
  BY <1>0, AnswerFits DEF Started
<1>3. Alike(c, t)
  BY <1>0, TakeAlike
<1> HIDE DEF a, t
<1>4. Stays(c, hit) /\ hit.st = "mwrite" /\ hit.go = "new_cmd" /\ hit.out = a /\ hit.prot = "binary"
  BY <1>0, <1>2, <1>3 DEF Started, Alike, Stays, ConnFields
<1>5. Stays(c, miss) /\ miss.st = "new_cmd" /\ miss.go = c.go /\ miss.sb = c.sb /\ miss.prot = "binary"
  BY <1>0 DEF Started, Stays, ConnFields
<1> HIDE DEF hit, miss
<1>6. Formed(c, hit, 0)
  BY <1>0, <1>2, <1>4, ReplyFormed DEF a
<1>7. c.noreply => Formed(c, miss, 0)
  BY <1>0, <1>5 DEF Formed, Silent, Started, Noted
<1> QED
  BY <1>0, <1>1, <1>6, <1>7, BinErrorFormed

\* The end of an authentication is answered.
LEMMA SaslDoneFormed ==
  ASSUME NEW c, Noted(c), c.prot = "binary", NEW e \in process_bin_complete_sasl_auth(c)
  PROVE  Formed(c, e, 0)
<1> DEFINE a == Answer(c, 1)
           d == [c EXCEPT !.auth = FALSE]
           b == write_bin_response(c)
           ok == [b EXCEPT !.auth = TRUE]
           more == [c EXCEPT !.auth = FALSE, !.out = a, !.st = "mwrite", !.go = "new_cmd"]
<1>0. Started(c) /\ 0 \in Nat
  BY DEF Noted
<1>1. e = ok \/ e = write_bin_error(d, 0) \/ e = more
  BY DEF process_bin_complete_sasl_auth
<1>2. a \in Seq(Pieces) /\ 1 \in Nat \ {0}
  BY <1>0, AnswerFits DEF Started
<1>3. Alike(c, d)
  BY <1>0 DEF Started, Alike, ConnFields
<1> HIDE DEF a, d
<1>4. Stays(c, more) /\ more.st = "mwrite" /\ more.go = "new_cmd" /\ more.out = a /\ more.prot = "binary"
  BY <1>0, <1>2 DEF Started, Stays, ConnFields
<1> HIDE DEF more
<1>5. Formed(c, more, 0)
  BY <1>0, <1>2, <1>4, ReplyFormed DEF a
<1>6. Formed(c, write_bin_error(d, 0), 0)
  <2>1. Started(d) /\ d.prot = "binary"
    BY <1>0, <1>3, AlikeFormed DEF Alike
  <2> QED
    BY <1>0, <1>3, <2>1, BinErrorFormed, AlikeFormed
<1>7. Formed(c, ok, 0)
  <2>1. Formed(c, b, 0)
    BY BinResponseFormed
  <2>2. Stays(c, b) /\ b.st \in {"mwrite", "new_cmd"}
    BY <2>1 DEF Formed, Replying, Silent, Reading, Hanging, write_bin_response, Noted, Started, ConnFields
  <2> HIDE DEF b
  <2>3. /\ DOMAIN ok = ConnFields /\ ok.rbuf = b.rbuf /\ ok.log = b.log /\ ok.i = b.i /\ ok.prot = b.prot
        /\ ok.rsize = b.rsize /\ ok.rl = b.rl /\ ok.sb = b.sb /\ ok.go = b.go /\ ok.out = b.out
        /\ ok.st = b.st /\ ok.sub = b.sub /\ ok.noreply = b.noreply
    BY <2>2 DEF Stays, ConnFields
  <2> HIDE DEF ok
  <2>4. Stays(c, ok) /\ (OutFits(b) => OutFits(ok)) /\ (SubFits(b) => SubFits(ok))
    BY <2>2, <2>3 DEF Stays, OutFits, SubFits, Cmd
  <2> QED
    BY <2>1, <2>3, <2>4 DEF Formed, Replying, Silent, Reading, Hanging
<1> QED
  BY <1>1, <1>5, <1>6, <1>7

\* A command whose value or key has come.
LEMMA CompleteFormed ==
  ASSUME conf \in Scenarios, Afforded(conf), NEW c, Started(c), c.noreply = Cmd(c).quiet,
         c.st = "nread", SubFits(c), NEW e \in complete_nread(c)
  PROVE  Formed(c, e, IF c.sub \in WithItem THEN 0 ELSE Cmd(c).n)
<1>1. Noted(c) /\ Cmd(c).n \in Nat /\ 0 \in Nat
  BY CmdFacts DEF Noted
<1>2. c.prot \in {"ascii", "binary"}
  BY ScriptFacts DEF Started
<1>3. CASE c.prot = "ascii"
  <2>1. e = DropItem(out_string(c)) /\ c.sub = "none"
    BY <1>3 DEF complete_nread, complete_nread_ascii, SubFits
  <2>2. Formed(c, e, 0)
    BY <1>1, <2>1, OutStringFormed, DropFormed
  <2> QED
    BY <2>1, <2>2 DEF WithItem
<1>4. CASE c.prot = "binary"
  <2>1. /\ e \in complete_nread_binary(c) /\ c.sub \in Subs
        /\ c.sub = "set_header" => Cmd(c).op \in {"set", "append"}
        /\ c.sub = "sasl" => Cmd(c).op = "sasl"
        /\ c.sub \in {"get_key", "stat", "del", "incr", "flush"} => Cmd(c).n = 0
    BY <1>4 DEF complete_nread, SubFits
  <2>2. CASE c.sub = "set_header"
    <3>1. e \in ValueItem(c) /\ c.sub \notin WithItem
      BY <2>1, <2>2 DEF complete_nread_binary, process_bin_append_prepend, process_bin_update, WithItem
    <3> QED
      BY <1>4, <2>1, <2>2, <3>1, ValueItemFormed
  <2>3. CASE c.sub = "set_value"
    <3>1. e = DropItem(write_bin_response(c)) \/ e = DropItem(write_bin_error(c, 0))
      BY <2>1, <2>3 DEF complete_nread_binary, complete_update_bin
    <3>2. Formed(c, write_bin_response(c), 0) /\ Formed(c, write_bin_error(c, 0), 0)
      BY <1>1, <1>4, BinResponseFormed, BinErrorFormed
    <3>3. Formed(c, e, 0) /\ c.sub \in WithItem
      BY <2>3, <3>1, <3>2, DropFormed DEF WithItem
    <3> QED
      BY <3>3
  <2>4. CASE c.sub \in {"get_key", "stat", "del", "incr", "flush"}
    <3>1. \/ e \in process_bin_get_or_touch(c)
          \/ e \in {write_bin_response(c), write_bin_error(c, 0), out_of_memory(c), write_and_free(c)}
      BY <2>1, <2>4 DEF complete_nread_binary, process_bin_stat, process_bin_delete,
                        complete_incr_bin, process_bin_flush, OrFail
    <3>2. Formed(c, write_bin_response(c), 0) /\ Formed(c, write_bin_error(c, 0), 0)
      BY <1>1, <1>4, BinResponseFormed, BinErrorFormed
    <3>3. Formed(c, out_of_memory(c), 0) /\ Formed(c, write_and_free(c), 0)
      BY <1>1, <1>4, OutOfMemoryFormed, WriteAndFreeFormed
    <3>4. Formed(c, e, 0) /\ Cmd(c).n = 0
      BY <1>1, <1>4, <2>1, <2>4, <3>1, <3>2, <3>3, GetOrTouchFormed
    <3> QED
      BY <3>4
  <2>5. CASE c.sub = "sasl"
    <3>1. e \in process_bin_sasl_auth(c) /\ c.sub \notin WithItem
      BY <2>1, <2>5 DEF complete_nread_binary, WithItem
    <3> QED
      BY <1>4, <2>1, <2>5, <3>1, SaslAuthFormed
  <2>6. CASE c.sub = "sasl_data"
    <3>1. e \in process_bin_complete_sasl_auth(c) /\ c.sub \in WithItem
      BY <2>1, <2>6 DEF complete_nread_binary, WithItem
    <3> QED
      BY <1>1, <1>4, <3>1, SaslDoneFormed
  <2> QED
    BY <2>1, <2>2, <2>3, <2>4, <2>5, <2>6 DEF Subs
<1> QED
  BY <1>2, <1>3, <1>4


(***************************************************************************)
(* The turns of drive_machine keep a connection in step.                   *)
(***************************************************************************)

\* Between commands: the one in progress, if any, is answered and all of it gone.
Rested(e) ==
  /\ DOMAIN e = ConnFields /\ e.go \in {"new_cmd", "swallow"} /\ (e.go = "swallow" => e.sb = 0)
  /\ LogOrder(e) /\ e.sb \in Nat /\ e.rsize \in Nat /\ e.rl \in Nat /\ e.i \in 0 .. Len(conf.script)
  /\ e.rbuf \in Seq(Units) /\ Len(e.rbuf) <= e.rsize /\ e.out \in Seq(Pieces)
  /\ e.prot \in {conf.bind, conf.prot} /\ (e.prot = "binary" \/ e.noreply = FALSE)
  /\ Below(e, e.i + 1) /\ \A j \in 1 .. e.i : Answered(e, j)

\* Such a connection is in step.
LEMMA RestedHolds ==
  ASSUME conf \in Scenarios, NEW e, Rested(e), e.st \in Between, e.st # "new_cmd" => e.sub = "none",
         e.st = "parse_cmd" => e.rbuf # <<>>
  PROVE  RecordInv(e) /\ Live(e) /\ Target(e) = e.st /\ Target(e) # "closing" /\ Due(e) = 0
<1>1. Live(e) /\ Target(e) = e.st /\ Target(e) # "closing" /\ Due(e) = 0
  BY DEF Between, Live, Target, Due
<1>2. e.i \in Nat /\ (e.i # 0 => e.i \in 1 .. Len(conf.script))
  BY ScriptFacts DEF Rested
<1>3. Told(e)
  BY DEF Rested, Told, Between
<1>4. InStep(e)
  <2>1. e.i # 0 => Cmd(e).key \in Nat /\ Cmd(e).n \in Nat
    BY <1>2, ScriptFacts DEF Cmd
  <2>2. e.i # 0 => 0 <= Cmd(e).key + Cmd(e).n
    BY <2>1
  <2> QED
    BY <1>1, <2>2 DEF InStep, Rested
<1>5. Answers(e)
  <2>1. \A j \in 1 .. e.i - 1 : j \in 1 .. e.i
    BY <1>2
  <2>2. e.i # 0 => e.i \in 1 .. e.i
    BY <1>2
  <2> QED
    BY <2>1, <2>2 DEF Answers, Rested, Between
<1> QED
  BY <1>1, <1>2, <1>3, <1>4, <1>5 DEF RecordInv, Rested, States, Pieces

\* A connection between commands, or with nothing left to swallow, rests.
LEMMA RestedIs ==
  ASSUME conf \in Scenarios, NEW c, RecordInv(c),
         c.st \in Between \/ (c.st = "swallow" /\ c.sb = 0)
  PROVE  Rested(c)
<1>1. Live(c) /\ Target(c) # "closing" /\ c.st \notin {"write", "mwrite", "nread"}
  BY DEF Between, Live, Target
<1>2. Told(c) /\ InStep(c) /\ Answers(c)
  BY <1>1 DEF RecordInv
<1>3. c.i \in Nat /\ c.i \in 0 .. Len(conf.script)
  BY <1>1, <1>2, ScriptFacts DEF InStep
<1>4. \A j \in 1 .. c.i : Answered(c, j)
  <2> SUFFICES ASSUME NEW j \in 1 .. c.i PROVE Answered(c, j)
    OBVIOUS
  <2>1. j \in 1 .. c.i - 1 \/ j = c.i
    BY <1>3
  <2>2. c.i # 0
    BY <1>3
  <2> QED
    BY <1>2, <2>1, <2>2 DEF Answers
<1>5. c.go \in {"new_cmd", "swallow"} /\ (c.go = "swallow" => c.sb = 0)
  BY <1>1, <1>2 DEF Told, RecordInv, Between
<1> QED
  BY <1>1, <1>2, <1>3, <1>4, <1>5 DEF RecordInv, Rested, Told, Answers, Pieces

\* Only the worker's side of the connection changes.
SameTalk(c, e) ==
  /\ DOMAIN e = ConnFields /\ e.st = c.st /\ e.prot = c.prot /\ e.rbuf = c.rbuf
  /\ e.rsize = c.rsize /\ e.i = c.i /\ e.rl = c.rl /\ e.sb = c.sb /\ e.go = c.go
  /\ e.noreply = c.noreply /\ e.sub = c.sub /\ e.out = c.out /\ e.log = c.log

\* Then nothing changes for the client.
LEMMA SameTalkSynced ==
  ASSUME NEW off, NEW c, NEW s, NEW e, Synced(off, c, s), SameTalk(c, e)
  PROVE  Synced(off, e, s)
<1>1. /\ Target(e) = Target(c) /\ Due(e) = Due(c) /\ (Live(e) <=> Live(c)) /\ Cmd(e) = Cmd(c)
  BY DEF SameTalk, Target, Due, Live, Cmd
<1>2. /\ LogOrder(c) => LogOrder(e)
      /\ Told(c) => Told(e)
      /\ InStep(c) => InStep(e)
  BY <1>1 DEF SameTalk, LogOrder, Told, InStep, SubFits
<1>3. Answers(c) => Answers(e)
  BY <1>1 DEF SameTalk, Answers, Answered, Below, OutFits
<1>4. RecordInv(e)
  BY <1>1, <1>2, <1>3 DEF Synced, RecordInv, SameTalk
<1> QED
  BY <1>1, <1>4 DEF Synced, SameTalk

\* A connection that is to be closed has nothing to be in step with.
LEMMA HungSynced ==
  ASSUME NEW off, NEW c, RecordInv(c), NEW e, DOMAIN e = ConnFields, e.st = "closing",
         e.go = c.go, e.log = c.log, e.sb \in Nat, e.rsize \in Nat, e.i \in Nat, NEW s
  PROVE  Synced(off, e, s)
<1>1. RecordInv(e)
  BY DEF RecordInv, LogOrder, Live, States
<1> QED
  BY <1>1 DEF Synced, Live

\* What is known of the connection and its socket when its turn comes.
LEMMA TurnFacts ==
  ASSUME NEW off, SyncInv(off), NEW f \in Fds
  PROVE  /\ conf \in Scenarios /\ Afforded(conf) /\ Ends(conf.script, off)
         /\ Stream \in Seq(Units) /\ RecordInv(conn[f]) /\ Synced(off, conn[f], sock[f])
         /\ DOMAIN conn[f] = ConnFields /\ DOMAIN sock[f] = SockFields
         /\ DOMAIN conn = Fds /\ DOMAIN sock = Fds
         /\ \A i \in 0 .. Len(conf.script) : off[i] \in Nat
         /\ off[0] = 0
BY StreamIs DEF SyncInv, Synced, RecordInv, Ends

\* At first there is no connection, and every script has its ends.
LEMMA SyncInit ==
  ASSUME Init, \A s \in Scenarios : Afforded(s)
  PROVE  \E off : SyncInv(off)
<1>1. conf \in Scenarios /\ Afforded(conf)
  BY DEF Init
<1>2. PICK off : Ends(conf.script, off)
  BY <1>1, EndsExist, ScriptFacts
<1>3. ASSUME NEW f \in Fds
      PROVE  DOMAIN sock[f] = SockFields /\ Synced(off, conn[f], sock[f])
  <2>1. /\ conn[f] = NoConn /\ sock[f] = [open |-> FALSE, todo |-> <<>>, net |-> <<>>, eof |-> FALSE,
                                          wr |-> TRUE]
    BY DEF Init
  <2>2. DOMAIN sock[f] = SockFields /\ sock[f].open = FALSE
    BY <2>1 DEF SockFields
  <2>3. /\ DOMAIN NoConn = ConnFields /\ NoConn.st = "closed" /\ NoConn.go = "new_cmd"
        /\ NoConn.sb = 0 /\ NoConn.rsize = RSize /\ NoConn.i = 0 /\ NoConn.log = <<>>
    BY DEF NoConn, ConnFields
  <2>4. LogOrder(NoConn)
    BY <2>3, EmptySeq DEF LogOrder
  <2>5. RecordInv(NoConn)
    BY <2>3, <2>4, ConnAssumption DEF RecordInv, Live, States
  <2> QED
    BY <2>1, <2>2, <2>3, <2>5 DEF Synced, Live
<1>4. DOMAIN conn = Fds /\ DOMAIN sock = Fds
  BY DEF Init
<1> QED
  BY <1>1, <1>2, <1>3, <1>4 DEF SyncInv


\* The end of a turn that leaves the socket alone.
LEMMA OnlyConn ==
  ASSUME NEW off, SyncInv(off), NEW f \in Fds, NEW e, Become(f, e), sock' = sock, conf' = conf,
         Synced(off, e, sock[f])
  PROVE  SyncInv(off)'
<1>1. DOMAIN sock[f] = SockFields
  BY TurnFacts
<1> QED
  BY <1>1, SyncOne DEF Become

\* An event only makes the connection run.
LEMMA EventSync ==
  ASSUME NEW off, SyncInv(off), NEW f \in Fds, event_handler(f)
  PROVE  SyncInv(off)'
<1> DEFINE c == conn[f]
           e == [c EXCEPT !.run = TRUE, !.nreqs = ReqsPerEvent]
<1>1. Become(f, e) /\ sock' = sock /\ conf' = conf
  BY DEF event_handler, Still
<1>2. SameTalk(c, e)
  BY TurnFacts DEF SameTalk, ConnFields
<1>3. Synced(off, e, sock[f])
  BY <1>2, TurnFacts, SameTalkSynced
<1> QED
  BY <1>1, <1>3, OnlyConn

\* A connection that rests goes on resting, where it is in the stream.
LEMMA RestedSynced ==
  ASSUME NEW off, SyncInv(off), NEW f \in Fds, conn[f].st \in Between,
         NEW e, Rested(e), e.i = conn[f].i, e.rbuf = conn[f].rbuf,
         e.st \in Between, e.st # "new_cmd" => e.sub = "none",
         e.st = "parse_cmd" => e.rbuf # <<>>
  PROVE  Synced(off, e, sock[f])
<1> DEFINE c == conn[f]
<1>1. RecordInv(c) /\ Synced(off, c, sock[f]) /\ conf \in Scenarios
  BY TurnFacts
<1>2. Live(c) /\ Target(c) # "closing" /\ Due(c) = 0
  BY DEF Between, Live, Target, Due
<1>3. RecordInv(e) /\ Live(e) /\ Due(e) = 0
  BY <1>1, RestedHolds
<1> QED
  BY <1>1, <1>2, <1>3 DEF Synced, Live

\* conn_new_cmd looks at what is in the buffer, or yields.
LEMMA NewCmdSync ==
  ASSUME NEW off, SyncInv(off), NEW f \in Fds, NewCmd(f)
  PROVE  SyncInv(off)'
<1> DEFINE c == conn[f]
           less == [c EXCEPT !.nreqs = @ - 1]
           b == IF less.item THEN DropItem(less) ELSE less
           d == conn_shrink(b)
           e == [d EXCEPT !.sub = "none", !.st = IF d.rbuf # <<>> THEN "parse_cmd" ELSE "waiting"]
           yield == Stop([c EXCEPT !.ev = IF c.rbuf # <<>> THEN "write" ELSE @])
<1>1. c.st = "new_cmd" /\ sock' = sock /\ conf' = conf /\ (Become(f, e) \/ Become(f, yield))
  BY DEF NewCmd, Still, reset_cmd_handler
<1>2. DOMAIN c = ConnFields /\ RecordInv(c) /\ conf \in Scenarios /\ Synced(off, c, sock[f])
  BY TurnFacts
<1>3. Rested(c)
  BY <1>1, <1>2, RestedIs DEF Between
<1> HIDE DEF c
<1>4. Synced(off, yield, sock[f])
  <2>1. SameTalk(c, yield)
    BY <1>2 DEF Stop, SameTalk, ConnFields
  <2> QED
    BY <1>2, <2>1, SameTalkSynced
<1>5. SameTalk(c, less)
  BY <1>2 DEF SameTalk, ConnFields
<1> HIDE DEF less, yield
<1>6. SameTalk(c, b)
  BY <1>5 DEF DropItem, SameTalk, ConnFields
<1> HIDE DEF b
<1>7. /\ DOMAIN d = ConnFields /\ d.rsize \in {c.rsize, RSize} /\ d.rbuf = c.rbuf
      /\ (d.rsize = RSize => Len(c.rbuf) <= RSize) \/ d.rsize = c.rsize
      /\ d.st = c.st /\ d.prot = c.prot /\ d.i = c.i /\ d.rl = c.rl /\ d.sb = c.sb /\ d.go = c.go
      /\ d.noreply = c.noreply /\ d.out = c.out /\ d.log = c.log
  <2>1. CASE d = b
    BY <1>6, <2>1 DEF SameTalk
  <2>2. CASE d = [b EXCEPT !.rsize = RSize] /\ Len(b.rbuf) < RSize
    <3>1. Len(c.rbuf) \in Nat /\ RSize \in Nat /\ Len(c.rbuf) < RSize
      BY <1>3, <1>6, <2>2, ConnAssumption DEF SameTalk, Rested
    <3>2. Len(c.rbuf) <= RSize
      BY <3>1
    <3> QED
      BY <1>6, <2>2, <3>2 DEF SameTalk, ConnFields
  <2> QED
    BY <2>1, <2>2 DEF conn_shrink
<1> HIDE DEF d
<1>8. /\ DOMAIN e = ConnFields /\ e.rsize = d.rsize /\ e.rbuf = c.rbuf /\ e.sub = "none"
      /\ e.st \in {"parse_cmd", "waiting"} /\ (e.st = "parse_cmd" => e.rbuf # <<>>)
      /\ e.prot = c.prot /\ e.i = c.i /\ e.rl = c.rl /\ e.sb = c.sb /\ e.go = c.go
      /\ e.noreply = c.noreply /\ e.out = c.out /\ e.log = c.log
  BY <1>7 DEF ConnFields
<1> HIDE DEF e
<1>9. Rested(e)
  <2>1. e.rsize \in Nat /\ Len(e.rbuf) <= e.rsize
    BY <1>3, <1>7, <1>8, ConnAssumption DEF Rested
  <2> QED
    BY <1>3, <1>8, <2>1 DEF Rested, LogOrder, Below, Answered
<1>10. Synced(off, e, sock[f])
  BY <1>1, <1>8, <1>9, RestedSynced DEF Between, c
<1> QED
  BY <1>1, <1>4, <1>10, OnlyConn

\* conn_waiting waits.
LEMMA WaitingSync ==
  ASSUME NEW off, SyncInv(off), NEW f \in Fds, Waiting(f)
  PROVE  SyncInv(off)'
<1> DEFINE c == conn[f]
           e == Stop([c EXCEPT !.ev = "read", !.st = "read"])
<1>1. c.st = "waiting" /\ sock' = sock /\ conf' = conf /\ Become(f, e)
  BY DEF Waiting, Still
<1>2. DOMAIN c = ConnFields /\ RecordInv(c) /\ conf \in Scenarios /\ Rested(c)
  BY <1>1, TurnFacts, RestedIs DEF Between
<1>3. c.sub = "none"
  BY <1>1, <1>2 DEF RecordInv, Told, Live
<1>4. /\ DOMAIN e = ConnFields /\ e.rsize = c.rsize /\ e.rbuf = c.rbuf /\ e.sub = "none"
      /\ e.st = "read" /\ e.prot = c.prot /\ e.i = c.i /\ e.rl = c.rl /\ e.sb = c.sb /\ e.go = c.go
      /\ e.noreply = c.noreply /\ e.out = c.out /\ e.log = c.log
  BY <1>2, <1>3 DEF Stop, ConnFields
<1> HIDE DEF e
<1>5. Rested(e)
  BY <1>2, <1>4 DEF Rested, LogOrder, Below, Answered
<1>6. Synced(off, e, sock[f])
  BY <1>1, <1>4, <1>5, RestedSynced DEF Between
<1> QED
  BY <1>1, <1>6, OnlyConn


\* The end of a turn that also reads from the socket.
LEMMA ConnAndNet ==
  ASSUME NEW off, SyncInv(off), NEW f \in Fds, NEW e, Become(f, e), NEW x,
         sock' = [sock EXCEPT ![f].net = x], conf' = conf,
         RecordInv(e), e.st # "closed",
         Live(e) /\ Target(e) # "closing" =>
           Placed(Stream, e.rbuf, x, sock[f].todo, sock[f].eof, off[e.i] - Due(e))
  PROVE  SyncInv(off)'
<1> DEFINE s == [sock[f] EXCEPT !.net = x]
<1>1. sock' = [sock EXCEPT ![f] = s]
  OBVIOUS
<1>2. DOMAIN s = SockFields /\ s.net = x /\ s.todo = sock[f].todo /\ s.eof = sock[f].eof
  BY TurnFacts DEF SockFields
<1> HIDE DEF s
<1>3. Synced(off, e, s)
  BY <1>2 DEF Synced
<1> QED
  BY <1>1, <1>2, <1>3, SyncOne DEF Become

\* Of the sizes that are large enough there is a smallest.
LEMMA Smallest ==
  ASSUME NEW grown, grown \subseteq {1, 2, 4, 8}, grown # {}
  PROVE  \E x \in grown : \A y \in grown : x <= y
<1>1. CASE 1 \in grown
  BY <1>1
<1>2. CASE 1 \notin grown /\ 2 \in grown
  BY <1>2
<1>3. CASE 1 \notin grown /\ 2 \notin grown /\ 4 \in grown
  BY <1>3
<1>4. CASE 1 \notin grown /\ 2 \notin grown /\ 4 \notin grown
  <2>1. \A y \in grown : y = 8
    BY <1>4
  <2>2. 8 \in grown
    BY <2>1
  <2> QED
    BY <2>1, <2>2
<1> QED
  BY <1>1, <1>2, <1>3, <1>4

\* Without memory for the buffer, the last a client hears is an error about no command.
LEMMA OutOfBuffer ==
  ASSUME conf \in Scenarios, NEW c, Rested(c),
         NEW e, e = [out_of_memory([c EXCEPT !.rbuf = <<>>, !.i = 0]) EXCEPT !.go = "closing"]
  PROVE  RecordInv(e) /\ Live(e) /\ Target(e) = "closing"
<1> DEFINE b == [c EXCEPT !.rbuf = <<>>, !.i = 0]
           a == Answer(b, 1)
           z == IF 0 > 0 THEN 0 ELSE b.sb
           g == IF 0 > 0 THEN "swallow" ELSE "new_cmd"
           e1 == [[b EXCEPT !.out = a, !.st = "mwrite", !.sb = z, !.go = g]
                    EXCEPT !.go = "closing"]
           e2 == [[b EXCEPT !.out = a, !.st = "write", !.go = "new_cmd"] EXCEPT !.go = "closing"]
<1>1. /\ DOMAIN b = ConnFields /\ b.i = 0 /\ b.rbuf = <<>> /\ b.log = c.log /\ b.prot = c.prot
      /\ b.noreply = c.noreply /\ b.sb = c.sb /\ b.rsize = c.rsize /\ b.rl = c.rl
  BY DEF Rested, ConnFields
<1>2. (e = e1 /\ b.prot = "binary") \/ (e = e2 /\ b.prot # "binary" /\ b.noreply = FALSE)
  <2>1. b.prot # "binary" => b.noreply = FALSE
    BY <1>1 DEF Rested
  <2> QED
    BY <2>1 DEF out_of_memory, write_bin_error, out_string
<1>3. /\ a \in Seq(Pieces) /\ a # <<>>
      /\ \A x \in DOMAIN a : a[x].i = 0 /\ (a[x].last <=> x = Len(a))
  <2>1. 1 \in Nat \ {0} /\ b.i \in Nat /\ b.i = 0
    BY <1>1
  <2> HIDE DEF b
  <2> QED
    BY <2>1, AnswerFits
<1>0. z = b.sb
  OBVIOUS
<1> HIDE DEF b, a, z, g
<1>4. /\ DOMAIN e = ConnFields /\ e.i = 0 /\ e.rbuf = <<>> /\ e.log = c.log /\ e.prot = c.prot
      /\ e.sb = c.sb /\ e.rsize = c.rsize /\ e.rl = c.rl /\ e.out = a /\ e.go = "closing"
      /\ e.st = "write" \/ (e.st = "mwrite" /\ e.prot = "binary")
      /\ e.prot = "binary" \/ e.noreply = FALSE
  <2>1. CASE e = e1 /\ b.prot = "binary"
    BY <1>0, <1>1, <2>1 DEF ConnFields
  <2>2. CASE e = e2 /\ b.prot # "binary" /\ b.noreply = FALSE
    BY <1>1, <2>2 DEF ConnFields
  <2> QED
    BY <1>2, <2>1, <2>2
<1> HIDE DEF e1, e2
<1>5. Live(e) /\ Target(e) = "closing"
  BY <1>4 DEF Live, Target
<1>6. Told(e) /\ InStep(e)
  BY <1>4, <1>5 DEF Rested, Told, InStep
<1>7. OutFits(e)
  BY <1>3, <1>4 DEF OutFits
<1>8. Answers(e)
  BY <1>3, <1>4, <1>5, <1>7 DEF Answers, Between
<1>9. LogOrder(e) /\ 0 \in Nat /\ <<>> \in Seq(Units) /\ Len(<<>>) = 0
  BY <1>4, EmptySeq DEF Rested, LogOrder
<1>10. c.rsize \in Nat /\ 0 <= c.rsize
  BY DEF Rested
<1>11. RecordInv(e)
  BY <1>3, <1>4, <1>5, <1>6, <1>8, <1>9, <1>10 DEF Rested, RecordInv, States, Pieces
<1> QED
  BY <1>5, <1>11

\* try_read_network moves units from the socket to the buffer.
LEMMA ReadNetworkSync ==
  ASSUME NEW off, SyncInv(off), NEW f \in Fds, try_read_network(f)
  PROVE  SyncInv(off)'
<1> DEFINE c == conn[f]
           s == sock[f]
           have == Len(c.rbuf)
           room == 16 * c.rsize - have
           k == IF Len(s.net) < 16 * c.rsize - have THEN Len(s.net) ELSE 16 * c.rsize - have
           grown == {a \in {1, 2, 4, 8} : c.rsize * a > have + k}
           a == IF grown = {} THEN 16 ELSE CHOOSE x \in grown : \A y \in grown : x <= y
           rest == SubSeq(s.net, k + 1, Len(s.net))
           r == c.rbuf \o SubSeq(s.net, 1, k)
           y == c.rsize * a
           d(z) == [[c EXCEPT !.rbuf = r, !.rsize = y] EXCEPT !.st = z]
           failed == [out_of_memory([c EXCEPT !.rbuf = <<>>, !.i = 0]) EXCEPT !.go = "closing"]
<1>1. /\ c.st = "read" /\ sock' = [sock EXCEPT ![f].net = rest] /\ conf' = conf
      /\ \/ Become(f, failed)
         \/ \E z \in {"closing", "waiting", "parse_cmd"} :
              Become(f, d(z)) /\ (z = "parse_cmd" => k # 0)
  BY DEF try_read_network, Still
<1>2. DOMAIN c = ConnFields /\ RecordInv(c) /\ conf \in Scenarios /\ Rested(c) /\ Stream \in Seq(Units)
  BY <1>1, TurnFacts, RestedIs DEF Between
<1>3. c.sub = "none" /\ Live(c) /\ Target(c) # "closing" /\ Due(c) = 0
  BY <1>1, <1>2 DEF RecordInv, Told, Live, Target, Due
<1>4. off[c.i] \in Nat
  BY <1>2, TurnFacts DEF Rested
<1>5. Placed(Stream, c.rbuf, s.net, s.todo, s.eof, off[c.i])
  <2>1. Placed(Stream, c.rbuf, s.net, s.todo, s.eof, off[c.i] - 0)
    BY <1>3, TurnFacts DEF Synced
  <2>2. off[c.i] - 0 = off[c.i]
    BY <1>4
  <2> QED
    BY <2>1, <2>2
<1>6. /\ c.rbuf \in Seq(Units) /\ s.net \in Seq(Units) /\ have \in Nat /\ Len(s.net) \in Nat
      /\ c.rsize \in Nat /\ have <= c.rsize
  BY <1>2, <1>5 DEF Rested, Placed
<1>7. k \in 0 .. Len(s.net) /\ have + k \in Nat /\ have + k <= 16 * c.rsize
  <2> DEFINE n == Len(s.net)
             m == Len(c.rbuf)
             q == c.rsize
  <2>1. m \in Nat /\ n \in Nat /\ q \in Nat /\ m <= q
    BY <1>6
  <2> HIDE DEF m, n, q
  <2>2. /\ (IF n < 16 * q - m THEN n ELSE 16 * q - m) \in 0 .. n
        /\ m + (IF n < 16 * q - m THEN n ELSE 16 * q - m) \in Nat
        /\ m + (IF n < 16 * q - m THEN n ELSE 16 * q - m) <= 16 * q
    BY <2>1
  <2> QED
    BY <2>2 DEF n, m, q
<1>8. y \in Nat /\ have + k <= y
  <2> DEFINE l == have + k
             q == c.rsize
  <2>1. l \in Nat /\ l <= 16 * q /\ q \in Nat
    BY <1>6, <1>7
  <2>2. grown = {x \in {1, 2, 4, 8} : q * x > l}
    OBVIOUS
  <2> HIDE DEF l, q, grown
  <2>3. grown = {} => a = 16
    OBVIOUS
  <2>4. ASSUME grown # {} PROVE a \in grown
    <3>1. grown \subseteq {1, 2, 4, 8}
      BY <2>2
    <3>2. \E x \in grown : \A z \in grown : x <= z
      BY <2>4, <3>1, Smallest
    <3> QED
      BY <2>4, <3>2
  <2> HIDE DEF a
  <2>5. q * a \in Nat /\ l <= q * a
    <3>1. CASE grown = {}
      BY <2>1, <2>3, <3>1
    <3>2. CASE grown # {}
      <4>1. a \in {1, 2, 4, 8} /\ q * a > l
        BY <2>2, <2>4, <3>2
      <4> QED
        BY <2>1, <4>1
    <3> QED
      BY <3>1, <3>2
  <2> QED
    BY <2>5 DEF l, q
<1>9. Placed(Stream, r, rest, s.todo, s.eof, off[c.i])
  BY <1>2, <1>5, <1>7, PlacedRead
<1>10. r \in Seq(Units) /\ Len(r) = have + k
  <2>1. SubSeq(s.net, 1, k) \in Seq(Units) /\ Len(SubSeq(s.net, 1, k)) = k
    <3>1. Piece(s.net, s.net, 0)
      BY <1>6 DEF Piece
    <3> QED
      BY <1>6, <1>7, <3>1, PieceSplit
  <2> QED
    BY <1>6, <1>7, <2>1, Joined
<1> HIDE DEF k, grown, a, y, r, rest
<1>11. ASSUME NEW z \in {"closing", "waiting", "parse_cmd"}, z = "parse_cmd" => k # 0, Become(f, d(z))
       PROVE  SyncInv(off)'
  <2> DEFINE e == d(z)
  <2>1. /\ DOMAIN e = ConnFields /\ e.rsize = y /\ e.rbuf = r /\ e.sub = "none" /\ e.st = z
        /\ e.prot = c.prot /\ e.i = c.i /\ e.rl = c.rl /\ e.sb = c.sb /\ e.go = c.go
        /\ e.noreply = c.noreply /\ e.out = c.out /\ e.log = c.log
    BY <1>2, <1>3 DEF ConnFields
  <2> HIDE DEF e
  <2>2. CASE z = "closing"
    <3>1. Synced(off, e, s) /\ ~Live(e)
      BY <1>2, <1>8, <2>1, <2>2, HungSynced DEF Live, Rested, RecordInv
    <3> QED
      BY <1>1, <1>11, <2>1, <2>2, <3>1, ConnAndNet DEF Synced, e
  <2>3. CASE z # "closing"
    <3>1. Rested(e)
      BY <1>2, <1>8, <1>10, <2>1 DEF Rested, LogOrder, Below, Answered
    <3>2. z = "parse_cmd" => e.rbuf # <<>>
      <4>1. have + k # 0 \/ k = 0
        BY <1>6, <1>7
      <4>2. k # 0 => r # <<>>
        BY <1>10, <4>1, NonEmpty
      <4> QED
        BY <1>11, <2>1, <4>2
    <3>3. RecordInv(e) /\ Live(e) /\ Due(e) = 0
      BY <1>2, <2>1, <2>3, <3>1, <3>2, RestedHolds DEF Between
    <3>4. off[e.i] - Due(e) = off[c.i]
      BY <1>4, <2>1, <3>3
    <3> QED
      BY <1>1, <1>9, <1>11, <2>1, <2>3, <3>3, <3>4, ConnAndNet DEF e
  <2> QED
    BY <2>2, <2>3
<1>12. ASSUME Become(f, failed) PROVE SyncInv(off)'
  <2>1. RecordInv(failed) /\ Live(failed) /\ Target(failed) = "closing"
    BY <1>2, OutOfBuffer
  <2> HIDE DEF failed
  <2> QED
    BY <1>1, <1>12, <2>1, ConnAndNet DEF Live
<1> QED
  BY <1>1, <1>11, <1>12


\* try_read_command finds the header of the next command and handles it.
LEMMA ReadCommandSync ==
  ASSUME NEW off, SyncInv(off), NEW f \in Fds, try_read_command(f)
  PROVE  SyncInv(off)'
<1> DEFINE c == conn[f]
           s == sock[f]
           u == Head(c.rbuf)
           prot == IF c.prot = "negotiating" THEN conf.prot ELSE c.prot
           b == SubSeq(c.rbuf, 3, Len(c.rbuf))
           d == [c EXCEPT !.prot = prot, !.i = u.i, !.rbuf = b, !.out = <<>>]
           wait == [c EXCEPT !.prot = prot, !.st = "waiting"]
           i == c.i + 1
<1>1. /\ c.st = "parse_cmd" /\ sock' = sock /\ conf' = conf
      /\ u.p = "h" => \/ Len(c.rbuf) = 1 /\ Become(f, wait)
                      \/ /\ Len(c.rbuf) # 1
                         /\ \/ prot = "ascii" /\ \E e \in process_command(d) : Become(f, e)
                            \/ prot # "ascii" /\ \E e \in dispatch_bin_command(d) : Become(f, e)
  BY DEF try_read_command, Still
<1>2. /\ DOMAIN c = ConnFields /\ RecordInv(c) /\ conf \in Scenarios /\ Afforded(conf)
      /\ Ends(conf.script, off) /\ Rested(c) /\ Stream \in Seq(Units)
  BY <1>1, TurnFacts, RestedIs DEF Between
<1>3. c.sub = "none" /\ c.rbuf # <<>> /\ Live(c) /\ Target(c) # "closing" /\ Due(c) = 0
  BY <1>1, <1>2 DEF RecordInv, Told, Live, Target, Due
<1>4. off[c.i] \in Nat /\ c.i \in 0 .. Len(conf.script) /\ Len(conf.script) \in Nat
  BY <1>2, TurnFacts, ScriptFacts DEF Rested
<1>5. Placed(Stream, c.rbuf, s.net, s.todo, s.eof, off[c.i])
  <2>1. Placed(Stream, c.rbuf, s.net, s.todo, s.eof, off[c.i] - 0)
    BY <1>3, TurnFacts DEF Synced
  <2>2. off[c.i] - 0 = off[c.i]
    BY <1>4
  <2> QED
    BY <2>1, <2>2
<1>6. c.rbuf \in Seq(Units) /\ Len(c.rbuf) \in Nat /\ Len(c.rbuf) # 0 /\ Piece(Stream, c.rbuf, off[c.i])
  BY <1>3, <1>5, NonEmpty DEF Placed
<1>7. u = c.rbuf[1]
  BY <1>3, <1>6
<1>8. c.rbuf[1] = Stream[off[c.i] + 1] /\ off[c.i] + 1 <= Len(Stream)
  <2>1. 1 \in 1 .. Len(c.rbuf) /\ off[c.i] + Len(c.rbuf) <= Len(Stream) /\ Len(Stream) \in Nat
    BY <1>2, <1>6 DEF Piece
  <2>2. c.rbuf[1] = Stream[off[c.i] + 1]
    BY <1>6, <2>1 DEF Piece
  <2> QED
    BY <1>4, <1>6, <2>1, <2>2
<1>9. /\ u.p = "h" /\ u.i = i /\ i \in 1 .. Len(conf.script)
      /\ off[i] = off[c.i] + (2 + conf.script[i].key + conf.script[i].n)
  <2> DEFINE x == off[c.i] + 1
  <2>1. x = off[c.i] + 1 /\ x <= Len(Stream) /\ u = Stream[x]
    BY <1>7, <1>8
  <2> HIDE DEF x, u
  <2> QED
    BY <1>2, <1>4, <2>1, NextHeader
<1>10. prot = conf.prot /\ prot \in {"ascii", "binary"} /\ (prot = "ascii" => c.noreply = FALSE)
  BY <1>2, ScriptFacts DEF Rested
<1> HIDE DEF u, prot, b
<1>11. ASSUME Become(f, wait) PROVE SyncInv(off)'
  <2>1. /\ DOMAIN wait = ConnFields /\ wait.rsize = c.rsize /\ wait.rbuf = c.rbuf
        /\ wait.sub = "none" /\ wait.st = "waiting" /\ wait.prot = prot /\ wait.i = c.i
        /\ wait.rl = c.rl /\ wait.sb = c.sb /\ wait.go = c.go /\ wait.noreply = c.noreply
        /\ wait.out = c.out /\ wait.log = c.log
    BY <1>2, <1>3 DEF ConnFields
  <2> HIDE DEF wait
  <2>2. Rested(wait)
    BY <1>2, <1>10, <2>1 DEF Rested, LogOrder, Below, Answered
  <2>3. Synced(off, wait, s)
    BY <1>1, <2>1, <2>2, RestedSynced DEF Between
  <2> QED
    BY <1>1, <1>11, <2>3, OnlyConn
<1>12. ASSUME Len(c.rbuf) # 1, NEW e, Become(f, e),
              \/ prot = "ascii" /\ e \in process_command(d)
              \/ prot # "ascii" /\ e \in dispatch_bin_command(d)
       PROVE  SyncInv(off)'
  <2>1. 2 \in 0 .. Len(c.rbuf) /\ 2 + 1 = 3
    <3> DEFINE l == Len(c.rbuf)
    <3>1. l \in Nat /\ l # 0 /\ l # 1
      BY <1>6, <1>12
    <3> HIDE DEF l
    <3>2. 2 \in 0 .. l
      BY <3>1
    <3> QED
      BY <3>2 DEF l
  <2>2. /\ Placed(Stream, b, s.net, s.todo, s.eof, off[c.i] + 2)
        /\ Len(b) = Len(c.rbuf) - 2 /\ b \in Seq(Units)
    <3> DEFINE k == 2
               v == SubSeq(c.rbuf, k + 1, Len(c.rbuf))
    <3>1. v = b
      BY DEF b
    <3>2. k \in 0 .. Len(c.rbuf)
      BY <2>1
    <3> HIDE DEF k
    <3>3. Placed(Stream, v, s.net, s.todo, s.eof, off[c.i] + k) /\ Len(v) = Len(c.rbuf) - k
      BY <1>2, <1>5, <3>2, PlacedTake
    <3> HIDE DEF v
    <3>4. k = 2
      BY DEF k
    <3> QED
      BY <3>1, <3>3, <3>4 DEF Placed
  <2>3. Len(b) \in Nat /\ Len(b) <= c.rsize
    BY <1>2, <1>6, <2>2 DEF Rested
  <2>4. /\ DOMAIN d = ConnFields /\ d.rsize = c.rsize /\ d.rbuf = b /\ d.sub = "none"
        /\ d.prot = prot /\ d.i = i /\ d.rl = c.rl /\ d.sb = c.sb /\ d.go = c.go
        /\ d.noreply = c.noreply /\ d.out = <<>> /\ d.log = c.log
    BY <1>2, <1>3, <1>9 DEF ConnFields
  <2> HIDE DEF d
  <2>5. i - 1 = c.i
    BY <1>4
  <2>6. Started(d)
    BY <1>2, <1>9, <1>10, <2>2, <2>3, <2>4, <2>5, EmptySeq DEF Rested, Started, LogOrder, Below, Answered
  <2> DEFINE R == Cmd(d).key + Cmd(d).n
  <2>7. Cmd(d) = conf.script[i] /\ Cmd(d).key \in Nat /\ Cmd(d).n \in Nat
    BY <1>2, <2>4, <2>6, CmdFacts DEF Cmd
  <2>8. Formed(d, e, R)
    <3>1. CASE prot = "ascii" /\ e \in process_command(d)
      <4>1. Formed(d, e, Cmd(d).n)
        BY <1>2, <1>10, <2>4, <2>6, <3>1, CommandFormed
      <4>2. Cmd(d).key = 0
        BY <1>2, <1>10, <2>6, <3>1, CmdFacts DEF Spoken
      <4>3. Cmd(d).n = R
        BY <2>7, <4>2
      <4> QED
        BY <4>1, <4>3
    <3>2. CASE prot # "ascii" /\ e \in dispatch_bin_command(d)
      BY <1>2, <1>10, <2>4, <2>6, <3>2, DispatchFormed
    <3> QED
      BY <1>12, <3>1, <3>2
  <2>9. R \in Nat /\ R <= Cmd(d).key + Cmd(d).n
    BY <2>7
  <2>10. Done(d, e, R)
    BY <1>2, <2>6, <2>8, <2>9, FormedDone
  <2>11. off[i] - R = off[c.i] + 2
    <3> DEFINE x == conf.script[i].key
               y == conf.script[i].n
               o == off[c.i]
    <3>1. x \in Nat /\ y \in Nat /\ o \in Nat /\ off[i] = o + (2 + x + y) /\ R = x + y
      BY <1>4, <1>9, <2>7
    <3> HIDE DEF x, y, o, R, i
    <3>2. off[i] - R = o + 2
      BY <3>1
    <3> QED
      BY <3>2 DEF o
  <2> HIDE DEF R
  <2>12. Synced(off, e, s)
    BY <2>2, <2>4, <2>10, <2>11 DEF Done, Synced, Live
  <2> QED
    BY <1>1, <1>12, <2>12, OnlyConn
<1> QED
  BY <1>1, <1>9, <1>11, <1>12


\* e is c with k units less to read, or to swallow.
Less(c, e, k) ==
  /\ DOMAIN e = ConnFields /\ e.st = c.st /\ e.prot = c.prot /\ e.rsize = c.rsize /\ e.i = c.i
  /\ e.go = c.go /\ e.noreply = c.noreply /\ e.sub = c.sub /\ e.out = c.out /\ e.log = c.log
  /\ \/ c.st = "nread" /\ e.rl = c.rl - k /\ e.sb = c.sb /\ k <= c.rl
     \/ c.st = "swallow" /\ e.sb = c.sb - k /\ e.rl = c.rl /\ k <= c.sb

\* Then so much less is due.
LEMMA LessDue ==
  ASSUME conf \in Scenarios, NEW c, RecordInv(c), NEW k \in Nat, NEW e, Less(c, e, k),
         e.rbuf \in Seq(Units), Len(e.rbuf) <= e.rsize
  PROVE  /\ RecordInv(e) /\ Live(e) /\ Target(e) # "closing" /\ Target(c) # "closing"
         /\ Due(c) \in Nat /\ Due(e) \in Nat /\ Due(e) = Due(c) - k
<1>1. /\ Live(c) /\ Live(e) /\ Target(c) = c.st /\ Target(e) = c.st /\ c.st \in {"nread", "swallow"}
      /\ Target(c) # "closing" /\ Cmd(e) = Cmd(c)
  BY DEF Less, Live, Target, Cmd
<1>2. /\ Told(c) /\ InStep(c) /\ Answers(c) /\ LogOrder(c) /\ c.sb \in Nat /\ c.rl \in Nat
      /\ c.i \in Nat /\ c.rsize \in Nat /\ c.go \in {"new_cmd", "swallow", "closing"}
      /\ c.out \in Seq([i : Nat, last : BOOLEAN])
  BY <1>1 DEF RecordInv, Told
<1>3. c.st = "nread" => c.i \in 1 .. Len(conf.script) /\ Cmd(c).n \in Nat
  <2>1. c.st = "nread" => c.i \in 1 .. Len(conf.script)
    BY <1>1, <1>2, ScriptFacts DEF Told, InStep
  <2> QED
    BY <2>1, ScriptFacts DEF Cmd
<1>4. /\ c.i \in 0 .. Len(conf.script) /\ (c.i = 0 => Due(c) = 0)
      /\ (c.i # 0 => Due(c) <= Cmd(c).key + Cmd(c).n)
  BY <1>1, <1>2 DEF InStep
<1>5. c.i # 0 => Cmd(c).key \in Nat /\ Cmd(c).n \in Nat
  BY <1>4, ScriptFacts DEF Cmd
<1>6. Due(c) \in Nat /\ Due(e) \in Nat /\ Due(e) = Due(c) - k /\ e.sb \in Nat /\ e.rl \in Nat
  <2>1. CASE c.st = "nread"
    <3> DEFINE m == IF c.sub \in WithItem THEN 0 ELSE Cmd(c).n
    <3>1. m \in Nat
      BY <1>3, <2>1
    <3>2. Due(c) = c.rl + m /\ Due(e) = e.rl + m /\ e.rl = c.rl - k /\ k <= c.rl /\ e.sb = c.sb
      BY <1>1, <2>1 DEF Due, Less
    <3>3. c.rl \in Nat /\ e.rl \in Nat
      BY <1>2, <3>2
    <3> HIDE DEF m
    <3>4. \A x, y \in Nat : x = y - k => x + m = (y + m) - k /\ x + m \in Nat /\ y + m \in Nat
      BY <3>1
    <3>5. e.rl + m = (c.rl + m) - k /\ e.rl + m \in Nat /\ c.rl + m \in Nat
      BY <3>2, <3>3, <3>4
    <3> QED
      BY <1>2, <3>2, <3>3, <3>5
  <2>2. CASE c.st = "swallow"
    BY <1>1, <1>2, <2>2 DEF Due, Less
  <2> QED
    BY <1>1, <2>1, <2>2
<1>7. InStep(e)
  <2>1. c.i = 0 => Due(e) = 0
    BY <1>4, <1>6
  <2>2. c.i # 0 => Due(e) <= Cmd(c).key + Cmd(c).n
    BY <1>4, <1>5, <1>6
  <2> QED
    BY <1>1, <1>4, <2>1, <2>2 DEF InStep, Less
<1>8. Told(e)
  BY <1>1, <1>2, <1>6 DEF Less, Told, SubFits
<1>9. Answers(e)
  BY <1>1, <1>2 DEF Less, Answers, Answered, Below, OutFits, Between
<1>10. LogOrder(e)
  BY <1>2 DEF LogOrder, Less
<1>11. RecordInv(e)
  BY <1>1, <1>2, <1>6, <1>7, <1>8, <1>9, <1>10 DEF RecordInv, Less, States
<1> QED
  BY <1>1, <1>6, <1>11

\* Less is due of a later place.
LEMMA Later ==
  ASSUME NEW o \in Nat, NEW u \in Nat, NEW k \in Nat, NEW v, v = u - k
  PROVE  o - v = (o - u) + k
OBVIOUS

\* What is read past an empty buffer.
LEMMA ReadMoreSync ==
  ASSUME NEW off, SyncInv(off), NEW f \in Fds, NEW c, RecordInv(c), c.st \in {"nread", "swallow"},
         c.rbuf = <<>>, NEW count, count = IF c.st = "swallow" THEN c.sb ELSE c.rl,
         Placed(Stream, <<>>, sock[f].net, sock[f].todo, sock[f].eof, off[c.i] - Due(c)),
         ReadMore(f, c, count), conf' = conf
  PROVE  SyncInv(off)'
<1> DEFINE s == sock[f]
           k == IF Len(s.net) < count THEN Len(s.net) ELSE count
           x == SubSeq(s.net, k + 1, Len(s.net))
           e1 == [c EXCEPT !.sb = @ - k]
           e2 == [c EXCEPT !.rl = @ - k]
           e3 == [c EXCEPT !.st = "closing"]
           e4 == Stop([c EXCEPT !.ev = "read"])
<1>1. /\ sock' = [sock EXCEPT ![f].net = x]
      /\ \/ c.st = "swallow" /\ Become(f, e1)
         \/ c.st # "swallow" /\ Become(f, e2)
         \/ Become(f, e3)
         \/ k <= 0 /\ Become(f, e4)
  <2>1. sock' = [sock EXCEPT ![f].net = x]
    BY DEF ReadMore
  <2>2. CASE k > 0
    BY <2>2 DEF ReadMore
  <2>3. CASE ~(k > 0)
    <3>1. Become(f, e3) \/ Become(f, e4)
      BY <2>3 DEF ReadMore
    <3>2. Len(s.net) \in Nat /\ count \in Nat
      BY DEF Placed, RecordInv, Live, Told
    <3>3. k <= 0
      BY <2>3, <3>2
    <3> QED
      BY <2>1, <3>1, <3>3
  <2> QED
    BY <2>1, <2>2, <2>3
<1>2. /\ conf \in Scenarios /\ DOMAIN c = ConnFields /\ Stream \in Seq(Units) /\ Live(c)
      /\ c.rsize \in Nat /\ c.sb \in Nat /\ c.i \in Nat /\ c.rl \in Nat
  BY TurnFacts DEF RecordInv, Live, Told
<1>3. Target(c) # "closing" /\ c.i \in 0 .. Len(conf.script)
  BY <1>2 DEF RecordInv, InStep, Target
<1>4. off[c.i] \in Nat /\ Due(c) \in Nat
  BY <1>2, <1>3, TurnFacts, DueType
<1>5. k \in Nat /\ k \in 0 .. Len(s.net) /\ k <= count
  <2> DEFINE n == Len(s.net)
  <2>1. n \in Nat /\ count \in Nat
    BY <1>2 DEF Placed
  <2> HIDE DEF n
  <2>2. (IF n < count THEN n ELSE count) \in 0 .. n /\ (IF n < count THEN n ELSE count) <= count
    BY <2>1
  <2> QED
    BY <2>2 DEF n
<1> HIDE DEF k
<1>6. Placed(Stream, <<>>, x, s.todo, s.eof, (off[c.i] - Due(c)) + k)
  BY <1>2, <1>5, PlacedSkip
<1>7. ASSUME NEW e, Less(c, e, k), e.rbuf = <<>>, Become(f, e) PROVE SyncInv(off)'
  <2>1. e.rbuf \in Seq(Units) /\ Len(e.rbuf) <= e.rsize /\ e.i = c.i
    BY <1>2, <1>7, EmptySeq DEF Less
  <2>2. RecordInv(e) /\ Live(e) /\ Target(e) # "closing" /\ Due(e) = Due(c) - k
    BY <1>2, <1>5, <1>7, <2>1, LessDue
  <2>3. off[e.i] - Due(e) = (off[c.i] - Due(c)) + k
    BY <1>4, <1>5, <2>1, <2>2, Later
  <2> QED
    BY <1>1, <1>6, <1>7, <2>2, <2>3, ConnAndNet DEF Live
<1>8. ASSUME c.st = "swallow", Become(f, e1) PROVE SyncInv(off)'
  <2>1. Less(c, e1, k) /\ e1.rbuf = <<>>
    BY <1>2, <1>5, <1>8 DEF Less, ConnFields
  <2> QED
    BY <1>7, <1>8, <2>1
<1>9. ASSUME c.st # "swallow", Become(f, e2) PROVE SyncInv(off)'
  <2>1. Less(c, e2, k) /\ e2.rbuf = <<>>
    BY <1>2, <1>5, <1>9 DEF Less, ConnFields
  <2> QED
    BY <1>7, <1>9, <2>1
<1>10. ASSUME Become(f, e3) PROVE SyncInv(off)'
  <2>1. /\ DOMAIN e3 = ConnFields /\ e3.st = "closing" /\ e3.go = c.go /\ e3.log = c.log
        /\ e3.sb = c.sb /\ e3.rsize = c.rsize /\ e3.i = c.i
    BY <1>2 DEF ConnFields
  <2> HIDE DEF e3
  <2>2. Synced(off, e3, s) /\ ~Live(e3)
    BY <1>2, <2>1, HungSynced DEF Live
  <2> QED
    BY <1>1, <1>10, <2>1, <2>2, ConnAndNet DEF Synced
<1>11. ASSUME k <= 0, Become(f, e4) PROVE SyncInv(off)'
  <2>1. k = 0
    BY <1>5, <1>11
  <2>2. /\ DOMAIN e4 = ConnFields /\ e4.st = c.st /\ e4.prot = c.prot /\ e4.rsize = c.rsize /\ e4.i = c.i
        /\ e4.go = c.go /\ e4.noreply = c.noreply /\ e4.sub = c.sub /\ e4.out = c.out
        /\ e4.log = c.log /\ e4.sb = c.sb /\ e4.rl = c.rl /\ e4.rbuf = <<>>
    BY <1>2 DEF Stop, ConnFields
  <2> HIDE DEF e4
  <2>3. c.sb = c.sb - k /\ c.rl = c.rl - k /\ k <= c.sb /\ k <= c.rl
    BY <1>2, <2>1
  <2>4. Less(c, e4, k)
    BY <2>2, <2>3 DEF Less
  <2> QED
    BY <1>7, <1>11, <2>2, <2>4
<1> QED
  BY <1>1, <1>8, <1>9, <1>10, <1>11


\* k units are taken from the buffer.
LEMMA BufferTake ==
  ASSUME NEW off, SyncInv(off), NEW f \in Fds, conn[f].st \in {"nread", "swallow"},
         NEW k \in 0 .. Len(conn[f].rbuf), NEW e, Less(conn[f], e, k),
         e.rbuf = SubSeq(conn[f].rbuf, k + 1, Len(conn[f].rbuf))
  PROVE  /\ RecordInv(e) /\ Live(e) /\ Synced(off, e, sock[f])
         /\ Placed(Stream, e.rbuf, sock[f].net, sock[f].todo, sock[f].eof, off[e.i] - Due(e))
         /\ k = Len(conn[f].rbuf) => e.rbuf = <<>>
<1> DEFINE c == conn[f]
           s == sock[f]
<1>1. /\ conf \in Scenarios /\ Stream \in Seq(Units) /\ RecordInv(c) /\ Live(c)
      /\ Target(c) = c.st /\ Target(c) # "closing" /\ Synced(off, c, s)
  BY TurnFacts DEF Live, Target
<1>2. c.i \in 0 .. Len(conf.script) /\ c.rbuf \in Seq(Units) /\ Len(c.rbuf) <= c.rsize /\ c.rsize \in Nat
  BY <1>1 DEF RecordInv, InStep
<1>3. off[c.i] \in Nat /\ Due(c) \in Nat /\ k \in Nat /\ Len(c.rbuf) \in Nat /\ k <= Len(c.rbuf)
  BY <1>1, <1>2, TurnFacts, DueType
<1>4. Placed(Stream, c.rbuf, s.net, s.todo, s.eof, off[c.i] - Due(c))
  BY <1>1 DEF Synced
<1>5. /\ Placed(Stream, e.rbuf, s.net, s.todo, s.eof, (off[c.i] - Due(c)) + k)
      /\ Len(e.rbuf) = Len(c.rbuf) - k
  BY <1>1, <1>4, PlacedTake
<1>6. e.rbuf \in Seq(Units) /\ e.rsize = c.rsize /\ e.i = c.i /\ Len(e.rbuf) \in Nat
  BY <1>5 DEF Placed, Less
<1>7. Len(e.rbuf) <= e.rsize /\ (k = Len(c.rbuf) => e.rbuf = <<>>)
  <2>1. Len(e.rbuf) <= c.rsize /\ (k = Len(c.rbuf) => Len(e.rbuf) = 0)
    BY <1>2, <1>3, <1>5, <1>6
  <2> QED
    BY <1>6, <2>1, NonEmpty
<1>8. RecordInv(e) /\ Live(e) /\ Target(e) # "closing" /\ Due(e) = Due(c) - k
  BY <1>1, <1>3, <1>6, <1>7, LessDue
<1>9. off[e.i] - Due(e) = (off[c.i] - Due(c)) + k
  BY <1>3, <1>6, <1>8, Later
<1> QED
  BY <1>5, <1>7, <1>8, <1>9 DEF Synced, Live

\* conn_nread takes what there is, or completes the command.
LEMMA NreadSync ==
  ASSUME NEW off, SyncInv(off), NEW f \in Fds, Nread(f)
  PROVE  SyncInv(off)'
<1> DEFINE c == conn[f]
           s == sock[f]
           k == IF Len(c.rbuf) < c.rl THEN Len(c.rbuf) ELSE c.rl
           r == SubSeq(c.rbuf, k + 1, Len(c.rbuf))
           d == [[c EXCEPT !.rbuf = r] EXCEPT !.rl = @ - k]
<1>1. /\ c.st = "nread" /\ conf' = conf
      /\ \/ c.rl = 0 /\ (\E e \in complete_nread(c) : Become(f, e)) /\ sock' = sock
         \/ Become(f, d) /\ sock' = sock
         \/ d.rl > 0 /\ ReadMore(f, d, d.rl)
  BY DEF Nread, FromBuffer, Still
<1>2. /\ DOMAIN c = ConnFields /\ RecordInv(c) /\ conf \in Scenarios /\ Afforded(conf) /\ Live(c)
      /\ Synced(off, c, s) /\ Stream \in Seq(Units) /\ Target(c) = "nread"
  BY <1>1, TurnFacts DEF Live, Target
<1>3. c.rl \in Nat /\ Told(c) /\ InStep(c) /\ Answers(c) /\ c.i # 0 /\ c.i \in 1 .. Len(conf.script)
  BY <1>1, <1>2, ScriptFacts DEF RecordInv, Told, InStep
<1>4. ASSUME c.rl = 0, NEW e \in complete_nread(c), Become(f, e), sock' = sock
      PROVE  SyncInv(off)'
  <2> DEFINE R == IF c.sub \in WithItem THEN 0 ELSE Cmd(c).n
  <2>1. Started(c)
    BY <1>1, <1>2, <1>3 DEF Started, RecordInv, Told, Answers, Pieces
  <2>2. R \in Nat /\ Cmd(c).n \in Nat
    BY <1>2, <2>1, CmdFacts
  <2>3. Due(c) = R
    BY <1>2, <1>4, <2>2 DEF Due
  <2>4. R <= Cmd(c).key + Cmd(c).n
    BY <1>2, <1>3, <2>3 DEF InStep
  <2>5. Formed(c, e, R)
    BY <1>1, <1>2, <1>3, <1>4, <2>1, CompleteFormed DEF Told
  <2> HIDE DEF R
  <2>6. Done(c, e, R)
    BY <1>2, <2>1, <2>2, <2>4, <2>5, FormedDone
  <2>7. Synced(off, e, s)
    BY <1>2, <2>3, <2>6 DEF Done, Synced, Live
  <2> QED
    BY <1>1, <1>4, <2>7, OnlyConn
<1>5. k <= c.rl /\ k \in 0 .. Len(c.rbuf) /\ (k < c.rl => k = Len(c.rbuf))
  <2>1. Len(c.rbuf) \in Nat
    BY <1>2 DEF RecordInv
  <2> QED
    BY <1>3, <2>1
<1> HIDE DEF k
<1>6. Less(c, d, k) /\ d.rbuf = r /\ d.rl = c.rl - k /\ d.st = "nread"
  <2> HIDE DEF r
  <2> QED
    BY <1>1, <1>2, <1>5 DEF Less, ConnFields
<1> HIDE DEF d
<1>7. /\ RecordInv(d) /\ Live(d) /\ Synced(off, d, s)
      /\ Placed(Stream, d.rbuf, s.net, s.todo, s.eof, off[d.i] - Due(d))
      /\ k < c.rl => d.rbuf = <<>>
  BY <1>1, <1>5, <1>6, BufferTake
<1>8. ASSUME d.rl > 0, ReadMore(f, d, d.rl) PROVE SyncInv(off)'
  <2>1. k < c.rl
    BY <1>3, <1>5, <1>6, <1>8
  <2>2. Placed(Stream, <<>>, s.net, s.todo, s.eof, off[d.i] - Due(d))
    BY <1>7, <2>1
  <2> QED
    BY <1>1, <1>6, <1>7, <1>8, <2>1, <2>2, ReadMoreSync
<1> QED
  BY <1>1, <1>4, <1>7, <1>8, OnlyConn

\* conn_swallow takes what there is, or goes on to the next command.
LEMMA SwallowSync ==
  ASSUME NEW off, SyncInv(off), NEW f \in Fds, Swallow(f)
  PROVE  SyncInv(off)'
<1> DEFINE c == conn[f]
           s == sock[f]
           k == IF Len(c.rbuf) < c.sb THEN Len(c.rbuf) ELSE c.sb
           r == SubSeq(c.rbuf, k + 1, Len(c.rbuf))
           d == [[c EXCEPT !.rbuf = r] EXCEPT !.sb = @ - k]
           done == [c EXCEPT !.st = "new_cmd"]
<1>1. /\ c.st = "swallow" /\ conf' = conf
      /\ \/ c.sb = 0 /\ Become(f, done) /\ sock' = sock
         \/ Become(f, d) /\ sock' = sock
         \/ c.sb > 0 /\ k = 0 /\ ReadMore(f, c, c.sb)
  BY DEF Swallow, FromBuffer, Still
<1>2. /\ DOMAIN c = ConnFields /\ RecordInv(c) /\ conf \in Scenarios /\ Live(c)
      /\ Synced(off, c, s) /\ Stream \in Seq(Units) /\ Target(c) = "swallow" /\ c.sb \in Nat
      /\ Len(c.rbuf) \in Nat /\ c.rbuf \in Seq(Units)
  BY <1>1, TurnFacts DEF Live, Target, RecordInv
<1>3. k <= c.sb /\ k \in 0 .. Len(c.rbuf) /\ (k = 0 /\ c.sb > 0 => Len(c.rbuf) = 0)
  BY <1>2
<1>4. ASSUME c.sb = 0, Become(f, done), sock' = sock PROVE SyncInv(off)'
  <2>1. Rested(c) /\ Due(c) = 0
    BY <1>1, <1>2, <1>4, RestedIs DEF Due
  <2>2. /\ DOMAIN done = ConnFields /\ done.rsize = c.rsize /\ done.rbuf = c.rbuf
        /\ done.st = "new_cmd" /\ done.prot = c.prot /\ done.i = c.i
        /\ done.rl = c.rl /\ done.sb = c.sb /\ done.go = c.go /\ done.noreply = c.noreply
        /\ done.out = c.out /\ done.log = c.log
    BY <1>2 DEF ConnFields
  <2> HIDE DEF done
  <2>3. Rested(done)
    BY <2>1, <2>2 DEF Rested, LogOrder, Below, Answered
  <2>4. RecordInv(done) /\ Live(done) /\ Due(done) = 0
    BY <1>2, <2>2, <2>3, RestedHolds DEF Between
  <2>5. Synced(off, done, s)
    BY <1>2, <2>1, <2>2, <2>4 DEF Synced, Live
  <2> QED
    BY <1>1, <1>4, <2>5, OnlyConn
<1> HIDE DEF k
<1>6. Less(c, d, k) /\ d.rbuf = r
  <2> HIDE DEF r
  <2> QED
    BY <1>1, <1>2, <1>3 DEF Less, ConnFields
<1> HIDE DEF d
<1>7. Synced(off, d, s)
  BY <1>1, <1>3, <1>6, BufferTake
<1>8. ASSUME c.sb > 0, k = 0, ReadMore(f, c, c.sb) PROVE SyncInv(off)'
  <2>1. c.rbuf = <<>>
    BY <1>2, <1>3, <1>8, NonEmpty
  <2>2. Placed(Stream, <<>>, s.net, s.todo, s.eof, off[c.i] - Due(c))
    BY <1>2, <2>1 DEF Synced
  <2> QED
    BY <1>1, <1>2, <1>8, <2>1, <2>2, ReadMoreSync
<1> QED
  BY <1>1, <1>4, <1>7, <1>8, OnlyConn


\* When all of an answer is out the connection goes on as it was told.
LEMMA TransmittedSynced ==
  ASSUME NEW off, SyncInv(off), NEW f \in Fds, conn[f].st \in {"write", "mwrite"}, conn[f].out = <<>>
  PROVE  Synced(off, Transmitted(conn[f]), sock[f])
<1> DEFINE c == conn[f]
           s == sock[f]
           e == Transmitted(c)
           z == IF c.st = "mwrite" /\ c.prot # "binary" THEN "new_cmd" ELSE c.go
<1>1. /\ conf \in Scenarios /\ DOMAIN c = ConnFields /\ RecordInv(c) /\ Synced(off, c, s)
      /\ Live(c) /\ Target(c) = c.go
  BY TurnFacts DEF Live, Target
<1>2. /\ Told(c) /\ InStep(c) /\ Answers(c) /\ LogOrder(c) /\ c.sb \in Nat /\ c.rsize \in Nat /\ c.i \in Nat
      /\ c.go \in {"new_cmd", "swallow", "closing"} /\ c.rbuf \in Seq(Units) /\ Len(c.rbuf) <= c.rsize
      /\ c.out \in Seq(Pieces) /\ c.rl \in Nat
  BY <1>1 DEF RecordInv, Told, Pieces
<1>3. /\ DOMAIN e = ConnFields /\ e.st = z /\ e.prot = c.prot /\ e.rbuf = c.rbuf /\ e.rsize = c.rsize
      /\ e.i = c.i /\ e.rl = c.rl /\ e.sb = c.sb /\ e.go = c.go /\ e.noreply = c.noreply
      /\ e.out = c.out /\ e.log = c.log
  <2>1. CASE c.st = "mwrite"
    <3>1. e = [conn_release_items(c) EXCEPT !.st = z]
      BY <2>1 DEF Transmitted
    <3> HIDE DEF z, e
    <3> QED
      BY <1>1, <3>1 DEF conn_release_items, ConnFields
  <2>2. CASE c.st = "write"
    <3>1. e = [c EXCEPT !.wfree = FALSE, !.st = z]
      BY <2>2 DEF Transmitted
    <3> HIDE DEF z, e
    <3> QED
      BY <1>1, <3>1 DEF ConnFields
  <2> QED
    BY <2>1, <2>2
<1>4. /\ z \in {"new_cmd", "swallow", "closing"} /\ (z = "closing" <=> c.go = "closing")
      /\ z = "swallow" => c.go = "swallow"
      /\ z = "new_cmd" => c.go = "new_cmd" \/ (c.go = "swallow" /\ c.sb = 0)
  BY <1>2 DEF Told
<1> HIDE DEF z, e
<1>5. ASSUME z = "closing" PROVE Synced(off, e, s)
  <2>1. e.st = "closing" /\ e.sb \in Nat /\ e.rsize \in Nat /\ e.i \in Nat
    BY <1>2, <1>3, <1>5
  <2> QED
    BY <1>1, <1>3, <2>1, HungSynced
<1>6. ASSUME z # "closing" PROVE Synced(off, e, s)
  <2>1. /\ c.i \in 0 .. Len(conf.script) /\ Below(c, c.i + 1)
        /\ \A j \in 1 .. c.i - 1 : Answered(c, j)
        /\ c.i = 0 \/ Answered(c, c.i)
    BY <1>1, <1>2, <1>4, <1>6 DEF InStep, Answers
  <2>2. CASE z = "new_cmd"
    <3>1. \A j \in 1 .. c.i : Answered(c, j)
      <4> SUFFICES ASSUME NEW j \in 1 .. c.i PROVE Answered(c, j)
        OBVIOUS
      <4>1. (j \in 1 .. c.i - 1 \/ j = c.i) /\ c.i # 0
        BY <1>2
      <4> QED
        BY <2>1, <4>1
    <3>2. Rested(e)
      BY <1>2, <1>3, <1>4, <2>1, <2>2, <3>1 DEF Rested, LogOrder, Below, Answered, Told
    <3>3. RecordInv(e) /\ Live(e) /\ Due(e) = 0
      BY <1>1, <1>3, <2>2, <3>2, RestedHolds DEF Between
    <3>4. Due(c) = 0
      BY <1>1, <1>4, <2>2 DEF Due
    <3>5. Placed(Stream, c.rbuf, s.net, s.todo, s.eof, off[c.i] - Due(c))
      BY <1>1, <1>4, <1>6 DEF Synced
    <3> QED
      BY <1>3, <3>3, <3>4, <3>5 DEF Synced, Live
  <2>3. CASE z = "swallow"
    <3>1. Due(e) = Due(c) /\ Live(e) /\ Target(e) = "swallow" /\ Target(c) = "swallow" /\ Cmd(e) = Cmd(c)
      BY <1>1, <1>3, <1>4, <2>3 DEF Due, Target, Live, Cmd
    <3>2. Told(e) /\ InStep(e)
      <4>0. /\ c.st # "nread" /\ e.st = "swallow" /\ e.go = "swallow"
            /\ c.prot \in {conf.bind, conf.prot} /\ c.rl \in Nat
            /\ c.prot = "binary" \/ c.noreply = FALSE
        BY <1>2, <1>3, <1>4, <2>3 DEF Told
      <4>1. Told(e)
        BY <1>3, <4>0 DEF Told
      <4>2. InStep(e)
        BY <1>2, <1>3, <3>1 DEF InStep
      <4> QED
        BY <4>1, <4>2
    <3>3. Answers(e)
      BY <1>2, <1>3, <2>1, <2>3, <3>1 DEF Answers, Answered, Below, Between
    <3>4. LogOrder(e)
      BY <1>2, <1>3 DEF LogOrder
    <3>5. RecordInv(e)
      BY <1>2, <1>3, <2>3, <3>2, <3>3, <3>4 DEF RecordInv, States, Pieces
    <3>6. Placed(Stream, c.rbuf, s.net, s.todo, s.eof, off[c.i] - Due(c))
      BY <1>1, <3>1 DEF Synced
    <3> QED
      BY <1>3, <3>1, <3>5, <3>6 DEF Synced, Live
  <2> QED
    BY <1>4, <1>6, <2>2, <2>3
<1> QED
  BY <1>5, <1>6 DEF e

\* A piece of the answer goes out; with the last one the command is answered.
LEMMA PieceSynced ==
  ASSUME NEW off, SyncInv(off), NEW f \in Fds, conn[f].st \in {"write", "mwrite"}, conn[f].out # <<>>,
         NEW e, e = [conn[f] EXCEPT !.out = Tail(@),
                                    !.log = IF Head(conn[f].out).last
                                            THEN Append(@, Head(conn[f].out).i) ELSE @]
  PROVE  Synced(off, e, sock[f])
<1> DEFINE c == conn[f]
           s == sock[f]
           u == Head(c.out)
           o == Tail(c.out)
           n == Len(c.out)
           l == IF u.last THEN Append(c.log, u.i) ELSE c.log
<1>1. /\ conf \in Scenarios /\ DOMAIN c = ConnFields /\ RecordInv(c) /\ Synced(off, c, s)
      /\ Live(c) /\ Target(c) = c.go
  BY TurnFacts DEF Live, Target
<1>2. /\ Told(c) /\ InStep(c) /\ Answers(c) /\ LogOrder(c) /\ c.sb \in Nat /\ c.rsize \in Nat /\ c.i \in Nat
      /\ c.go \in {"new_cmd", "swallow", "closing"} /\ c.rbuf \in Seq(Units) /\ Len(c.rbuf) <= c.rsize
      /\ c.out \in Seq(Pieces) /\ c.log \in Seq(Nat) /\ OutFits(c)
  BY <1>1 DEF RecordInv, Answers, Pieces, LogOrder
<1>3. n \in Nat /\ n # 0 /\ DOMAIN c.out = 1 .. n
  BY <1>2, NonEmpty
<1>4. /\ u = c.out[1] /\ o \in Seq(Pieces) /\ Len(o) = n - 1
      /\ \A x \in 1 .. n - 1 : o[x] = c.out[x + 1]
  BY <1>2, <1>3, HeadTailProperties
<1>5. u.i = c.i /\ (u.last <=> n = 1)
  <2>1. 1 \in DOMAIN c.out
    BY <1>3
  <2>2. c.out[1].i = c.i /\ (c.out[1].last <=> 1 = n)
    BY <1>2, <2>1 DEF OutFits
  <2> QED
    BY <1>4, <2>2
<1>6. DOMAIN o = 1 .. n - 1
  BY <1>4
<1> HIDE DEF o
<1>7. \A x \in DOMAIN o : o[x].i = c.i /\ (o[x].last <=> x = n - 1)
  <2> SUFFICES ASSUME NEW x \in 1 .. n - 1 PROVE o[x].i = c.i /\ (o[x].last <=> x = n - 1)
    BY <1>6
  <2>1. x + 1 \in DOMAIN c.out /\ (x + 1 = n <=> x = n - 1)
    BY <1>3
  <2>2. c.out[x + 1].i = c.i /\ (c.out[x + 1].last <=> x + 1 = n)
    BY <1>2, <2>1 DEF OutFits
  <2> QED
    BY <1>4, <2>1, <2>2
<1>8. o = <<>> <=> n = 1
  <2>1. o = <<>> <=> Len(o) = 0
    BY <1>4, NonEmpty
  <2> QED
    BY <1>3, <1>4, <2>1
<1>9. /\ DOMAIN e = ConnFields /\ e.st = c.st /\ e.prot = c.prot /\ e.rbuf = c.rbuf /\ e.rsize = c.rsize
      /\ e.i = c.i /\ e.rl = c.rl /\ e.sb = c.sb /\ e.go = c.go /\ e.noreply = c.noreply
      /\ e.sub = c.sub /\ e.out = o /\ e.log = l
  <2> HIDE DEF l
  <2>1. e = [c EXCEPT !.out = o, !.log = l]
    BY DEF o, l
  <2> QED
    BY <1>1, <2>1 DEF ConnFields
<1> HIDE DEF u, n
<1>10. /\ l \in Seq(Nat)
       /\ n # 1 => l = c.log
       /\ n = 1 => /\ Len(l) = Len(c.log) + 1 /\ l[Len(c.log) + 1] = c.i
                   /\ \A x \in 1 .. Len(c.log) : l[x] = c.log[x]
  BY <1>2, <1>5, AppendProperties
<1> HIDE DEF l
<1>11. /\ Len(c.log) \in Nat /\ DOMAIN c.log = 1 .. Len(c.log) /\ DOMAIN l = 1 .. Len(l) /\ Len(l) \in Nat
       /\ Len(c.log) + 1 \in Nat
  BY <1>2, <1>10
<1>21. n = 1 => DOMAIN l = 1 .. Len(c.log) + 1
  BY <1>10, <1>11
<1>22. ASSUME n = 1, NEW x \in DOMAIN l
       PROVE  (x \in DOMAIN c.log /\ l[x] = c.log[x]) \/ (x = Len(c.log) + 1 /\ l[x] = c.i)
  <2> DEFINE m == Len(c.log)
  <2>1. x \in 1 .. m + 1 /\ m \in Nat
    BY <1>11, <1>21, <1>22
  <2> HIDE DEF m
  <2>2. x \in 1 .. m \/ x = m + 1
    BY <2>1
  <2> QED
    BY <1>10, <1>11, <1>22, <2>2 DEF m
<1>12. LogOrder(e)
  <2>1. CASE n # 1
    BY <1>2, <1>9, <1>10, <2>1 DEF LogOrder
  <2>2. CASE n = 1
    <3>1. ASSUME NEW x \in DOMAIN l, NEW y \in DOMAIN l, x < y
          PROVE  l[x] < l[y] \/ l[y] = 0
      <4>1. x \in DOMAIN c.log /\ l[x] = c.log[x]
        <5> DEFINE m == Len(c.log)
        <5>1. x \in 1 .. m + 1 /\ y \in 1 .. m + 1 /\ m \in Nat
          BY <1>11, <1>21, <2>2
        <5> HIDE DEF m
        <5>2. x # m + 1
          BY <3>1, <5>1
        <5> QED
          BY <1>22, <2>2, <5>2 DEF m
      <4>2. CASE y \in DOMAIN c.log
        BY <1>2, <1>10, <1>11, <2>2, <3>1, <4>1, <4>2 DEF LogOrder
      <4>3. CASE y \notin DOMAIN c.log
        <5>1. y = Len(c.log) + 1 /\ l[y] = c.i
          BY <1>22, <2>2, <4>3
        <5>2. c.i = 0 \/ Below(c, c.i)
          BY <1>2 DEF Answers
        <5> QED
          BY <4>1, <5>1, <5>2 DEF Below
      <4> QED
        BY <4>2, <4>3
    <3> QED
      BY <1>9, <1>10, <3>1 DEF LogOrder
  <2> QED
    BY <2>1, <2>2
<1>13. \A j : Answered(c, j) => Answered(e, j)
  <2>1. ASSUME NEW x \in DOMAIN c.log PROVE x \in DOMAIN l /\ l[x] = c.log[x]
    <3>1. CASE n # 1
      BY <1>10, <3>1
    <3>2. CASE n = 1
      <4> DEFINE m == Len(c.log)
      <4>1. x \in 1 .. m /\ m \in Nat
        BY <1>11
      <4> HIDE DEF m
      <4>2. x \in 1 .. m + 1
        BY <4>1
      <4> QED
        BY <1>10, <1>21, <3>2, <4>1, <4>2 DEF m
    <3> QED
      BY <3>1, <3>2
  <2> QED
    BY <1>9, <2>1 DEF Answered
<1>14. n = 1 => Answered(e, c.i)
  <2>1. n = 1 => Len(c.log) + 1 \in DOMAIN l /\ l[Len(c.log) + 1] = c.i
    <3> DEFINE m == Len(c.log)
    <3>1. m \in Nat
      BY <1>11
    <3> HIDE DEF m
    <3>2. m + 1 \in 1 .. m + 1
      BY <3>1
    <3> QED
      BY <1>10, <1>21, <3>2 DEF m
  <2> QED
    BY <1>9, <2>1 DEF Answered
<1>15. Below(c, c.i + 1) => Below(e, c.i + 1)
  <2> SUFFICES ASSUME Below(c, c.i + 1), NEW x \in DOMAIN l PROVE l[x] < c.i + 1
    BY <1>9 DEF Below
  <2>1. CASE x \in DOMAIN c.log /\ l[x] = c.log[x]
    BY <2>1 DEF Below
  <2>2. CASE l[x] = c.i
    BY <1>2, <2>2
  <2> QED
    BY <1>10, <1>22, <2>1, <2>2
<1>16. Target(e) = Target(c) /\ Due(e) = Due(c) /\ Live(e) /\ Cmd(e) = Cmd(c)
  BY <1>1, <1>9 DEF Target, Due, Live, Cmd
<1>17. Told(e) /\ InStep(e)
  BY <1>1, <1>2, <1>9, <1>16 DEF Told, InStep, SubFits, Live
<1>18. OutFits(e)
  BY <1>4, <1>7, <1>9 DEF OutFits
<1>19. Answers(e)
  <2>1. \A j \in 1 .. e.i - 1 : Answered(e, j)
    BY <1>2, <1>9, <1>13 DEF Answers
  <2>2. Target(e) # "closing" => Below(e, e.i + 1)
    BY <1>2, <1>9, <1>15, <1>16 DEF Answers
  <2>3. e.out = <<>> => Answered(e, e.i)
    BY <1>8, <1>9, <1>14
  <2>4. e.out # <<>> => e.i = 0 \/ Below(e, e.i)
    BY <1>2, <1>8, <1>9, <1>10 DEF Answers, Below
  <2>5. e.st \in {"write", "mwrite"}
    BY <1>9
  <2> QED
    BY <1>18, <2>1, <2>2, <2>3, <2>4, <2>5 DEF Answers, Between
<1>20. RecordInv(e)
  BY <1>2, <1>4, <1>9, <1>12, <1>17, <1>19 DEF RecordInv, States, Pieces
<1> QED
  BY <1>1, <1>9, <1>16, <1>20 DEF Synced, Live

\* conn_write, conn_mwrite and transmit send the answer, or give up.
LEMMA TransmitSync ==
  ASSUME NEW off, SyncInv(off), NEW f \in Fds, transmit(f)
  PROVE  SyncInv(off)'
<1> DEFINE c == conn[f]
           u == Head(c.out)
           full == Stop([c EXCEPT !.ev = "write"])
           gone == [c EXCEPT !.st = "closing"]
           sent == [c EXCEPT !.out = Tail(@), !.log = IF u.last THEN Append(@, u.i) ELSE @]
<1>1. /\ c.st \in {"write", "mwrite"} /\ conf' = conf
      /\ \/ c.out = <<>> /\ Become(f, Transmitted(c)) /\ sock' = sock
         \/ Become(f, full) /\ sock' = sock
         \/ Become(f, gone) /\ sock' = sock
         \/ /\ c.out # <<>> /\ Become(f, sent)
            /\ \E b \in {TRUE, ~conf.slow} : sock' = [sock EXCEPT ![f].wr = b]
  BY DEF transmit, Still
<1>2. /\ DOMAIN c = ConnFields /\ DOMAIN sock[f] = SockFields /\ RecordInv(c)
      /\ Synced(off, c, sock[f])
  BY TurnFacts
<1>3. CASE c.out = <<>> /\ Become(f, Transmitted(c)) /\ sock' = sock
  BY <1>1, <1>3, TransmittedSynced, OnlyConn
<1>4. CASE Become(f, full) /\ sock' = sock
  <2>1. SameTalk(c, full)
    BY <1>2 DEF SameTalk, Stop, ConnFields
  <2> HIDE DEF full
  <2>2. Synced(off, full, sock[f])
    BY <1>2, <2>1, SameTalkSynced
  <2> QED
    BY <1>1, <1>4, <2>2, OnlyConn
<1>5. CASE Become(f, gone) /\ sock' = sock
  <2>1. /\ DOMAIN gone = ConnFields /\ gone.st = "closing" /\ gone.go = c.go /\ gone.log = c.log
        /\ gone.sb = c.sb /\ gone.rsize = c.rsize /\ gone.i = c.i
    BY <1>2 DEF ConnFields
  <2> HIDE DEF gone
  <2>2. c.sb \in Nat /\ c.rsize \in Nat /\ c.i \in Nat
    BY <1>2 DEF RecordInv
  <2>3. Synced(off, gone, sock[f])
    BY <1>2, <2>1, <2>2, HungSynced
  <2> QED
    BY <1>1, <1>5, <2>3, OnlyConn
<1>6. ASSUME c.out # <<>>, Become(f, sent), NEW b, sock' = [sock EXCEPT ![f].wr = b]
      PROVE  SyncInv(off)'
  <2>1. Synced(off, sent, sock[f])
    BY <1>1, <1>6, PieceSynced
  <2> DEFINE s == [sock[f] EXCEPT !.wr = b]
  <2>2. sock' = [sock EXCEPT ![f] = s]
    BY <1>6
  <2>3. /\ DOMAIN s = SockFields /\ s.net = sock[f].net /\ s.todo = sock[f].todo
        /\ s.eof = sock[f].eof /\ s.open = sock[f].open
    BY <1>2 DEF SockFields
  <2> HIDE DEF s, sent
  <2>4. Synced(off, sent, s)
    BY <2>1, <2>3 DEF Synced
  <2> QED
    BY <1>1, <1>6, <2>2, <2>3, <2>4, SyncOne DEF Become
<1> QED
  BY <1>1, <1>3, <1>4, <1>5, <1>6

\* A closed connection is in step with no client, or with one that is still waiting.
LEMMA ClosedSynced ==
  ASSUME NEW off, NEW c, RecordInv(c), c.st = "closed", NEW s,
         s.open => Placed(Stream, <<>>, s.net, s.todo, s.eof, 0)
  PROVE  Synced(off, c, s)
BY DEF Synced, Live

\* conn_close leaves the descriptor to nobody.
LEMMA CloseSync ==
  ASSUME NEW off, SyncInv(off), NEW f \in Fds, conn_close(f)
  PROVE  SyncInv(off)'
<1> DEFINE c == conn[f]
           r == conn_release_items(c)
           e == Stop([[r EXCEPT !.wfree = FALSE] EXCEPT !.st = "closed", !.ev = "none"])
           s == [sock[f] EXCEPT !.open = FALSE, !.net = <<>>, !.todo = <<>>]
<1>1. /\ Become(f, e) /\ sock' = [sock EXCEPT ![f].open = FALSE, ![f].net = <<>>, ![f].todo = <<>>]
      /\ conf' = conf
  BY DEF conn_close, conn_cleanup
<1>2. DOMAIN c = ConnFields /\ DOMAIN sock = Fds /\ DOMAIN sock[f] = SockFields /\ RecordInv(c)
  BY TurnFacts
<1>3. /\ DOMAIN r = ConnFields /\ r.go = c.go /\ r.log = c.log /\ r.sb = c.sb
      /\ r.rsize = c.rsize /\ r.i = c.i
  BY <1>2 DEF conn_release_items, ConnFields
<1> HIDE DEF r
<1>4. /\ DOMAIN e = ConnFields /\ e.st = "closed" /\ e.go = c.go /\ e.log = c.log /\ e.sb = c.sb
      /\ e.rsize = c.rsize /\ e.i = c.i
  BY <1>3 DEF Stop, ConnFields
<1> HIDE DEF e
<1>5. RecordInv(e)
  BY <1>2, <1>4 DEF RecordInv, LogOrder, Live, States
<1>6. DOMAIN s = SockFields /\ s.open = FALSE
  BY <1>2 DEF SockFields
<1>7. sock' = [sock EXCEPT ![f] = s]
  BY <1>1, <1>2
<1> HIDE DEF s
<1>8. Synced(off, e, s)
  BY <1>4, <1>5, <1>6, ClosedSynced
<1> QED
  BY <1>1, <1>6, <1>7, <1>8, SyncOne DEF Become

\* A new connection is at the beginning of the stream.
LEMMA NewConnRests ==
  ASSUME conf \in Scenarios, NEW c, RecordInv(c), NEW w
  PROVE  LET e == conn_new(c, w)
         IN  Rested(e) /\ e.st = "new_cmd" /\ e.i = 0 /\ e.rbuf = <<>>
<1> DEFINE e == conn_new(c, w)
<1>1. /\ DOMAIN e = ConnFields /\ e.go = "new_cmd" /\ e.st = "new_cmd" /\ e.i = 0 /\ e.rbuf = <<>>
      /\ e.sb = c.sb /\ e.rsize = c.rsize /\ e.rl = 0 /\ e.prot = conf.bind /\ e.noreply = FALSE
      /\ e.out = <<>> /\ e.log = <<>>
  BY DEF conn_new, NoConn, ConnFields
<1> HIDE DEF e
<1>2. /\ <<>> \in Seq(Nat) /\ <<>> \in Seq(Units) /\ <<>> \in Seq(Pieces) /\ Len(<<>>) = 0
      /\ DOMAIN <<>> = {}
  BY EmptySeq
<1>3. c.sb \in Nat /\ c.rsize \in Nat /\ 0 \in 0 .. Len(conf.script)
  BY ScriptFacts DEF RecordInv
<1>4. LogOrder(e) /\ Below(e, e.i + 1)
  BY <1>1, <1>2 DEF LogOrder, Below
<1>5. 1 .. e.i = {}
  BY <1>1
<1>6. Rested(e)
  <2>1. e.prot \in {conf.bind, conf.prot} /\ (e.prot = "binary" \/ e.noreply = FALSE)
    BY <1>1
  <2>2. \A j \in 1 .. e.i : Answered(e, j)
    BY <1>5
  <2> QED
    BY <1>1, <1>2, <1>3, <1>4, <2>1, <2>2 DEF Rested
<1> QED
  BY <1>1, <1>6 DEF e

\* A worker makes a connection of a descriptor, or closes it.
LEMMA ProcessSync ==
  ASSUME FdInv, NEW off, SyncInv(off), NEW w \in Worker, thread_libevent_process(w)
  PROVE  SyncInv(off)'
<1> DEFINE f == Head(wk[w].cq)
           c == conn[f]
           e == conn_new(c, w)
           s == [sock[f] EXCEPT !.open = FALSE, !.net = <<>>, !.todo = <<>>]
<1>1. f \in Fds /\ InQueue(f)
  BY QueueTail DEF FdInv, thread_libevent_process
<1>2. /\ conf' = conf
      /\ \/ Become(f, e) /\ sock' = sock
         \/ /\ conn' = conn
            /\ sock' = [sock EXCEPT ![f].open = FALSE, ![f].net = <<>>, ![f].todo = <<>>]
  BY DEF thread_libevent_process
<1> HIDE DEF f
<1>3. c.st = "closed" /\ sock[f].open = TRUE
  BY <1>1 DEF FdInv, OnePlace, OpenConns, SockType
<1>4. /\ conf \in Scenarios /\ RecordInv(c) /\ Synced(off, c, sock[f]) /\ DOMAIN sock = Fds
      /\ DOMAIN sock[f] = SockFields /\ off[0] = 0
  BY <1>1, TurnFacts
<1>5. ASSUME Become(f, e), sock' = sock PROVE SyncInv(off)'
  <2>1. Rested(e) /\ e.st = "new_cmd" /\ e.i = 0 /\ e.rbuf = <<>>
    BY <1>4, NewConnRests
  <2> HIDE DEF e
  <2>2. RecordInv(e) /\ Live(e) /\ Due(e) = 0
    BY <1>4, <2>1, RestedHolds DEF Between
  <2>3. Placed(Stream, <<>>, sock[f].net, sock[f].todo, sock[f].eof, 0)
    BY <1>3, <1>4 DEF Synced
  <2>4. Synced(off, e, sock[f])
    BY <1>4, <2>1, <2>2, <2>3 DEF Synced, Live
  <2> QED
    BY <1>1, <1>2, <1>5, <2>4, OnlyConn
<1>6. ASSUME conn' = conn,
             sock' = [sock EXCEPT ![f].open = FALSE, ![f].net = <<>>, ![f].todo = <<>>]
      PROVE  SyncInv(off)'
  <2>1. DOMAIN s = SockFields /\ s.open = FALSE
    BY <1>4 DEF SockFields
  <2>2. sock' = [sock EXCEPT ![f] = s]
    BY <1>1, <1>4, <1>6
  <2> HIDE DEF s
  <2>3. Synced(off, c, s)
    BY <1>3, <1>4, <2>1, ClosedSynced
  <2> QED
    BY <1>1, <1>2, <1>6, <2>1, <2>2, <2>3, SyncOne
<1> QED
  BY <1>2, <1>5, <1>6

\* A client's whole stream is before it when it is accepted.
LEMMA AllToCome ==
  ASSUME NEW str \in Seq(Units)
  PROVE  Placed(str, <<>>, <<>>, str, FALSE, 0)
<1>1. <<>> \in Seq(Units) /\ Len(<<>>) = 0 /\ Len(str) \in Nat
  BY EmptySeq
<1>2. Piece(str, <<>>, 0) /\ Piece(str, str, 0)
  BY <1>1 DEF Piece
<1> QED
  BY <1>1, <1>2 DEF Placed

\* The listener takes a client in, for a descriptor that nobody has.
LEMMA AcceptSync ==
  ASSUME FdInv, NEW off, SyncInv(off), NEW f \in Fds, ~sock[f].open, dispatch_conn_new(f),
         conf' = conf, conn' = conn
  PROVE  SyncInv(off)'
<1> DEFINE c == conn[f]
           s == [open |-> TRUE, todo |-> Stream, net |-> <<>>, eof |-> FALSE, wr |-> TRUE]
<1>1. sock' = [sock EXCEPT ![f] = s]
  BY DEF dispatch_conn_new
<1>2. /\ DOMAIN s = SockFields /\ s.todo = Stream /\ s.net = <<>> /\ s.eof = FALSE
  BY DEF SockFields
<1> HIDE DEF s
<1>3. c.st = "closed"
  BY DEF FdInv, OnePlace, OpenConns
<1>4. RecordInv(c) /\ Stream \in Seq(Units)
  BY TurnFacts
<1>5. Placed(Stream, <<>>, s.net, s.todo, s.eof, 0)
  BY <1>2, <1>4, AllToCome
<1>6. Synced(off, c, s)
  BY <1>3, <1>4, <1>5, ClosedSynced
<1> QED
  BY <1>1, <1>2, <1>6, SyncOne

\* The client's side of the socket changes, and stays where it is in the stream.
LEMMA OnlySock ==
  ASSUME NEW off, SyncInv(off), NEW f \in Fds, conf' = conf, conn' = conn,
         NEW s, sock' = [sock EXCEPT ![f] = s], DOMAIN s = SockFields, s.open = sock[f].open,
         \A b, p : Placed(Stream, b, sock[f].net, sock[f].todo, sock[f].eof, p)
                     => Placed(Stream, b, s.net, s.todo, s.eof, p)
  PROVE  SyncInv(off)'
<1>1. Synced(off, conn[f], sock[f])
  BY TurnFacts
<1>2. Synced(off, conn[f], s)
  BY <1>1 DEF Synced
<1> QED
  BY <1>2, SyncOne

\* Clients send, receive and hang up.
LEMMA ClientSync ==
  ASSUME NEW off, SyncInv(off), NEW f \in Fds, ClientSend(f) \/ ClientRecv(f) \/ ClientClose(f)
  PROVE  SyncInv(off)'
<1> DEFINE r == sock[f]
<1>1. conf' = conf /\ conn' = conn
  BY DEF ClientSend, ClientRecv, ClientClose, Still
<1>2. Stream \in Seq(Units) /\ DOMAIN sock = Fds /\ DOMAIN r = SockFields
  BY TurnFacts
<1>3. CASE ClientSend(f)
  <2> DEFINE x == Append(r.net, Head(r.todo))
             y == Tail(r.todo)
             s == [r EXCEPT !.net = x, !.todo = y]
  <2>1. r.todo # <<>> /\ sock' = [sock EXCEPT ![f].net = Append(@, Head(r.todo)), ![f].todo = Tail(@)]
    BY <1>3 DEF ClientSend
  <2>2. sock' = [sock EXCEPT ![f] = s]
    BY <1>2, <2>1
  <2>3. \A b, p : Placed(Stream, b, r.net, r.todo, r.eof, p) => Placed(Stream, b, x, y, r.eof, p)
    BY <1>2, <2>1, PlacedSend
  <2> HIDE DEF x, y
  <2>4. /\ DOMAIN s = SockFields /\ s.open = r.open /\ s.net = x /\ s.todo = y /\ s.eof = r.eof
    BY <1>2 DEF SockFields
  <2> HIDE DEF s
  <2> QED
    BY <1>1, <2>2, <2>3, <2>4, OnlySock
<1>4. CASE ClientRecv(f)
  <2> DEFINE s == [r EXCEPT !.wr = TRUE]
  <2>1. sock' = [sock EXCEPT ![f] = s]
    BY <1>4 DEF ClientRecv
  <2>2. /\ DOMAIN s = SockFields /\ s.open = r.open /\ s.net = r.net /\ s.todo = r.todo
        /\ s.eof = r.eof
    BY <1>2 DEF SockFields
  <2> HIDE DEF s
  <2> QED
    BY <1>1, <2>1, <2>2, OnlySock
<1>5. CASE ClientClose(f)
  <2> DEFINE s == [r EXCEPT !.eof = TRUE, !.todo = <<>>]
  <2>1. sock' = [sock EXCEPT ![f].eof = TRUE, ![f].todo = <<>>]
    BY <1>5 DEF ClientClose
  <2>2. sock' = [sock EXCEPT ![f] = s]
    BY <1>2, <2>1
  <2>3. /\ DOMAIN s = SockFields /\ s.open = r.open /\ s.net = r.net /\ s.todo = <<>>
        /\ s.eof = TRUE
    BY <1>2 DEF SockFields
  <2>4. \A b, p : Placed(Stream, b, r.net, r.todo, r.eof, p) => Placed(Stream, b, r.net, <<>>, TRUE, p)
    BY <1>2, PlacedEnd
  <2> HIDE DEF s
  <2> QED
    BY <1>1, <2>2, <2>3, <2>4, OnlySock
<1> QED
  BY <1>3, <1>4, <1>5

\* Steps that leave connections and sockets alone.
LEMMA SyncSame ==
  ASSUME NEW off, SyncInv(off), UNCHANGED <<conf, conn, sock>>
  PROVE  SyncInv(off)'
<1>1. Stream' = Stream
  BY StreamStays
<1>2. ASSUME NEW f \in Fds PROVE Synced(off, conn[f], sock[f])'
  <2>1. RecordInv(conn[f]) => RecordInv(conn[f])'
    BY DEF RecordInv, Told, SubFits, InStep, Answers, Answered, Below, Due, Target, Cmd,
           OutFits, LogOrder, Live
  <2>2. /\ Due(conn[f])' = Due(conn[f]) /\ Target(conn[f])' = Target(conn[f])
        /\ Live(conn[f])' <=> Live(conn[f])
    BY DEF Due, Target, Cmd, Live
  <2> QED
    BY <1>1, <2>1, <2>2 DEF SyncInv, Synced
<1> QED
  BY <1>2 DEF SyncInv, Afforded

\* Every step keeps all connections in step.
LEMMA SyncStep ==
  ASSUME FdInv, NEW off, SyncInv(off), [Next]_vars
  PROVE  SyncInv(off)'
<1>1. ASSUME NEW f \in Fds, DriveMachine(f) PROVE SyncInv(off)'
  BY <1>1, NewCmdSync, WaitingSync, ReadNetworkSync, ReadCommandSync, NreadSync, SwallowSync,
     TransmitSync, CloseSync DEF DriveMachine
<1>2. ASSUME NEW w \in Worker, CloseAllow(w) \/ CloseCount(w) PROVE SyncInv(off)'
  BY <1>2, SyncSame DEF CloseAllow, CloseCount
<1>3. ASSUME Accept PROVE SyncInv(off)'
  <2>1. conf' = conf /\ conn' = conn
    BY <1>3 DEF Accept
  <2>2. CASE \E f \in Fds : ~sock[f].open /\ dispatch_conn_new(f)
    BY <2>1, <2>2, AcceptSync
  <2>3. CASE sock' = sock
    BY <2>1, <2>3, SyncSame
  <2> QED
    BY <1>3, <2>2, <2>3 DEF Accept
<1>4. ASSUME do_accept_new_conns \/ maxconns_handler PROVE SyncInv(off)'
  BY <1>4, SyncSame DEF do_accept_new_conns, maxconns_handler
<1>5. ASSUME Server PROVE SyncInv(off)'
  BY <1>1, <1>2, <1>3, <1>4, <1>5, EventSync, ProcessSync DEF Server
<1>6. ASSUME Client \/ HangUp PROVE SyncInv(off)'
  BY <1>6, ClientSync DEF Client, HangUp
<1>7. ASSUME UNCHANGED vars PROVE SyncInv(off)'
  BY <1>7, SyncSame DEF vars
<1> QED
  BY <1>5, <1>6, <1>7 DEF Next

InSync == \E off : SyncInv(off)

\* All connections are always in step with their clients.
LEMMA AlwaysInSync ==
  ASSUME \A s \in Scenarios : Afforded(s)
  PROVE  Spec => [](FdInv /\ InSync)
<1>1. Init => FdInv /\ InSync
  BY FdInit, SyncInit DEF InSync
<1>2. (FdInv /\ InSync) /\ [Next]_vars => (FdInv /\ InSync)'
  <2>1. FdInv /\ [Next]_vars => FdInv'
    BY FdStep
  <2>2. ASSUME FdInv, InSync, [Next]_vars PROVE InSync'
    <3>1. PICK off : SyncInv(off)
      BY <2>2 DEF InSync
    <3>2. SyncInv(off)'
      BY <2>2, <3>1, SyncStep
    <3> QED
      BY <3>2 DEF InSync
  <2> QED
    BY <2>1, <2>2
<1> QED
  BY <1>1, <1>2, PTL DEF Spec

(* The parser never loses the place in the stream: a header is read where  *)
(* a command begins, and what an item, a key or sbytes still waits for is  *)
(* what is left of the command in progress; for every script of commands   *)
(* and every way it is cut by reads, buffers and yields.                   *)
THEOREM ParserInSync ==
  ASSUME \A s \in Scenarios : Afforded(s)
  PROVE  Spec => []StreamInSync
<1>1. InSync => StreamInSync
  BY SyncInvMeans DEF InSync
<1> QED
  BY <1>1, AlwaysInSync, PTL

(* Every command that wants an answer has it before the next one is begun, *)
(* none has two, and answers are sent in the order of the commands.        *)
THEOREM CommandsAnswered ==
  ASSUME \A s \in Scenarios : Afforded(s)
  PROVE  Spec => []AnswersInOrder
<1>1. InSync => AnswersInOrder
  BY SyncInvMeans DEF InSync
<1> QED
  BY <1>1, AlwaysInSync, PTL

=============================================================================
