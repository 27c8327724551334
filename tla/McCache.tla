------------------------------ MODULE McCache ------------------------------
(***************************************************************************)
(* What memcached's item store promises its callers, without locks, slabs, *)
(* reference counts or hash tables: a map from keys to (value, cas) pairs  *)
(* on which every command acts at one instant between its call and its     *)
(* return, and from which entries may vanish at any moment (eviction,      *)
(* expiry, flush, slab reassignment).  A value is a sequence of digits.    *)
(*                                                                         *)
(* The steps are relations between a cache c and its successor d, and      *)
(* between a client's call q and its successor r.                          *)
(***************************************************************************)
EXTENDS Integers, Sequences

CONSTANTS Clients, CacheKeys, Wrap

VARIABLES cache,   \* cache[k]: <<>> when absent, else <<[val, cas]>>
          call     \* call[t]: the command of client t and how far it is

Absent == << >>

CInit == /\ cache = [k \in CacheKeys |-> Absent]
         /\ call = [t \in Clients |-> [at |-> "idle"]]

MayVanish(c, d, K) == \A k \in K : d[k] = c[k] \/ d[k] = Absent

(* The entry of k becomes v under a cas id no entry has (and may vanish at *)
(* once: it can be stored with an expiry time already past).               *)
Put(c, d, k, v) ==
    /\ d[k] # Absent => /\ d[k][1].val = v
                        /\ \A j \in CacheKeys : c[j] # Absent => c[j][1].cas # d[k][1].cas
    /\ MayVanish(c, d, CacheKeys \ {k})

Finish(q, r, res) == r = [q EXCEPT !.at = "done", !.res = res]

(* A command with its arguments is handed to the store.                    *)
Invoke(c, d, q, r) == q.at = "idle" /\ r.at = "pending" /\ c = d

(* What a storage command answers for the entry it meets.                  *)
StoreResult(cmd, e, id) ==
    CASE cmd = "set" -> "STORED"
      [] cmd = "add" -> IF e = Absent THEN "STORED" ELSE "NOT_STORED"
      [] cmd = "cas" -> IF e = Absent THEN "NOT_FOUND"
                        ELSE IF e[1].cas = id THEN "STORED" ELSE "EXISTS"
      [] OTHER -> IF e = Absent THEN "NOT_STORED" ELSE "STORED"

NewValue(cmd, e, v) ==
    CASE cmd = "append"  -> e[1].val \o v
      [] cmd = "prepend" -> v \o e[1].val
      [] OTHER -> v

(* The storage commands take effect at one instant.                        *)
Store(c, d, q, r) ==
    LET e == c[q.key]
        res == StoreResult(q.cmd, e, q.cas)
    IN  /\ q.cmd \in {"set", "add", "replace", "append", "prepend", "cas"}
        /\ Finish(q, r, res)
        /\ IF res = "STORED" THEN Put(c, d, q.key, NewValue(q.cmd, e, q.val))
                             ELSE MayVanish(c, d, CacheKeys)

(* incr: nothing intervenes between reading the number and writing its     *)
(* successor.                                                              *)
Delta(c, d, q, r) ==
    LET e == c[q.key]
    IN  /\ q.cmd = "incr"
        /\ IF e = Absent THEN Finish(q, r, "NOT_FOUND") /\ MayVanish(c, d, CacheKeys)
           ELSE IF Len(e[1].val) > 1
           THEN Finish(q, r, "NON_NUMERIC") /\ MayVanish(c, d, CacheKeys)
           ELSE Finish(q, r, "OK") /\ Put(c, d, q.key, <<(e[1].val[1] + 1) % Wrap>>)

(* get and touch answer with the entry of this instant.                    *)
Get(c, d, q, r) ==
    LET e == c[q.key]
    IN  /\ q.cmd \in {"get", "touch"}
        /\ IF e = Absent THEN Finish(q, r, "NOT_FOUND")
           ELSE r = [q EXCEPT !.at = "done", !.res = "VALUE", !.out = e[1].val]
        /\ MayVanish(c, d, CacheKeys)

(* delete answers for the version it saw; that version is gone when it     *)
(* returns, a newer one stored meanwhile is not.                           *)
DeleteSee(c, d, q, r) ==
    LET e == c[q.key]
    IN  /\ q.cmd = "delete"
        /\ IF e = Absent THEN Finish(q, r, "NOT_FOUND")
           ELSE r = [q EXCEPT !.at = "deleting", !.out = <<e[1].cas>>]
        /\ MayVanish(c, d, CacheKeys)

DeleteDone(c, d, q, r) ==
    /\ r = [q EXCEPT !.at = "done", !.res = "DELETED", !.out = <<>>]
    /\ d[q.key] # Absent => <<d[q.key][1].cas>> # q.out
    /\ MayVanish(c, d, CacheKeys)

(* Out of memory: a command may give up.                                   *)
Fail(c, d, q, r) == Finish(q, r, "failed") /\ MayVanish(c, d, CacheKeys)

Return(c, d, q, r) == r = [at |-> "idle"] /\ MayVanish(c, d, CacheKeys)

ClientStep(c, d, q, r) ==
    CASE q.at = "idle"     -> Invoke(c, d, q, r)
      [] q.at = "pending"  -> \/ Store(c, d, q, r) \/ Delta(c, d, q, r) \/ Get(c, d, q, r)
                              \/ DeleteSee(c, d, q, r) \/ Fail(c, d, q, r)
      [] q.at = "deleting" -> DeleteDone(c, d, q, r)
      [] q.at = "done"     -> Return(c, d, q, r)

(* Entries vanish, or one client takes a step.                             *)
CStep(c, d, p, s) ==
    LET T == {t \in Clients : p[t] # s[t]}
    IN  IF T = {} THEN MayVanish(c, d, CacheKeys)
        ELSE \E t \in Clients : T = {t} /\ ClientStep(c, d, p[t], s[t])

CNext == CStep(cache, cache', call, call')

CacheSpec == CInit /\ [][CNext]_<<cache, call>>
=============================================================================
