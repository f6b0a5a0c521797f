------------------------------- MODULE Table -------------------------------
(***************************************************************************)
(* The shared memory table: src/memory/table.cc and openswoole_table.h, as *)
(* the PHP methods of ext-src/openswoole_table.cc use it.  A key hashes to *)
(* one of Size root rows; further keys of a root are chained in rows from  *)
(* a pool.  A chain is guarded by the spin lock in its root row, which     *)
(* notes its owner so that others can take it over when the owner dies.    *)
(*                                                                         *)
(* Processes die at any point.  What a process does between taking and     *)
(* releasing the spin lock is cut where a death would leave the chain, the *)
(* pool and the values in different states.  The empty key is NoKey: it   *)
(* is what a cleared row holds.                                            *)
(***************************************************************************)
EXTENDS Naturals, Sequences, FiniteSets

CONSTANTS Procs, Size, PoolSize, Keys, Vals, Hash, MaxDeaths,
          Given,      \* the values each key is set to
          Loads,      \* key sequences set before the processes are forked
          MaxOps,     \* bound on the operations and loops started
          Iterator,   \* the process that runs a foreach loop
          NoKey, NoVal, NoProc

Roots == 1..Size
Pool == (Size + 1)..(Size + PoolSize)
Rows == Roots \cup Pool
NoRow == 0

ASSUME TableAssumption ==
  /\ Size \in Nat \ {0} /\ PoolSize \in Nat
  /\ Hash \in [Keys -> Roots] /\ Given \in [Keys -> (SUBSET Vals) \ {{}}]
  /\ \A s \in Loads :
       /\ s \in Seq(Keys) /\ \A i, j \in 1..Len(s) : s[i] = s[j] => i = j
       /\ Len(s) <= PoolSize + Cardinality({Hash[s[i]] : i \in 1..Len(s)})
  /\ NoVal \notin Vals /\ NoProc \notin Procs /\ Iterator \in Procs
  /\ MaxDeaths \in Nat /\ MaxOps \in Nat

VARIABLES
  row,        \* active, key, val and next of every row
  lock,       \* lock_ of the root rows
  lock_pid,   \* and the owner they note
  free,       \* the rows in the pool, the next one to hand out first
  row_num,
  pc, op,     \* where each process is, and in which operation
  at,         \* the row a process has allocated or unlinked
  dead,
  out,        \* history: the last answer, until its operation returns
  absolute_index, collision_index, current,   \* the iterator
  iter,       \* a foreach loop is running
  seen,       \* history: the keys this iteration has visited
  stable,     \* history: the keys that were there all the time
  dirty,      \* history: something was deleted since rewind()
  ops         \* the operations and loops started

lockVars == <<lock, lock_pid>>
dataVars == <<row, free, row_num>>
procVars == <<pc, op, at, dead>>
iterVars == <<absolute_index, collision_index, current, iter, seen>>
histVars == <<stable, dirty>>
tableVars == <<lockVars, dataVars, procVars, iterVars, histVars, out, ops>>

Ops == [kind : {"set"}, key : Keys, val : Vals] \cup [kind : {"get", "del"}, key : Keys]
         \cup [kind : {"forward"}, root : Roots] \cup [kind : {"none"}]

Waiting == {"lock", "spun", "force"}
Holding == {"got", "cs", "link", "fill", "move", "free", "unlock", "unlock_next"}

TableTypeOK ==
  /\ row \in [Rows -> [active : BOOLEAN, key : Keys \cup {NoKey}, val : Vals \cup {NoVal},
                       next : Rows \cup {NoRow}]]
  /\ lock \in [Roots -> {0, 1}] /\ lock_pid \in [Roots -> Procs \cup {NoProc}]
  /\ free \in Seq(Pool) /\ row_num \in Nat
  /\ pc \in [Procs -> {"idle", "check", "next"} \cup Waiting \cup Holding]
  /\ op \in [Procs -> Ops] /\ at \in [Procs -> Rows \cup {NoRow}]
  /\ dead \subseteq Procs /\ out \in Vals \cup {NoVal} \cup BOOLEAN
  /\ absolute_index \in 0..Size /\ collision_index \in Nat
  /\ current \in Keys \cup {NoKey}
  /\ iter \in BOOLEAN /\ seen \subseteq Keys
  /\ stable \subseteq Keys /\ dirty \in BOOLEAN /\ ops \in 0..MaxOps

Cleared == [active |-> FALSE, key |-> NoKey, val |-> NoVal, next |-> NoRow]

(* The rows after the keys of s, all different, are set in this order by   *)
(* the process that created the table: each takes its root row or the next *)
(* one of the pool, and becomes the last of its chain.                     *)
LoadedRows(s) ==
  LET First(i) == \A j \in 1..(i - 1) : Hash[s[j]] # Hash[s[i]]
      PoolUsed(i) == Cardinality({j \in 1..i : ~First(j)})
      Place(i) == IF First(i) THEN Hash[s[i]] ELSE Size + PoolSize + 1 - PoolUsed(i)
      Later(i) == {j \in (i + 1)..Len(s) : Hash[s[j]] = Hash[s[i]]}
      Next(i) == IF Later(i) = {} THEN NoRow
                 ELSE Place(CHOOSE j \in Later(i) : \A l \in Later(i) : j <= l)
  IN [r \in Rows |->
        IF \E i \in 1..Len(s) : Place(i) = r
        THEN LET i == CHOOSE j \in 1..Len(s) : Place(j) = r
             IN [active |-> TRUE, key |-> s[i], val |-> CHOOSE v \in Given[s[i]] : TRUE,
                 next |-> Next(i)]
        ELSE Cleared]

(* Table::create, and what its process sets before it forks the others.    *)
TableInit ==
  /\ \E s \in Loads :
       /\ row = LoadedRows(s)
       /\ row_num = Len(s)
       /\ LET left == {r \in Pool : ~row[r].active}
          IN free = [i \in 1..Cardinality(left) |-> Size + Cardinality(left) + 1 - i]
  /\ lock = [b \in Roots |-> 0] /\ lock_pid = [b \in Roots |-> NoProc]
  /\ pc = [p \in Procs |-> "idle"] /\ op = [p \in Procs |-> [kind |-> "none"]]
  /\ at = [p \in Procs |-> NoRow]
  /\ dead = {} /\ out = NoVal
  /\ absolute_index = 0 /\ collision_index = 0 /\ current = NoKey
  /\ iter = FALSE /\ seen = {} /\ stable = {} /\ dirty = FALSE /\ ops = 0

(* The chain of a root row, by position.                                   *)
After(r) == IF r = NoRow THEN NoRow ELSE row[r].next
Chain(b) ==
  LET nth[n \in 0..(PoolSize + 1)] == IF n = 0 THEN b ELSE After(nth[n - 1])
  IN nth
InChain(b) == LET chain == Chain(b) IN {chain[n] : n \in 0..(PoolSize + 1)} \ {NoRow}
Present(k) == \E r \in InChain(Hash[k]) : row[r].active /\ row[r].key = k

RootOf(p) == IF op[p].kind = "forward" THEN op[p].root ELSE Hash[op[p].key]
Matches(p) == {r \in InChain(RootOf(p)) : row[r].key = op[p].key}
Runs(p, where) == p \notin dead /\ pc[p] = where
GoTo(p, where) == pc' = [pc EXCEPT ![p] = where]

-----------------------------------------------------------------------------
(* TableRow::lock and unlock.                                              *)

lock_acquire(p) ==
  /\ Runs(p, "lock") /\ lock[RootOf(p)] = 0
  /\ lock' = [lock EXCEPT ![RootOf(p)] = 1]
  /\ GoTo(p, "got")
  /\ UNCHANGED <<lock_pid, dataVars, op, at, dead, iterVars, histVars, out>>

lock_spins(p) ==
  /\ Runs(p, "lock") /\ lock[RootOf(p)] # 0
  /\ GoTo(p, "spun")
  /\ UNCHANGED <<lockVars, dataVars, op, at, dead, iterVars, histVars, out>>

Holders(b) == {q \in Procs : pc[q] \in Holding /\ RootOf(q) = b}

(* Mutant: no lock is forced on account of the time.                       *)
owner_gone_NoTimeout(p) ==
  /\ Runs(p, "spun") /\ lock_pid[RootOf(p)] \in dead
  /\ GoTo(p, "force")
  /\ UNCHANGED <<lockVars, dataVars, op, at, dead, iterVars, histVars, out>>

(* The noted owner does not exist, or this process has waited for two      *)
(* seconds.  Assumed: nobody waits so long unless the holder is dead.      *)
owner_gone(p) ==
  /\ Runs(p, "spun")
  /\ \/ lock_pid[RootOf(p)] \in dead
     \/ lock[RootOf(p)] # 0 /\ Holders(RootOf(p)) \subseteq dead
  /\ GoTo(p, "force")
  /\ UNCHANGED <<lockVars, dataVars, op, at, dead, iterVars, histVars, out>>

spin_again(p) ==
  /\ Runs(p, "spun") /\ lock_pid[RootOf(p)] \notin dead
  /\ GoTo(p, "lock")
  /\ UNCHANGED <<lockVars, dataVars, op, at, dead, iterVars, histVars, out>>

force_unlock(p) ==
  /\ Runs(p, "force")
  /\ lock' = [lock EXCEPT ![RootOf(p)] = 1]
  /\ GoTo(p, "got")
  /\ UNCHANGED <<lock_pid, dataVars, op, at, dead, iterVars, histVars, out>>

note_owner(p) ==
  /\ Runs(p, "got")
  /\ lock_pid' = [lock_pid EXCEPT ![RootOf(p)] = p]
  /\ GoTo(p, "cs")
  /\ UNCHANGED <<lock, dataVars, op, at, dead, iterVars, histVars, out>>

unlock(p) ==
  /\ p \notin dead /\ pc[p] \in {"unlock", "unlock_next"}
  /\ lock' = [lock EXCEPT ![RootOf(p)] = 0]
  /\ GoTo(p, IF pc[p] = "unlock" THEN "idle" ELSE "next")
  /\ op' = [op EXCEPT ![p] = [kind |-> "none"]]
  /\ out' = NoVal
  /\ UNCHANGED <<lock_pid, dataVars, at, dead, iterVars, histVars>>

-----------------------------------------------------------------------------
(* The operations on a key.                                                *)

start(p) ==
  /\ Runs(p, "idle") /\ ops < MaxOps /\ ops' = ops + 1
  /\ \E o \in Ops :
       /\ o.kind \in {"set", "get", "del"}
       /\ o.kind = "set" => o.val \in Given[o.key]
       /\ op' = [op EXCEPT ![p] = o]
       /\ GoTo(p, IF o.kind = "del" THEN "check" ELSE "lock")
  /\ UNCHANGED <<lockVars, dataVars, at, dead, iterVars, histVars, out>>

InCs(p, kind) == Runs(p, "cs") /\ op[p].kind = kind

get(p) ==
  /\ InCs(p, "get")
  /\ out' = IF \E r \in Matches(p) : row[r].active
              THEN row[CHOOSE r \in Matches(p) : row[r].active].val ELSE NoVal
  /\ GoTo(p, "unlock")
  /\ UNCHANGED <<lockVars, dataVars, op, at, dead, iterVars, histVars>>

(* The key is there: its columns are written.                              *)
set_found(p) ==
  /\ InCs(p, "set") /\ row[RootOf(p)].active /\ Matches(p) # {}
  /\ \E r \in Matches(p) : row' = [row EXCEPT ![r].val = op[p].val]
  /\ out' = TRUE
  /\ GoTo(p, "unlock")
  /\ UNCHANGED <<lockVars, free, row_num, op, at, dead, iterVars, histVars>>

(* init_row does not touch the columns.                                    *)
Initialised(r, k) == [active |-> TRUE, key |-> k, val |-> row[r].val, next |-> NoRow]

set_root(p) ==
  /\ InCs(p, "set") /\ ~row[RootOf(p)].active
  /\ row' = [row EXCEPT ![RootOf(p)] = Initialised(RootOf(p), op[p].key)]
  /\ row_num' = row_num + 1
  /\ at' = [at EXCEPT ![p] = RootOf(p)]
  /\ GoTo(p, "fill")
  /\ UNCHANGED <<lockVars, free, op, dead, iterVars, histVars, out>>

(* Mutant: the row is counted before the pool is asked for it.             *)
set_refused_Counted(p) ==
  /\ InCs(p, "set") /\ row[RootOf(p)].active /\ Matches(p) = {} /\ free = <<>>
  /\ row_num' = row_num + 1
  /\ out' = FALSE
  /\ GoTo(p, "unlock")
  /\ UNCHANGED <<lockVars, row, free, op, at, dead, iterVars, histVars>>

set_refused(p) ==
  /\ InCs(p, "set") /\ row[RootOf(p)].active /\ Matches(p) = {} /\ free = <<>>
  /\ out' = FALSE
  /\ GoTo(p, "unlock")
  /\ UNCHANGED <<lockVars, dataVars, op, at, dead, iterVars, histVars>>

set_alloc(p) ==
  /\ InCs(p, "set") /\ row[RootOf(p)].active /\ Matches(p) = {} /\ free # <<>>
  /\ free' = Tail(free)
  /\ row' = [row EXCEPT ![Head(free)] = Initialised(Head(free), op[p].key)]
  /\ at' = [at EXCEPT ![p] = Head(free)]
  /\ row_num' = row_num + 1
  /\ GoTo(p, "link")
  /\ UNCHANGED <<lockVars, op, dead, iterVars, histVars, out>>

set_link(p) ==
  /\ Runs(p, "link")
  /\ \E last \in InChain(RootOf(p)) :
       /\ row[last].next = NoRow
       /\ row' = [row EXCEPT ![last].next = at[p]]
  /\ GoTo(p, "fill")
  /\ UNCHANGED <<lockVars, free, row_num, op, at, dead, iterVars, histVars, out>>

(* The columns of a new row.                                               *)
set_fill(p) ==
  /\ Runs(p, "fill")
  /\ row' = [row EXCEPT ![at[p]].val = op[p].val]
  /\ at' = [at EXCEPT ![p] = NoRow]
  /\ out' = TRUE
  /\ GoTo(p, "unlock")
  /\ UNCHANGED <<lockVars, free, row_num, op, dead, iterVars, histVars>>

(* del looks at the root row before it takes the lock.                     *)
del_check(p) ==
  /\ Runs(p, "check")
  /\ IF row[RootOf(p)].active
       THEN GoTo(p, "lock") /\ UNCHANGED <<op, out>>
       ELSE /\ GoTo(p, "idle")
            /\ op' = [op EXCEPT ![p] = [kind |-> "none"]]
            /\ out' = FALSE
  /\ UNCHANGED <<lockVars, dataVars, at, dead, iterVars, histVars>>

(* clear() zeroes the header of a row, its owner included; not the columns *)
CleanRow(r) == [row[r] EXCEPT !.active = FALSE, !.key = NoKey, !.next = NoRow]
NoteDeleted(k) == stable' = stable \ {k} /\ dirty' = iter

del_only(p) ==
  /\ InCs(p, "del") /\ row[RootOf(p)].next = NoRow /\ row[RootOf(p)].key = op[p].key
  /\ row' = [row EXCEPT ![RootOf(p)] = CleanRow(RootOf(p))]
  /\ lock_pid' = [lock_pid EXCEPT ![RootOf(p)] = NoProc]
  /\ row_num' = row_num - 1
  /\ out' = TRUE
  /\ NoteDeleted(op[p].key)
  /\ GoTo(p, "unlock")
  /\ UNCHANGED <<lock, free, op, at, dead, iterVars>>

del_missing(p) ==
  /\ InCs(p, "del") /\ Matches(p) = {}
  /\ out' = FALSE
  /\ GoTo(p, "unlock")
  /\ UNCHANGED <<lockVars, dataVars, op, at, dead, iterVars, histVars>>

(* Mutant: the row that follows is copied but stays in the chain.          *)
del_root_Linked(p) ==
  /\ InCs(p, "del") /\ row[RootOf(p)].next # NoRow /\ row[RootOf(p)].key = op[p].key
  /\ at' = [at EXCEPT ![p] = row[RootOf(p)].next]
  /\ NoteDeleted(op[p].key)
  /\ GoTo(p, "move")
  /\ UNCHANGED <<lockVars, dataVars, op, dead, iterVars, out>>

(* The root row cannot be unlinked: it takes over the row that follows it. *)
del_root(p) ==
  /\ InCs(p, "del") /\ row[RootOf(p)].next # NoRow /\ row[RootOf(p)].key = op[p].key
  /\ LET tmp == row[RootOf(p)].next
     IN /\ row' = [row EXCEPT ![RootOf(p)].next = row[tmp].next]
        /\ at' = [at EXCEPT ![p] = tmp]
  /\ NoteDeleted(op[p].key)
  /\ GoTo(p, "move")
  /\ UNCHANGED <<lockVars, free, row_num, op, dead, iterVars, out>>

(* Mutant: the columns are not copied with the key.                        *)
del_move_KeyOnly(p) ==
  /\ Runs(p, "move")
  /\ row' = [row EXCEPT ![RootOf(p)].key = row[at[p]].key]
  /\ out' = TRUE
  /\ NoteDeleted(op[p].key)
  /\ GoTo(p, "free")
  /\ UNCHANGED <<lockVars, free, row_num, op, at, dead, iterVars>>

del_move(p) ==
  /\ Runs(p, "move")
  /\ row' = [row EXCEPT ![RootOf(p)].key = row[at[p]].key, ![RootOf(p)].val = row[at[p]].val]
  /\ out' = TRUE
  /\ NoteDeleted(op[p].key)
  /\ GoTo(p, "free")
  /\ UNCHANGED <<lockVars, free, row_num, op, at, dead, iterVars>>

del_chained(p) ==
  /\ InCs(p, "del")
  /\ \E tmp \in Matches(p) \ {RootOf(p)} : \E prev \in InChain(RootOf(p)) :
       /\ row[prev].next = tmp
       /\ row' = [row EXCEPT ![prev].next = row[tmp].next]
       /\ at' = [at EXCEPT ![p] = tmp]
  /\ out' = TRUE
  /\ NoteDeleted(op[p].key)
  /\ GoTo(p, "free")
  /\ UNCHANGED <<lockVars, free, row_num, op, dead, iterVars>>

del_free(p) ==
  /\ Runs(p, "free")
  /\ row' = [row EXCEPT ![at[p]] = CleanRow(at[p])]
  /\ free' = <<at[p]>> \o free
  /\ row_num' = row_num - 1
  /\ at' = [at EXCEPT ![p] = NoRow]
  /\ GoTo(p, "unlock")
  /\ UNCHANGED <<lockVars, op, dead, iterVars, histVars, out>>

-----------------------------------------------------------------------------
(* The iterator: Table::rewind and forward as foreach calls them.          *)

rewind(p) ==
  /\ p = Iterator /\ Runs(p, "idle") /\ ~iter /\ ops < MaxOps /\ ops' = ops + 1
  /\ absolute_index' = 0 /\ collision_index' = 0 /\ current' = NoKey
  /\ iter' = TRUE /\ seen' = {}
  /\ stable' = {k \in Keys : Present(k)} /\ dirty' = FALSE
  /\ GoTo(p, "next")
  /\ UNCHANGED <<lockVars, dataVars, op, at, dead, out>>

next(p) ==
  /\ p = Iterator /\ Runs(p, "idle") /\ iter
  /\ GoTo(p, "next")
  /\ UNCHANGED <<lockVars, dataVars, op, at, dead, iterVars, histVars, out>>

(* valid() is false: the loop ends, and what it has seen is forgotten.     *)
LoopEnds == /\ iter' = FALSE /\ current' = NoKey
            /\ seen' = {} /\ stable' = {} /\ dirty' = FALSE
Shows(k) == IF k = NoKey THEN LoopEnds
            ELSE current' = k /\ seen' = seen \cup {k} /\ UNCHANGED <<iter, histVars>>

(* get_by_index reads the root row before forward takes its lock.          *)
forward_scan(p) ==
  /\ Runs(p, "next")
  /\ \/ /\ absolute_index = Size
        /\ LoopEnds
        /\ GoTo(p, "idle")
        /\ op' = [op EXCEPT ![p] = [kind |-> "none"]]
        /\ UNCHANGED <<absolute_index, collision_index>>
     \/ /\ absolute_index < Size /\ ~row[absolute_index + 1].active
        /\ absolute_index' = absolute_index + 1
        /\ UNCHANGED <<pc, op, collision_index, current, iter, seen, histVars>>
     \/ /\ absolute_index < Size /\ row[absolute_index + 1].active
        /\ op' = [op EXCEPT ![p] = [kind |-> "forward", root |-> absolute_index + 1]]
        /\ GoTo(p, "lock")
        /\ UNCHANGED <<iterVars, histVars>>
  /\ UNCHANGED <<lockVars, dataVars, at, dead, out>>

(* A chain of one row.                                                     *)
forward_single(p) ==
  /\ InCs(p, "forward") /\ row[RootOf(p)].next = NoRow
  /\ absolute_index' = absolute_index + 1
  /\ Shows(row[RootOf(p)].key)
  /\ GoTo(p, "unlock")
  /\ UNCHANGED <<lockVars, dataVars, op, at, dead, collision_index, out>>

(* Mutant: the position in the chain is kept for the next chain.           *)
forward_chain_NoReset(p) ==
  /\ InCs(p, "forward") /\ row[RootOf(p)].next # NoRow
  /\ IF collision_index < Cardinality(InChain(RootOf(p)))
       THEN /\ Shows(row[Chain(RootOf(p))[collision_index]].key)
            /\ collision_index' = collision_index + 1
            /\ GoTo(p, "unlock")
            /\ UNCHANGED absolute_index
       ELSE /\ absolute_index' = absolute_index + 1
            /\ GoTo(p, "unlock_next")
            /\ UNCHANGED <<collision_index, current, iter, seen, histVars>>
  /\ UNCHANGED <<lockVars, dataVars, op, at, dead, out>>

forward_chain(p) ==
  /\ InCs(p, "forward") /\ row[RootOf(p)].next # NoRow
  /\ IF collision_index < Cardinality(InChain(RootOf(p)))
       THEN /\ Shows(row[Chain(RootOf(p))[collision_index]].key)
            /\ collision_index' = collision_index + 1
            /\ GoTo(p, "unlock")
            /\ UNCHANGED absolute_index
       ELSE /\ collision_index' = 0
            /\ absolute_index' = absolute_index + 1
            /\ GoTo(p, "unlock_next")
            /\ UNCHANGED <<current, iter, seen, histVars>>
  /\ UNCHANGED <<lockVars, dataVars, op, at, dead, out>>

-----------------------------------------------------------------------------
(* A process is killed.  It stays where it was.                            *)
die(p) ==
  /\ p \notin dead /\ Cardinality(dead) < MaxDeaths
  /\ dead' = dead \cup {p}
  /\ UNCHANGED <<lockVars, dataVars, pc, op, at, iterVars, histVars, out>>

Step(p) ==
  /\ UNCHANGED ops
  /\ \/ lock_acquire(p) \/ lock_spins(p) \/ owner_gone(p) \/ spin_again(p)
     \/ force_unlock(p) \/ note_owner(p) \/ unlock(p)
     \/ get(p)
     \/ set_found(p) \/ set_root(p) \/ set_refused(p) \/ set_alloc(p) \/ set_link(p) \/ set_fill(p)
     \/ del_check(p) \/ del_only(p) \/ del_missing(p) \/ del_root(p) \/ del_move(p)
     \/ del_chained(p) \/ del_free(p)
     \/ forward_scan(p) \/ forward_single(p) \/ forward_chain(p)

TableNext ==
  \E p \in Procs : \/ Step(p) \/ start(p) \/ rewind(p)
                   \/ (next(p) \/ die(p)) /\ UNCHANGED ops

(* The scheduler runs every live process, and the two seconds after which  *)
(* a lock is forced pass.                                                  *)
TableFairness == \A p \in Procs : WF_tableVars(Step(p)) /\ SF_tableVars(owner_gone(p) /\ UNCHANGED ops)

TableSpec == TableInit /\ [][TableNext]_tableVars /\ TableFairness
-----------------------------------------------------------------------------
Unlinked == {"link", "move", "free"}

(* count(): row_num is the number of rows in the chains, and of those that *)
(* a process is still to link or to give back.                             *)
RowNumExact ==
  row_num = Cardinality({r \in UNION {InChain(b) : b \in Roots} : row[r].active})
              + Cardinality({p \in Procs : pc[p] \in Unlinked})

(* Set, del and the deaths inside them leave every chain finite, its rows  *)
(* active and under keys of this root, each key once, and every pool row   *)
(* in exactly one place: free, in one chain, or in the hands of one        *)
(* process (for ever, if that process is dead); and count() is exact.      *)
ChainsSound ==
  /\ TableTypeOK /\ RowNumExact
  /\ \A b \in Roots : LET rows == InChain(b) IN
       /\ Chain(b)[PoolSize + 1] = NoRow
       /\ \A r \in rows :
            /\ r = b \/ r \in Pool
            /\ row[r].active \/ rows = {b}
            /\ row[r].active => row[r].key \in Keys /\ Hash[row[r].key] = b
            /\ \A s \in rows : row[r].key = row[s].key => r = s
  /\ \A r \in Pool :
       Cardinality({b \in Roots : r \in InChain(b)})
         + Cardinality({p \in Procs : pc[p] \in Unlinked /\ at[p] = r})
         + Cardinality({i \in 1..Len(free) : free[i] = r}) = 1

(* The comment in TableRow::lock: the lock is taken by force from a        *)
(* process that no longer exists.                                          *)
ForcedFromDead ==
  [][\A p \in Procs : pc[p] = "force" /\ pc'[p] = "got" => Holders(RootOf(p)) \subseteq dead]_tableVars

(* A lock whose holder has died does not keep others out: one that waits   *)
(* for it gets it, or it is free again.                                    *)
HeldByDead(b) == lock[b] = 1 /\ Holders(b) \subseteq dead
LockRecovered ==
  \A b \in Roots :
    (HeldByDead(b) /\ \E p \in Procs \ dead : pc[p] \in Waiting /\ RootOf(p) = b)
      ~> ~HeldByDead(b)

(* The map a table stands for.  A new row counts once its columns are      *)
(* written, a row that is moved to the root counts all the time.           *)
MapRows(k) == {r \in InChain(Hash[k]) \cup {at[p] : p \in {q \in Procs : pc[q] = "move"}} :
                 row[r].active /\ row[r].key = k}
MapOf == [k \in Keys |->
            LET rows == MapRows(k)
            IN IF rows = {} \/ \E p \in Procs : pc[p] = "fill" /\ op[p].key = k
               THEN NoVal ELSE row[CHOOSE r \in rows : TRUE].val]
Map == INSTANCE SharedMap WITH map <- MapOf

(* A process was killed between init_row and the last set_value, or while  *)
(* del moved a row.                                                        *)
Torn == \E p \in dead : pc[p] \in {"fill", "move"}

(* The operations of all processes act on one map, one at a time, until a  *)
(* process is killed in one of the two places where that tears the map.    *)
ImplementsMap == Map!MapInit /\ [][Map!MapNext \/ Torn]_<<MapOf, out>>

(* A foreach loop during which nothing is deleted visits every key that    *)
(* was there all the time, whatever others insert meanwhile, and no key    *)
(* twice.                                                                  *)
IterationExact ==
  [][~dirty =>
       /\ iter /\ ~iter' => stable \subseteq seen
       /\ iter' => \A p \in Procs :
            InCs(p, "forward") /\ pc'[p] = "unlock" => current' \notin seen]_tableVars
=============================================================================
