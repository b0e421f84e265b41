---------------------------- MODULE RoutingTable ----------------------------
(***************************************************************************)
(* The table of MAC and IP addresses (net/routing_table.rs): two maps, each *)
(* behind a ShardedLock, which is a reader-writer lock that is poisoned    *)
(* when a thread panics while it holds the lock for writing.               *)
(*                                                                         *)
(* add holds both locks for writing when it calls contains_mac, which asks *)
(* for the first of them again.  What a thread gets that reads a lock it   *)
(* holds for writing depends on the platform: the pthread lock reports     *)
(* EDEADLK and the standard library panics, the futex lock waits for ever. *)
(* SelfRead says which.                                                    *)
(***************************************************************************)
EXTENDS Integers, FiniteSets

CONSTANTS
  Threads,    \* the threads that share the table
  Macs, Ips,  \* the addresses
  SelfRead    \* "panic" or "block"

ASSUME SelfReadAssumption == SelfRead \in {"panic", "block"}

Tables == {"mac", "ip"}

VARIABLES
  writer,     \* the threads holding each lock for writing
  readers,    \* the threads holding each lock for reading
  poisoned,   \* the locks that are poisoned
  mac_table,  \* the entries of the first map, pairs <<mac, ip>>
  ip_table,   \* the entries of the second map, pairs <<ip, mac>>
  pc,         \* where each thread is
  arg         \* the pair each thread called with

vars == <<writer, readers, poisoned, mac_table, ip_table, pc, arg>>

-----------------------------------------------------------------------------

Pairs == Macs \X Ips

\* A lookup of the table behind a lock: where it asks, and where it looks.
AskAt == [l \in Tables |-> IF l = "mac" THEN "askMac" ELSE "askIp"]
LookAt == [l \in Tables |-> IF l = "mac" THEN "lookMac" ELSE "lookIp"]

\* The shape of the variables.  A guard for reading lives no longer than the
\* lookup that took it: none of contains_mac, contains_ip, get_mac and get_ip
\* gives it to its caller.
TypeOK ==
  /\ writer \in [Tables -> SUBSET Threads]
  /\ readers \in [Tables -> SUBSET Threads]
  /\ \A l \in Tables : \A t \in readers[l] : pc[t] = LookAt[l]
  /\ poisoned \subseteq Tables
  /\ mac_table \subseteq Pairs
  /\ ip_table \subseteq Ips \X Macs
  /\ pc \in [Threads -> {"idle", "addMac", "addIp", "check", "unwindIp", "unwindMac",
                         "panicked", "askMac", "askIp", "lookMac", "lookIp"}]
  /\ arg \in [Threads -> Pairs]

Init ==
  /\ writer = [l \in Tables |-> {}]
  /\ readers = [l \in Tables |-> {}]
  /\ poisoned = {}
  /\ mac_table = {}
  /\ ip_table = {}
  /\ pc = [t \in Threads |-> "idle"]
  /\ arg \in {[t \in Threads |-> a] : a \in Pairs}

-----------------------------------------------------------------------------
(* The locks (external): ShardedLock::read and ShardedLock::write.         *)

CanRead(l) == writer[l] = {}
CanWrite(l) == writer[l] = {} /\ readers[l] = {}

\* Mutant: the poison of a lock is ignored, as PoisonError::into_inner does.
IsPoisonedIgnored(l) == FALSE

IsPoisoned(l) == l \in poisoned

Goto(t, label) == pc' = [pc EXCEPT ![t] = label]

-----------------------------------------------------------------------------
(* add.                                                                    *)

add(t, a) ==
  /\ pc[t] = "idle"
  /\ arg' = [arg EXCEPT ![t] = a]
  /\ Goto(t, "addMac")
  /\ UNCHANGED <<writer, readers, poisoned, mac_table, ip_table>>

\* self.mac_table.write(): a poisoned lock ends the call, and the guard that
\* comes with the error is dropped.
WriteMac(t) ==
  /\ pc[t] = "addMac"
  /\ CanWrite("mac")
  /\ IF IsPoisoned("mac")
     THEN Goto(t, "idle") /\ UNCHANGED writer
     ELSE Goto(t, "addIp") /\ writer' = [writer EXCEPT !["mac"] = {t}]
  /\ UNCHANGED <<readers, poisoned, mac_table, ip_table, arg>>

\* self.ip_table.write(): a poisoned lock ends the call and gives the first
\* lock back.
WriteIp(t) ==
  /\ pc[t] = "addIp"
  /\ CanWrite("ip")
  /\ IF IsPoisoned("ip")
     THEN Goto(t, "idle") /\ writer' = [writer EXCEPT !["mac"] = {}]
     ELSE Goto(t, "check") /\ writer' = [writer EXCEPT !["ip"] = {t}]
  /\ UNCHANGED <<readers, poisoned, mac_table, ip_table, arg>>

Has(table, key) == \E e \in table : e[1] = key

\* HashMap::insert: the entry of a key that is there already is replaced.
Insert(table, key, val) == {e \in table : e[1] # key} \cup {<<key, val>>}

\* The condition of add, and what it guards.  contains_mac, and contains_ip
\* when the mac is known, ask for the locks the thread holds for writing.  Only
\* when both let it read does the call get to the inserts and its end, where
\* both guards are dropped; a lock that does not let it read panics or blocks.
contains_macInAdd(t) ==
  LET mac == arg[t][1]
      ip == arg[t][2]
  IN /\ pc[t] = "check"
     /\ IF CanRead("mac") /\ (Has(mac_table, mac) => CanRead("ip"))
        THEN /\ IF ~Has(mac_table, mac) \/ ~Has(ip_table, ip)
                THEN /\ mac_table' = Insert(mac_table, mac, ip)
                     /\ ip_table' = Insert(ip_table, ip, mac)
                ELSE UNCHANGED <<mac_table, ip_table>>
             /\ writer' = [l \in Tables |-> {}]
             /\ Goto(t, "idle")
        ELSE /\ SelfRead = "panic"
             /\ Goto(t, "unwindIp")
             /\ UNCHANGED <<writer, mac_table, ip_table>>
     /\ UNCHANGED <<readers, poisoned, arg>>

\* Mutant: the guard is never dropped.
UnwindIpHolding(t) ==
  /\ pc[t] = "unwindIp"
  /\ poisoned' = poisoned \cup {"ip"}
  /\ Goto(t, "unwindMac")
  /\ UNCHANGED <<writer, readers, mac_table, ip_table, arg>>

\* The panic drops the inner guard, then the outer one, and poisons both.
UnwindIp(t) ==
  /\ pc[t] = "unwindIp"
  /\ writer' = [writer EXCEPT !["ip"] = {}]
  /\ poisoned' = poisoned \cup {"ip"}
  /\ Goto(t, "unwindMac")
  /\ UNCHANGED <<readers, mac_table, ip_table, arg>>

\* Mutant: the panic does not poison the outer lock.
UnwindMacClean(t) ==
  /\ pc[t] = "unwindMac"
  /\ writer' = [writer EXCEPT !["mac"] = {}]
  /\ Goto(t, "panicked")
  /\ UNCHANGED <<readers, poisoned, mac_table, ip_table, arg>>

\* Mutant: the thread ends and keeps the outer lock.
UnwindMacHolding(t) ==
  /\ pc[t] = "unwindMac"
  /\ poisoned' = poisoned \cup {"mac"}
  /\ Goto(t, "panicked")
  /\ UNCHANGED <<writer, readers, mac_table, ip_table, arg>>

UnwindMac(t) ==
  /\ pc[t] = "unwindMac"
  /\ writer' = [writer EXCEPT !["mac"] = {}]
  /\ poisoned' = poisoned \cup {"mac"}
  /\ Goto(t, "panicked")
  /\ UNCHANGED <<readers, mac_table, ip_table, arg>>

-----------------------------------------------------------------------------
(* The lookups: contains_mac and get_ip read the first table, contains_ip  *)
(* and get_mac the second.                                                 *)

ask(t, l, a) ==
  /\ pc[t] = "idle"
  /\ arg' = [arg EXCEPT ![t] = a]
  /\ Goto(t, AskAt[l])
  /\ UNCHANGED <<writer, readers, poisoned, mac_table, ip_table>>

\* Mutant: the guard that comes with the error of a poisoned lock is kept.
ReadKeeping(t, l) ==
  /\ pc[t] = AskAt[l]
  /\ CanRead(l)
  /\ Goto(t, IF IsPoisoned(l) THEN "idle" ELSE LookAt[l])
  /\ readers' = [readers EXCEPT ![l] = @ \cup {t}]
  /\ UNCHANGED <<writer, poisoned, mac_table, ip_table, arg>>

\* A poisoned lock is an error: false, or None.
Read(t, l) ==
  /\ pc[t] = AskAt[l]
  /\ CanRead(l)
  /\ IF IsPoisoned(l)
     THEN Goto(t, "idle") /\ UNCHANGED readers
     ELSE Goto(t, LookAt[l]) /\ readers' = [readers EXCEPT ![l] = @ \cup {t}]
  /\ UNCHANGED <<writer, poisoned, mac_table, ip_table, arg>>

\* The table is looked at and the guard dropped.
Look(t, l) ==
  /\ pc[t] = LookAt[l]
  /\ readers' = [readers EXCEPT ![l] = @ \ {t}]
  /\ Goto(t, "idle")
  /\ UNCHANGED <<writer, poisoned, mac_table, ip_table, arg>>

-----------------------------------------------------------------------------

Call(t) ==
  \E a \in Pairs : add(t, a) \/ \E l \in Tables : ask(t, l, a)

Step(t) ==
  \/ WriteMac(t) \/ WriteIp(t) \/ contains_macInAdd(t) \/ UnwindIp(t) \/ UnwindMac(t)
  \/ \E l \in Tables : Read(t, l) \/ Look(t, l)

Next == \E t \in Threads : Call(t) \/ Step(t)

\* A thread that can go on does.  Nothing is assumed of who gets a lock next:
\* the pthread lock prefers readers, so that a writer may wait for ever.
Spec ==
  /\ Init
  /\ [][Next]_vars
  /\ \A t \in Threads : WF_vars(Step(t))

-----------------------------------------------------------------------------
(* Properties.                                                             *)

\* The locks a thread holds for writing are those the place it is at calls for,
\* so a thread that has returned or panicked has none left, and nobody reads a
\* table that is being written.
LocksMatch ==
  /\ writer["mac"] = {t \in Threads : pc[t] \in {"addIp", "check", "unwindIp", "unwindMac"}}
  /\ writer["ip"] = {t \in Threads : pc[t] \in {"check", "unwindIp"}}
  /\ \A l \in Tables : Cardinality(writer[l]) <= 1 /\ (writer[l] # {} => readers[l] = {})

\* "take the lock for both tables or neither of them" (routing_table.rs:26),
\* also for poison: when no thread is unwinding both locks are poisoned or
\* neither is, so no add ever gets one table and not the other.
PoisonedTogether ==
  (\A t \in Threads : pc[t] # "unwindMac") => poisoned \in {{}, Tables}

\* At most one thread panics in add, whatever the others do between its two
\* drops: every later add finds a poisoned lock and returns, so the table is
\* lost with one thread and no more (the let Ok of routing_table.rs:27 and 28).
OnePanic ==
  Cardinality({t \in Threads : pc[t] \in {"unwindIp", "unwindMac", "panicked"}}) <= 1

\* Where reading one's own lock panics, contains_ip and get_mac come back
\* whatever the adds do: an add that holds the second lock always gives it back.
IpLookupsEnd == \A t \in Threads : pc[t] = "askIp" ~> pc[t] = "idle"

\* contains_mac and get_ip come back too, as long as the lookups of the second
\* table end some time: an add that holds the first lock waits for the second
\* (routing_table.rs:28) while readers of that one overlap, and the readers of
\* the first wait behind it.
MacLookupsEnd ==
  <>[](\A t \in Threads : pc[t] \notin {"askIp", "lookIp"})
    => \A t \in Threads : pc[t] = "askMac" ~> pc[t] = "idle"
=============================================================================
