------------------------- MODULE RoutingTableProofs -------------------------
(***************************************************************************)
(* What RoutingTable promises for any number of threads and addresses, on  *)
(* either platform.                                                        *)
(***************************************************************************)
EXTENDS RoutingTable, FiniteSetTheorems, TLAPS

\* The places at which a thread holds each lock for writing, and for reading.
WritesAt(l) == IF l = "mac" THEN {"addIp", "check", "unwindIp", "unwindMac"}
                            ELSE {"check", "unwindIp"}
ReadsAt(l) == {LookAt[l]}

\* A lock is held by the threads at the places for it, and for writing by one
\* thread and no reader.
Exclusive(l) ==
  /\ writer[l] = {t \in Threads : pc[t] \in WritesAt(l)}
  /\ readers[l] = {t \in Threads : pc[t] \in ReadsAt(l)}
  /\ \A t, u \in writer[l] : t = u
  /\ writer[l] # {} => readers[l] = {}

\* The places of a thread that panics or has panicked.
PanicsAt == {"unwindIp", "unwindMac", "panicked"}

\* A thread with the first lock found no poison, and none comes while it has
\* it.  A thread that unwinds has poisoned the second lock and then the first;
\* no other thread panics before it or after.
Poison ==
  /\ poisoned \in {{}, {"ip"}, Tables}
  /\ poisoned = {"ip"} => \E t \in Threads : pc[t] = "unwindMac"
  /\ \A t \in Threads :
       /\ pc[t] \in {"addIp", "check", "unwindIp"} => poisoned = {}
       /\ pc[t] = "unwindMac" => poisoned = {"ip"}
       /\ pc[t] = "panicked" => poisoned = Tables
  /\ \A t, u \in Threads : pc[t] \in PanicsAt /\ pc[u] \in PanicsAt => t = u

\* The maps are as empty as they were made.
LearnsNothing == mac_table = {} /\ ip_table = {}

IInv ==
  /\ TypeOK
  /\ Exclusive("mac")
  /\ Exclusive("ip")
  /\ Poison
  /\ LearnsNothing

\* A thread that asks contains_mac inside add has the first lock for writing
\* and cannot read it: the call panics, and none gets to the inserts.
LEMMA OwnReadPanics ==
  ASSUME TypeOK, Exclusive("mac"), NEW t \in Threads, contains_macInAdd(t)
  PROVE  /\ pc[t] = "check" /\ Goto(t, "unwindIp")
         /\ UNCHANGED <<writer, readers, poisoned, mac_table, ip_table, arg>>
<1>1. pc[t] = "check"
  BY DEF contains_macInAdd
<1>2. ~CanRead("mac")
  BY <1>1 DEF Exclusive, WritesAt, CanRead
<1> QED
  BY <1>1, <1>2 DEF contains_macInAdd

\* The types are preserved.
LEMMA TypeStep ==
  ASSUME TypeOK, [Next]_vars, Exclusive("mac"), Exclusive("mac")', Exclusive("ip")'
  PROVE  TypeOK'
<1>0. \A l \in Tables : \A t \in readers'[l] : pc'[t] = LookAt[l]
  BY DEF Exclusive, ReadsAt, Tables
<1> DEFINE Shape == /\ writer \in [Tables -> SUBSET Threads]
                    /\ readers \in [Tables -> SUBSET Threads]
                    /\ poisoned \subseteq Tables
                    /\ mac_table \subseteq Pairs
                    /\ ip_table \subseteq Ips \X Macs
                    /\ pc \in [Threads -> {"idle", "addMac", "addIp", "check", "unwindIp",
                                           "unwindMac", "panicked", "askMac", "askIp",
                                           "lookMac", "lookIp"}]
                    /\ arg \in [Threads -> Pairs]
<1> SUFFICES Shape'
  BY <1>0 DEF TypeOK
<1>s. Shape
  BY DEF TypeOK
<1> USE DEF Goto
<1>1. ASSUME NEW t \in Threads, NEW a \in Pairs, add(t, a)
      PROVE  Shape'
  BY <1>1, <1>s DEF add
<1>2. ASSUME NEW t \in Threads, NEW a \in Pairs, NEW l \in Tables, ask(t, l, a)
      PROVE  Shape'
  <2>1. AskAt[l] \in {"askMac", "askIp"}
    BY DEF AskAt
  <2> QED
    BY <1>2, <1>s, <2>1 DEF ask
<1>3. ASSUME NEW t \in Threads, WriteMac(t)
      PROVE  Shape'
  BY <1>3, <1>s DEF WriteMac, Tables
<1>4. ASSUME NEW t \in Threads, WriteIp(t)
      PROVE  Shape'
  BY <1>4, <1>s DEF WriteIp, Tables
<1>5. ASSUME NEW t \in Threads, contains_macInAdd(t)
      PROVE  Shape'
  BY <1>5, <1>s, OwnReadPanics
<1>6. ASSUME NEW t \in Threads, UnwindIp(t) \/ UnwindMac(t)
      PROVE  Shape'
  BY <1>6, <1>s, ZenonT(30) DEF UnwindIp, UnwindMac, Tables
<1>7. ASSUME NEW t \in Threads, NEW l \in Tables, Read(t, l)
      PROVE  Shape'
  <2>1. LookAt[l] \in {"lookMac", "lookIp"}
    BY DEF LookAt
  <2> QED
    BY <1>7, <1>s, <2>1 DEF Read
<1>8. ASSUME NEW t \in Threads, NEW l \in Tables, Look(t, l)
      PROVE  Shape'
  BY <1>8, <1>s DEF Look
<1>9. CASE UNCHANGED vars
  BY <1>9, <1>s DEF vars
<1> HIDE DEF Shape
<1> QED
  BY <1>1, <1>2, <1>3, <1>4, <1>5, <1>6, <1>7, <1>8, <1>9 DEF Next, Call, Step

\* A step of one thread that takes and gives back no lock keeps them exclusive.
LEMMA LocksKept ==
  ASSUME TypeOK, NEW l \in Tables, Exclusive(l), NEW t \in Threads, NEW to, Goto(t, to),
         writer'[l] = writer[l], readers'[l] = readers[l],
         pc[t] \in WritesAt(l) <=> to \in WritesAt(l),
         pc[t] \in ReadsAt(l) <=> to \in ReadsAt(l)
  PROVE  Exclusive(l)'
<1>1. \A u \in Threads : pc'[u] = IF u = t THEN to ELSE pc[u]
  BY DEF Goto, TypeOK
<1>2. \A u \in Threads : /\ pc'[u] \in WritesAt(l) <=> pc[u] \in WritesAt(l)
                         /\ pc'[u] \in ReadsAt(l) <=> pc[u] \in ReadsAt(l)
  BY <1>1
<1> QED
  BY <1>2 DEF Exclusive

\* A thread takes a lock for writing.
LEMMA LockTaken ==
  ASSUME TypeOK, NEW l \in Tables, Exclusive(l), NEW t \in Threads, NEW to, Goto(t, to),
         CanWrite(l), writer'[l] = {t}, readers'[l] = readers[l],
         to \in WritesAt(l), to \notin ReadsAt(l)
  PROVE  Exclusive(l)'
<1>1. \A u \in Threads : pc'[u] = IF u = t THEN to ELSE pc[u]
  BY DEF Goto, TypeOK
<1>2. \A u \in Threads : /\ pc[u] \notin WritesAt(l) /\ pc[u] \notin ReadsAt(l)
                         /\ pc'[u] \in WritesAt(l) <=> u = t
                         /\ pc'[u] \notin ReadsAt(l)
  BY <1>1 DEF Exclusive, CanWrite
<1> QED
  BY <1>2 DEF Exclusive, CanWrite

\* The writer gives its lock back.
LEMMA LockGiven ==
  ASSUME TypeOK, NEW l \in Tables, Exclusive(l), NEW t \in Threads, NEW to, Goto(t, to),
         pc[t] \in WritesAt(l), writer'[l] = {}, readers'[l] = readers[l],
         to \notin WritesAt(l), to \notin ReadsAt(l)
  PROVE  Exclusive(l)'
<1>1. \A u \in Threads : pc'[u] = IF u = t THEN to ELSE pc[u]
  BY DEF Goto, TypeOK
<1>2. t \in writer[l] /\ readers[l] = {}
  BY DEF Exclusive
<1>3. \A u \in Threads : pc'[u] \notin WritesAt(l) /\ pc'[u] \notin ReadsAt(l)
  BY <1>1, <1>2 DEF Exclusive
<1> QED
  BY <1>2, <1>3 DEF Exclusive

\* A reader comes, or goes.
LEMMA LockRead ==
  ASSUME TypeOK, NEW l \in Tables, Exclusive(l), NEW t \in Threads, NEW to, Goto(t, to),
         writer'[l] = writer[l], pc[t] \notin WritesAt(l), to \notin WritesAt(l),
         \/ to \in ReadsAt(l) /\ CanRead(l) /\ readers'[l] = readers[l] \cup {t}
         \/ to \notin ReadsAt(l) /\ readers'[l] = readers[l] \ {t}
  PROVE  Exclusive(l)'
<1>1. \A u \in Threads : pc'[u] = IF u = t THEN to ELSE pc[u]
  BY DEF Goto, TypeOK
<1>2. \A u \in Threads : pc'[u] \in WritesAt(l) <=> pc[u] \in WritesAt(l)
  BY <1>1
<1>3. readers'[l] = {u \in Threads : pc'[u] \in ReadsAt(l)}
  BY <1>1 DEF Exclusive
<1>4. writer'[l] # {} => readers'[l] = {}
  BY DEF Exclusive, CanRead
<1> QED
  BY <1>2, <1>3, <1>4 DEF Exclusive

\* Every step keeps the locks exclusive.
LEMMA ExclusiveStep ==
  ASSUME TypeOK, [Next]_vars, Exclusive("mac"), Exclusive("ip")
  PROVE  Exclusive("mac")' /\ Exclusive("ip")'
<1>0. /\ "mac" \in Tables /\ "ip" \in Tables /\ "mac" # "ip"
      /\ LookAt["mac"] = "lookMac" /\ LookAt["ip"] = "lookIp"
      /\ AskAt["mac"] = "askMac" /\ AskAt["ip"] = "askIp"
  BY DEF Tables, LookAt, AskAt
<1>1. ASSUME NEW t \in Threads, NEW a \in Pairs,
             add(t, a) \/ ask(t, "mac", a) \/ ask(t, "ip", a)
      PROVE  Exclusive("mac")' /\ Exclusive("ip")'
  <2>1. PICK to \in {"addMac", "askMac", "askIp"} : Goto(t, to)
    BY <1>0, <1>1 DEF add, ask
  <2>2. pc[t] = "idle" /\ writer' = writer /\ readers' = readers
    BY <1>1 DEF add, ask
  <2> QED
    BY <2>1, <2>2, <1>0, LocksKept DEF WritesAt, ReadsAt
<1>2. ASSUME NEW t \in Threads, WriteMac(t)
      PROVE  Exclusive("mac")' /\ Exclusive("ip")'
  <2>1. CASE IsPoisoned("mac")
    BY <2>1, <1>0, <1>2, LocksKept DEF WriteMac, WritesAt, ReadsAt
  <2>2. CASE ~IsPoisoned("mac")
    <3>1. /\ Goto(t, "addIp") /\ pc[t] = "addMac" /\ CanWrite("mac") /\ readers' = readers
          /\ writer' = [writer EXCEPT !["mac"] = {t}]
      BY <2>2, <1>2 DEF WriteMac
    <3>2. writer'["mac"] = {t} /\ writer'["ip"] = writer["ip"]
      BY <3>1, <1>0 DEF TypeOK
    <3>3. Exclusive("mac")'
      BY <3>1, <3>2, <1>0, LockTaken DEF WritesAt, ReadsAt
    <3>4. Exclusive("ip")'
      BY <3>1, <3>2, <1>0, LocksKept DEF WritesAt, ReadsAt
    <3> QED
      BY <3>3, <3>4
  <2> QED
    BY <2>1, <2>2
<1>3. ASSUME NEW t \in Threads, WriteIp(t)
      PROVE  Exclusive("mac")' /\ Exclusive("ip")'
  <2>0. pc[t] = "addIp" /\ CanWrite("ip") /\ readers' = readers
    BY <1>3 DEF WriteIp
  <2>1. CASE IsPoisoned("ip")
    <3>1. Goto(t, "idle") /\ writer' = [writer EXCEPT !["mac"] = {}]
      BY <2>1, <1>3 DEF WriteIp
    <3>2. writer'["mac"] = {} /\ writer'["ip"] = writer["ip"]
      BY <3>1, <1>0 DEF TypeOK
    <3>3. Exclusive("mac")'
      BY <2>0, <3>1, <3>2, <1>0, LockGiven DEF WritesAt, ReadsAt
    <3>4. Exclusive("ip")'
      BY <2>0, <3>1, <3>2, <1>0, LocksKept DEF WritesAt, ReadsAt
    <3> QED
      BY <3>3, <3>4
  <2>2. CASE ~IsPoisoned("ip")
    <3>1. Goto(t, "check") /\ writer' = [writer EXCEPT !["ip"] = {t}]
      BY <2>2, <1>3 DEF WriteIp
    <3>2. writer'["ip"] = {t} /\ writer'["mac"] = writer["mac"]
      BY <3>1, <1>0 DEF TypeOK
    <3>3. Exclusive("ip")'
      BY <2>0, <3>1, <3>2, <1>0, LockTaken DEF WritesAt, ReadsAt
    <3>4. Exclusive("mac")'
      BY <2>0, <3>1, <3>2, <1>0, LocksKept DEF WritesAt, ReadsAt
    <3> QED
      BY <3>3, <3>4
  <2> QED
    BY <2>1, <2>2
<1>4. ASSUME NEW t \in Threads, contains_macInAdd(t)
      PROVE  Exclusive("mac")' /\ Exclusive("ip")'
  BY <1>4, <1>0, LocksKept, OwnReadPanics DEF WritesAt, ReadsAt
<1>5. ASSUME NEW t \in Threads, UnwindIp(t)
      PROVE  Exclusive("mac")' /\ Exclusive("ip")'
  <2>1. /\ pc[t] = "unwindIp" /\ Goto(t, "unwindMac") /\ readers' = readers
        /\ writer'["ip"] = {} /\ writer'["mac"] = writer["mac"]
    BY <1>5, <1>0 DEF UnwindIp, TypeOK
  <2>2. Exclusive("ip")'
    BY <2>1, <1>0, LockGiven DEF WritesAt, ReadsAt
  <2>3. Exclusive("mac")'
    BY <2>1, <1>0, LocksKept DEF WritesAt, ReadsAt
  <2> QED
    BY <2>2, <2>3
<1>6. ASSUME NEW t \in Threads, UnwindMac(t)
      PROVE  Exclusive("mac")' /\ Exclusive("ip")'
  <2>1. /\ pc[t] = "unwindMac" /\ Goto(t, "panicked") /\ readers' = readers
        /\ writer'["mac"] = {} /\ writer'["ip"] = writer["ip"]
    BY <1>6, <1>0 DEF UnwindMac, TypeOK
  <2>2. Exclusive("mac")'
    BY <2>1, <1>0, LockGiven DEF WritesAt, ReadsAt
  <2>3. Exclusive("ip")'
    BY <2>1, <1>0, LocksKept DEF WritesAt, ReadsAt
  <2> QED
    BY <2>2, <2>3
<1>7. ASSUME NEW l \in Tables, NEW k \in Tables
      PROVE  /\ AskAt[l] \notin WritesAt(k) /\ AskAt[l] \notin ReadsAt(k)
             /\ "idle" \notin WritesAt(k) /\ "idle" \notin ReadsAt(k)
             /\ LookAt[l] \notin WritesAt(k) /\ (LookAt[l] \in ReadsAt(k) <=> k = l)
  <2>1. LookAt[k] # "idle" /\ AskAt[l] # LookAt[k] /\ (LookAt[l] = LookAt[k] <=> k = l)
    BY <1>0 DEF Tables
  <2>2. "idle" \notin WritesAt(k) /\ AskAt[l] \notin WritesAt(k) /\ LookAt[l] \notin WritesAt(k)
    BY <1>0 DEF Tables, WritesAt
  <2> QED
    BY <2>1, <2>2 DEF ReadsAt
<1>8. ASSUME NEW t \in Threads, NEW l \in Tables, NEW k \in Tables, l # k,
             Exclusive(l), Exclusive(k), Read(t, l)
      PROVE  Exclusive(l)' /\ Exclusive(k)'
  <2>0. /\ {AskAt[l], LookAt[l], "idle"} \cap WritesAt(l) = {}
        /\ {AskAt[l], LookAt[l], "idle"} \cap WritesAt(k) = {}
        /\ {AskAt[l], "idle"} \cap ReadsAt(l) = {} /\ LookAt[l] \in ReadsAt(l)
        /\ {AskAt[l], LookAt[l], "idle"} \cap ReadsAt(k) = {}
    BY <1>7, <1>8
  <2>1. pc[t] = AskAt[l] /\ writer' = writer /\ CanRead(l)
    BY <1>8 DEF Read
  <2>2. CASE IsPoisoned(l)
    <3>1. Goto(t, "idle") /\ readers' = readers
      BY <2>2, <1>8 DEF Read
    <3>2. Exclusive(l)'
      BY <2>0, <1>8, <2>1, <3>1, LocksKept
    <3>3. Exclusive(k)'
      BY <2>0, <1>8, <2>1, <3>1, LocksKept
    <3> QED
      BY <3>2, <3>3
  <2>3. CASE ~IsPoisoned(l)
    <3>1. Goto(t, LookAt[l]) /\ readers' = [readers EXCEPT ![l] = @ \cup {t}]
      BY <2>3, <1>8 DEF Read
    <3>2. readers'[l] = readers[l] \cup {t} /\ readers'[k] = readers[k]
      BY <3>1, <1>8 DEF TypeOK
    <3>3. Exclusive(l)'
      BY <2>0, <1>8, <2>1, <3>1, <3>2, LockRead
    <3>4. Exclusive(k)'
      BY <2>0, <1>8, <2>1, <3>1, <3>2, LocksKept
    <3> QED
      BY <3>3, <3>4
  <2> QED
    BY <2>2, <2>3
<1>9. ASSUME NEW t \in Threads, NEW l \in Tables, NEW k \in Tables, l # k,
             Exclusive(l), Exclusive(k), Look(t, l)
      PROVE  Exclusive(l)' /\ Exclusive(k)'
  <2>0. /\ {AskAt[l], LookAt[l], "idle"} \cap WritesAt(l) = {}
        /\ {AskAt[l], LookAt[l], "idle"} \cap WritesAt(k) = {}
        /\ {AskAt[l], "idle"} \cap ReadsAt(l) = {} /\ LookAt[l] \in ReadsAt(l)
        /\ {AskAt[l], LookAt[l], "idle"} \cap ReadsAt(k) = {}
    BY <1>7, <1>9
  <2>1. /\ pc[t] = LookAt[l] /\ Goto(t, "idle") /\ writer' = writer
        /\ readers'[l] = readers[l] \ {t} /\ readers'[k] = readers[k]
    BY <1>9 DEF Look, TypeOK
  <2>2. Exclusive(l)'
    BY <2>0, <1>9, <2>1, LockRead
  <2>3. Exclusive(k)'
    BY <2>0, <1>9, <2>1, LocksKept
  <2> QED
    BY <2>2, <2>3
<1>10. ASSUME NEW t \in Threads, NEW l \in Tables, Read(t, l) \/ Look(t, l)
       PROVE  Exclusive("mac")' /\ Exclusive("ip")'
  <2>1. CASE l = "mac"
    BY <1>0, <1>8, <1>9, <1>10, <2>1
  <2>2. CASE l = "ip"
    BY <1>0, <1>8, <1>9, <1>10, <2>2
  <2> QED
    BY <2>1, <2>2 DEF Tables
<1>11. CASE UNCHANGED vars
  BY <1>11 DEF vars, Exclusive
<1>12. ASSUME NEW t \in Threads, NEW a \in Pairs, NEW l \in Tables, ask(t, l, a)
       PROVE  Exclusive("mac")' /\ Exclusive("ip")'
  BY <1>1, <1>12 DEF Tables
<1> QED
  BY <1>1, <1>2, <1>3, <1>4, <1>5, <1>6, <1>10, <1>11, <1>12 DEF Next, Call, Step

\* Every step keeps the poison of the two locks together, and lets no second
\* thread panic: a thread that asks for its own lock has the first one, so no
\* other is unwinding, and found it without poison, so none has panicked.
LEMMA PoisonStep ==
  ASSUME TypeOK, Exclusive("mac"), Poison, [Next]_vars
  PROVE  Poison'
<1> DEFINE Quiet == {"idle", "addMac", "askMac", "askIp", "lookMac", "lookIp"}
<1>1. ASSUME NEW t \in Threads, NEW to, Goto(t, to)
      PROVE  \A u \in Threads : pc'[u] = IF u = t THEN to ELSE pc[u]
  BY <1>1 DEF Goto, TypeOK
<1>2. ASSUME NEW t \in Threads, NEW to, pc[t] \in Quiet \cup {"addIp"}, to \in Quiet,
             Goto(t, to), poisoned' = poisoned
      PROVE  Poison'
  BY <1>1, <1>2 DEF Poison, PanicsAt
<1>3. ASSUME NEW t \in Threads, NEW a \in Pairs, add(t, a)
      PROVE  Poison'
  BY <1>2, <1>3 DEF add
<1>4. ASSUME NEW t \in Threads, NEW a \in Pairs, NEW l \in Tables, ask(t, l, a)
      PROVE  Poison'
  <2>1. AskAt[l] \in Quiet
    BY DEF AskAt
  <2> QED
    BY <1>2, <1>4, <2>1 DEF ask
<1>5. ASSUME NEW t \in Threads, WriteMac(t)
      PROVE  Poison'
  <2>1. CASE IsPoisoned("mac")
    BY <1>2, <1>5, <2>1 DEF WriteMac
  <2>2. CASE ~IsPoisoned("mac")
    <3>1. Goto(t, "addIp") /\ poisoned' = poisoned /\ pc[t] = "addMac" /\ writer["mac"] = {}
      BY <1>5, <2>2 DEF WriteMac, CanWrite
    <3>2. \A u \in Threads : pc[u] # "unwindMac"
      BY <3>1 DEF Exclusive, WritesAt
    <3>3. poisoned = {}
      BY <2>2, <3>2 DEF Poison, IsPoisoned, Tables
    <3> QED
      BY <1>1, <3>1, <3>3 DEF Poison, PanicsAt
  <2> QED
    BY <2>1, <2>2
<1>6. ASSUME NEW t \in Threads, WriteIp(t)
      PROVE  Poison'
  <2>1. CASE IsPoisoned("ip")
    BY <1>2, <1>6, <2>1 DEF WriteIp
  <2>2. CASE ~IsPoisoned("ip")
    <3>1. Goto(t, "check") /\ poisoned' = poisoned /\ pc[t] = "addIp"
      BY <1>6, <2>2 DEF WriteIp
    <3> QED
      BY <1>1, <3>1 DEF Poison, PanicsAt
  <2> QED
    BY <2>1, <2>2
<1>7. ASSUME NEW t \in Threads, contains_macInAdd(t)
      PROVE  Poison'
  <2>1. pc[t] = "check" /\ Goto(t, "unwindIp") /\ poisoned' = poisoned
    BY <1>7, OwnReadPanics
  <2>2. poisoned = {}
    BY <2>1 DEF Poison
  <2>3. \A u \in Threads : pc[u] \notin {"unwindIp", "unwindMac"}
    BY <2>1 DEF Exclusive, WritesAt
  <2>4. \A u \in Threads : pc[u] \notin PanicsAt
    BY <2>2, <2>3 DEF Poison, PanicsAt, Tables
  <2> QED
    BY <1>1, <2>1, <2>2, <2>4 DEF Poison, PanicsAt
<1>8. ASSUME NEW t \in Threads, UnwindIp(t)
      PROVE  Poison'
  <2>1. pc[t] = "unwindIp" /\ Goto(t, "unwindMac") /\ poisoned' = {"ip"}
    BY <1>8 DEF UnwindIp, Poison
  <2>2. \A u \in Threads : u # t => pc[u] \notin PanicsAt \cup {"addIp", "check"}
    BY <2>1 DEF Poison, PanicsAt, Exclusive, WritesAt
  <2>3. \A u \in Threads : pc'[u] = IF u = t THEN "unwindMac" ELSE pc[u]
    BY <1>1, <2>1
  <2> QED
    BY <2>1, <2>2, <2>3 DEF Poison, PanicsAt
<1>9. ASSUME NEW t \in Threads, UnwindMac(t)
      PROVE  Poison'
  <2>1. pc[t] = "unwindMac" /\ Goto(t, "panicked") /\ poisoned' = Tables
    BY <1>9 DEF UnwindMac, Poison, Tables
  <2>2. \A u \in Threads : u # t => pc[u] \notin PanicsAt \cup {"addIp", "check"}
    BY <2>1 DEF Poison, PanicsAt, Exclusive, WritesAt
  <2>3. \A u \in Threads : pc'[u] = IF u = t THEN "panicked" ELSE pc[u]
    BY <1>1, <2>1
  <2>4. Tables # {"ip"}
    BY DEF Tables
  <2> QED
    BY <2>1, <2>2, <2>3, <2>4 DEF Poison, PanicsAt
<1>10. ASSUME NEW t \in Threads, NEW l \in Tables, Read(t, l) \/ Look(t, l)
       PROVE  Poison'
  <2>1. AskAt[l] \in Quiet /\ LookAt[l] \in Quiet
    BY DEF AskAt, LookAt
  <2>2. PICK to \in Quiet : Goto(t, to)
    BY <1>10, <2>1 DEF Read, Look
  <2>3. pc[t] \in Quiet /\ poisoned' = poisoned
    BY <1>10, <2>1 DEF Read, Look
  <2> QED
    BY <1>2, <2>2, <2>3
<1>11. CASE UNCHANGED vars
  BY <1>11 DEF vars, Poison
<1> QED
  BY <1>3, <1>4, <1>5, <1>6, <1>7, <1>8, <1>9, <1>10, <1>11 DEF Next, Call, Step

\* No step writes to a table, since no add gets past its first own read.
LEMMA LearnsStep ==
  ASSUME TypeOK, Exclusive("mac"), LearnsNothing, [Next]_vars
  PROVE  LearnsNothing'
<1>1. ASSUME NEW t \in Threads, contains_macInAdd(t)
      PROVE  UNCHANGED <<mac_table, ip_table>>
  BY <1>1, OwnReadPanics
<1>2. UNCHANGED <<mac_table, ip_table>>
  BY <1>1 DEF Next, vars, Call, Step, add, ask, WriteMac, WriteIp, UnwindIp, UnwindMac, Read, Look
<1> QED
  BY <1>2 DEF LearnsNothing

\* The inductive invariant holds throughout.
LEMMA Invariant == Spec => []IInv
<1>1. Init => IInv
  <2> SUFFICES ASSUME Init
               PROVE  IInv
    OBVIOUS
  <2>1. TypeOK
    BY DEF Init, TypeOK
  <2>2. Exclusive("mac") /\ Exclusive("ip")
    BY DEF Init, Exclusive, WritesAt, ReadsAt, LookAt, Tables
  <2>3. Poison /\ LearnsNothing
    BY DEF Init, Poison, PanicsAt, LearnsNothing
  <2> QED
    BY <2>1, <2>2, <2>3 DEF IInv
<1>2. IInv /\ [Next]_vars => IInv'
  BY TypeStep, ExclusiveStep, PoisonStep, LearnsStep DEF IInv
<1> QED
  BY <1>1, <1>2, PTL DEF Spec

\* Every variable keeps the shape routing_table.rs and its locks give it.
THEOREM TypeCorrect == Spec => []TypeOK
BY Invariant, PTL DEF IInv

\* However many threads share the table, the locks a thread holds for writing
\* are those of the place in add it is at, one thread holds each at most, and
\* nobody reads a table that is being written.
THEOREM LocksAlwaysMatch == Spec => []LocksMatch
<1>1. ASSUME NEW S, \A t, u \in S : t = u
      PROVE  Cardinality(S) <= 1
  <2>1. CASE S = {}
    BY <2>1, FS_EmptySet
  <2>2. CASE S # {}
    <3>1. PICK t \in S : S = {t}
      BY <1>1, <2>2
    <3>2. Cardinality({t}) = 1
      BY FS_Singleton
    <3> QED
      BY <3>1, <3>2
  <2> QED
    BY <2>1, <2>2
<1>2. ASSUME NEW l \in Tables, Exclusive(l)
      PROVE  Cardinality(writer[l]) <= 1 /\ (writer[l] # {} => readers[l] = {})
  BY <1>1, <1>2 DEF Exclusive
<1>3. IInv => LocksMatch
  <2> SUFFICES ASSUME IInv
               PROVE  LocksMatch
    OBVIOUS
  <2>1. /\ writer["mac"] = {t \in Threads : pc[t] \in {"addIp", "check", "unwindIp", "unwindMac"}}
        /\ writer["ip"] = {t \in Threads : pc[t] \in {"check", "unwindIp"}}
    BY DEF IInv, Exclusive, WritesAt
  <2>2. \A l \in Tables : Exclusive(l)
    BY DEF IInv, Tables
  <2> QED
    BY <1>2, <2>1, <2>2 DEF LocksMatch
<1> QED
  BY <1>3, Invariant, PTL

\* When no thread is between the two drops of a panic, add finds both locks
\* poisoned or neither, for any number of threads that panic in whatever order.
THEOREM AlwaysPoisonedTogether == Spec => []PoisonedTogether
<1>1. IInv => PoisonedTogether
  BY DEF IInv, Poison, PoisonedTogether
<1> QED
  BY <1>1, Invariant, PTL

\* However many threads call add, in whatever order between the two drops of a
\* panic, at most one of them panics: every other finds the poison and returns.
THEOREM AlwaysOnePanic == Spec => []OnePanic
<1>1. IInv => OnePanic
  <2> SUFFICES ASSUME IInv
               PROVE  OnePanic
    OBVIOUS
  <2> DEFINE P == {t \in Threads : pc[t] \in PanicsAt}
  <2>1. \A t, u \in P : t = u
    BY DEF IInv, Poison
  <2>2. CASE P = {}
    BY <2>2, FS_EmptySet DEF OnePanic, PanicsAt
  <2>3. CASE P # {}
    <3>1. PICK t \in P : P = {t}
      BY <2>1, <2>3
    <3>2. Cardinality({t}) = 1
      BY FS_Singleton
    <3>3. Cardinality(P) <= 1
      BY <3>1, <3>2
    <3> QED
      BY <3>3 DEF OnePanic, PanicsAt
  <2> QED
    BY <2>2, <2>3
<1> QED
  BY <1>1, Invariant, PTL
=============================================================================
