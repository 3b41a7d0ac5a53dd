----------------------------- MODULE Tui_proofs -----------------------------
(***************************************************************************)
(* Theorems about TuiManager, for any list of UPFs, any number of keys,    *)
(* processes and restarts.                                                 *)
(***************************************************************************)
EXTENDS TuiManager, SequenceTheorems, TLAPS

-----------------------------------------------------------------------------
(***************************************************************************)
(* The inductive invariant.                                                *)
(***************************************************************************)

\* A pid file holds a pid that was given, and only a process that was started
\* has an address.
Bookkept ==
    /\ \A i \in 1 .. Len(services) :
          services[i].status = "Running" => services[i].pid # None
    /\ \A n \in Names : pidFiles[n] \in Pids => pidFiles[n] <= lastPid
    /\ \A p \in Pids :
          IF p <= lastPid THEN processes[p].addr \in Addrs
          ELSE processes[p].addr = None /\ processes[p].state = "unused"

\* The process that is not yet in its pid file is the one spawned last.
Recording ==
    starting # None =>
        /\ starting \in 1 .. Len(services) /\ lastPid \in Pids
        /\ processes[lastPid].addr = services[starting].addr

\* A pid file names a process of the service that it is called after, and a row
\* that has a pid has it from there.
WellFiled ==
    ~ renamed =>
        /\ \A n \in Names : pidFiles[n] \in Pids =>
              /\ n <= Len(services)
              /\ processes[pidFiles[n]].addr = services[n].addr
        /\ \A i \in 1 .. Len(services) :
              services[i].pid # None => pidFiles[i] = services[i].pid

TuiInv == TypeOK /\ Bookkept /\ Recording /\ WellFiled /\ NoProcessIsLost

-----------------------------------------------------------------------------
LEMMA NewServicesType ==
    /\ NewServices \in Seq(ServiceInfo)
    /\ Len(NewServices) = Len(DefaultUpfs) + 1
    /\ \A i \in 1 .. Len(NewServices) :
          /\ NewServices[i].addr = (IF i = 1 THEN ProxyAddr ELSE DefaultUpfs[i - 1])
          /\ NewServices[i].status = "Stopped"
          /\ NewServices[i].pid = None
<1> DEFINE n == Len(DefaultUpfs) + 1
           addr(i) == IF i = 1 THEN ProxyAddr ELSE DefaultUpfs[i - 1]
<1>1. n \in Nat /\ DefaultUpfs \in Seq(UpfAddrs)
  BY TuiAssumption
<1>2. \A i \in 1 .. n : addr(i) \in Addrs
  BY <1>1 DEF Addrs
<1>3. \A i \in 1 .. n : StoppedRow(addr(i)) \in ServiceInfo
  BY <1>2 DEF StoppedRow, ServiceInfo, ServiceStatus
<1>4. NewServices = [i \in 1 .. n |-> StoppedRow(addr(i))]
  BY DEF NewServices
<1> HIDE DEF n, addr
<1>5. NewServices \in Seq(ServiceInfo) /\ Len(NewServices) = n
  BY <1>1, <1>3, <1>4
<1>6. \A i \in 1 .. n : NewServices[i] = StoppedRow(addr(i))
  BY <1>4
<1> QED BY <1>5, <1>6 DEF StoppedRow, n, addr

\* As many services as the program starts with, no two on one address.
LEMMA NewServicesDistinct ==
    /\ Len(NewServices) \in 1 .. MaxUpfs + 1
    /\ NewServices[1].addr = ProxyAddr
    /\ \A i, j \in 1 .. Len(NewServices) :
          NewServices[i].addr = NewServices[j].addr => i = j
<1>1. Len(DefaultUpfs) \in Nat /\ \A i \in 1 .. Len(DefaultUpfs) : DefaultUpfs[i] \in UpfAddrs
  BY TuiAssumption
<1>2. Len(NewServices) \in 1 .. MaxUpfs + 1 /\ NewServices[1].addr = ProxyAddr
  BY <1>1, NewServicesType, TuiAssumption
<1>3. ASSUME NEW i \in 1 .. Len(NewServices), NEW j \in 1 .. Len(NewServices),
             NewServices[i].addr = NewServices[j].addr
      PROVE  i = j
  <2>1. CASE i = 1 \/ j = 1
    <3>1. \A k \in 2 .. Len(NewServices) : NewServices[k].addr \in UpfAddrs
      BY <1>1, NewServicesType
    <3> QED BY <2>1, <3>1, <1>2, <1>3, TuiAssumption
  <2>2. CASE i # 1 /\ j # 1
    BY <2>2, <1>1, <1>3, NewServicesType, TuiAssumption
  <2> QED BY <2>1, <2>2
<1> QED BY <1>2, <1>3

LEMMA RowsType ==
    ASSUME NEW from \in Names, NEW to \in Nat, to <= MaxUpfs + 1, NEW op \in Ops
    PROVE  Rows(from, to, op) \in Seq(Ops \X Names)
BY TuiAssumption DEF Rows, Names

\* A pid is None, a number, or the content that does not parse.
LEMMA PidIsSome ==
    /\ \A p \in Pids : p # None /\ p # Empty /\ p \in Nat
    /\ None \notin Pids /\ Empty \notin Pids
BY TuiAssumption DEF Pids

LEMMA InitTui == Init => TuiInv
<1> SUFFICES ASSUME Init PROVE TuiInv
  OBVIOUS
<1> USE DEF Init
<1>1. TypeOK
  <2>1. processes \in [Pids -> Process]
    BY DEF Process, ProcessStates
  <2>2. lastPid \in 0 .. MaxPids /\ pidFiles \in [Names -> Pids \cup {Empty, None}]
    BY TuiAssumption
  <2>3. todo \in Seq(Ops \X Names)
    OBVIOUS
  <2> QED BY <2>1, <2>2, <2>3, NewServicesType, NewServicesDistinct DEF TypeOK
<1>2. Bookkept
  BY NewServicesType, TuiAssumption DEF Bookkept, Pids
<1>3. WellFiled /\ Recording
  BY NewServicesType, PidIsSome DEF WellFiled, Recording
<1>4. NoProcessIsLost
  BY DEF NoProcessIsLost, Alive
<1> QED BY <1>1, <1>2, <1>3, <1>4 DEF TuiInv

-----------------------------------------------------------------------------
(***************************************************************************)
(* Steps that change a row, but no address.                                *)
(***************************************************************************)
RowsOK(rows) ==
    /\ rows \in Seq(ServiceInfo)
    /\ Len(rows) \in 1 .. MaxUpfs + 1
    /\ rows[1].addr = ProxyAddr
    /\ \A i, j \in 1 .. Len(rows) : rows[i].addr = rows[j].addr => i = j

TodoOK(keys) == keys \in Seq(Ops \X Names)

LEMMA TypeOKParts ==
    TypeOK <=> /\ RowsOK(services)
               /\ pidFiles \in [Names -> Pids \cup {Empty, None}]
               /\ processes \in [Pids -> Process]
               /\ lastPid \in 0 .. MaxPids
               /\ TodoOK(todo)
               /\ renamed \in BOOLEAN
               /\ starting \in Names \cup {None}
               /\ interrupted \subseteq Pids
BY DEF TypeOK, RowsOK, TodoOK

LEMMA TypeOKPartsNext ==
    TypeOK' <=> /\ RowsOK(services')
                /\ pidFiles' \in [Names -> Pids \cup {Empty, None}]
                /\ processes' \in [Pids -> Process]
                /\ lastPid' \in 0 .. MaxPids
                /\ TodoOK(todo')
                /\ renamed' \in BOOLEAN
                /\ starting' \in Names \cup {None}
                /\ interrupted' \subseteq Pids
BY DEF TypeOK, RowsOK, TodoOK

LEMMA RowFacts ==
    ASSUME NEW rows, RowsOK(rows), NEW i \in 1 .. Len(rows)
    PROVE  /\ rows[i].addr \in Addrs
           /\ rows[i].status \in ServiceStatus
           /\ rows[i].pid \in Pids \cup {None}
           /\ i \in Names
<1>1. rows[i] \in ServiceInfo /\ i \in Names
  BY TuiAssumption DEF RowsOK, Names
<1> QED BY <1>1 DEF ServiceInfo

LEMMA OneRow ==
    ASSUME NEW rows, RowsOK(rows), NEW i \in 1 .. Len(rows),
           NEW s \in ServiceInfo, s.addr = rows[i].addr
    PROVE  /\ RowsOK([rows EXCEPT ![i] = s])
           /\ Len([rows EXCEPT ![i] = s]) = Len(rows)
           /\ \A j \in 1 .. Len(rows) :
                 [rows EXCEPT ![i] = s][j] = IF j = i THEN s ELSE rows[j]
<1> DEFINE new == [rows EXCEPT ![i] = s]
<1>1. /\ new \in Seq(ServiceInfo)
      /\ Len(new) = Len(rows)
      /\ \A j \in 1 .. Len(rows) : new[j] = IF j = i THEN s ELSE rows[j]
  BY ExceptSeq DEF RowsOK
<1> HIDE DEF new
<1>2. \A j \in 1 .. Len(rows) : new[j].addr = rows[j].addr
  BY <1>1
<1>3. RowsOK(new)
  BY <1>1, <1>2 DEF RowsOK
<1> QED BY <1>1, <1>3 DEF new

LEMMA KeysKeep ==
    ASSUME TuiInv, TodoOK(todo'),
           UNCHANGED <<services, pidFiles, starting, processes, lastPid, historyVars>>
    PROVE  TuiInv'
<1>1. TypeOK'
  BY TypeOKParts, TypeOKPartsNext DEF TuiInv, historyVars
<1>2. Bookkept' /\ WellFiled' /\ Recording'
  BY DEF TuiInv, Bookkept, WellFiled, Recording, historyVars
<1>3. NoProcessIsLost'
  BY DEF TuiInv, NoProcessIsLost, Alive, historyVars
<1> QED BY <1>1, <1>2, <1>3 DEF TuiInv

\* The new process is the last one, and is being recorded.
LEMMA SpawnKeeps ==
    ASSUME TuiInv, NEW i \in Names, Spawn(i), starting = None, TodoOK(todo'),
           UNCHANGED <<services, pidFiles, historyVars>>
    PROVE  TuiInv'
<1>0. /\ RowsOK(services)
      /\ pidFiles \in [Names -> Pids \cup {Empty, None}]
      /\ processes \in [Pids -> Process]
      /\ lastPid \in 0 .. MaxPids
      /\ renamed \in BOOLEAN /\ interrupted \subseteq Pids
      /\ UNCHANGED <<renamed, interrupted>>
      /\ Bookkept /\ WellFiled /\ NoProcessIsLost
  BY TypeOKParts DEF TuiInv, historyVars
<1>1. CASE i > Len(services) \/ Started(i)
  <2>1. UNCHANGED <<starting, processes, lastPid>>
    BY <1>1 DEF Spawn
  <2> QED BY <2>1, KeysKeep
<1>2. CASE ~ (i > Len(services) \/ Started(i))
  <2> DEFINE p == lastPid + 1
             new == [addr |-> services[i].addr, state |-> "spawned", orphan |-> FALSE]
  <2>1. /\ p \in Pids
        /\ lastPid' = p
        /\ processes' = [processes EXCEPT ![p] = new]
        /\ starting' = i
    BY <1>0, <1>2, TuiAssumption DEF Spawn, Pids
  <2>2. i \in 1 .. Len(services)
    BY <1>0, <1>2 DEF RowsOK, Names
  <2>3. services[i].addr \in Addrs
    BY <1>0, <2>2, RowFacts
  <2>4. new \in Process /\ new.addr = services[i].addr
    BY <2>3 DEF Process, ProcessStates
  <2>5. p = lastPid + 1 /\ p \in Nat /\ lastPid \in Nat
    BY <1>0
  <2> HIDE DEF p, new
  <2>6. \A q \in Pids : processes'[q] = IF q = p THEN new ELSE processes[q]
    BY <1>0, <2>1
  <2>7. TypeOK'
    BY <1>0, <2>1, <2>4, TypeOKPartsNext, TuiAssumption DEF Pids
  <2>8. Bookkept'
    BY <1>0, <2>1, <2>3, <2>4, <2>5, <2>6 DEF Bookkept, Pids
  <2>9. Recording'
    BY <2>1, <2>2, <2>4, <2>6 DEF Recording
  <2>10. WellFiled'
    BY <1>0, <2>5, <2>6, PidIsSome DEF WellFiled, Bookkept
  <2>11. NoProcessIsLost'
    <3>1. i # None
      BY TuiAssumption DEF Names
    <3> SUFFICES ASSUME ~ renamed, NEW q \in Pids \ interrupted, Alive(q)', q # p
                 PROVE  \/ \E j \in 1 .. Len(services) :
                              services[j].addr = processes'[q].addr /\ pidFiles[j] = q
                        \/ \E r \in Pids : r > q /\ processes'[r].addr = processes'[q].addr
      BY <1>0, <2>1, <3>1 DEF NoProcessIsLost
    <3>2. Alive(q) /\ processes'[q] = processes[q]
      BY <2>6 DEF Alive
    <3>3. ASSUME NEW r \in Pids, r > q, processes[r].addr = processes[q].addr
          PROVE  processes'[r].addr = processes[q].addr
      <4>1. processes[q].addr \in Addrs
        BY <1>0, <3>2 DEF Bookkept, Alive
      <4>2. r # p
        BY <1>0, <2>5, <3>3, <4>1, TuiAssumption DEF Bookkept, Addrs
      <4> QED BY <2>6, <3>3, <4>2
    <3> QED BY <1>0, <3>2, <3>3 DEF NoProcessIsLost
  <2> QED BY <2>7, <2>8, <2>9, <2>10, <2>11 DEF TuiInv
<1> QED BY <1>1, <1>2

\* Whom the pid file named before was started earlier, on the same address.
LEMMA FilePidKeeps == ASSUME TuiInv, FilePid PROVE TuiInv'
<1>0. /\ RowsOK(services) /\ TodoOK(todo)
      /\ pidFiles \in [Names -> Pids \cup {Empty, None}]
      /\ processes \in [Pids -> Process]
      /\ lastPid \in 0 .. MaxPids
      /\ renamed \in BOOLEAN /\ interrupted \subseteq Pids
      /\ UNCHANGED <<processes, lastPid, todo, renamed, interrupted>>
      /\ Bookkept /\ WellFiled /\ NoProcessIsLost
  BY TypeOKParts DEF TuiInv, FilePid, historyVars
<1>1. PICK i \in 1 .. Len(services) :
         i = starting /\ lastPid \in Pids /\ processes[lastPid].addr = services[i].addr
  BY DEF TuiInv, Recording, FilePid
<1>2. PICK p \in Pids : p = lastPid /\ p \in Nat
  BY <1>1, PidIsSome
<1> DEFINE s == [services[i] EXCEPT !.status = "Starting", !.pid = p]
<1>3. /\ pidFiles' = [pidFiles EXCEPT ![i] = p]
      /\ services' = [services EXCEPT ![i] = s]
      /\ starting' = None
  BY <1>1, <1>2 DEF FilePid, Filed
<1>4. services[i] \in ServiceInfo /\ i \in Names
  BY <1>0, RowFacts DEF RowsOK
<1>5. s \in ServiceInfo /\ s.addr = services[i].addr /\ s.pid = p /\ s.status = "Starting"
  BY <1>2, <1>4 DEF ServiceInfo, ServiceStatus
<1> HIDE DEF s
<1>6. /\ RowsOK(services')
      /\ Len(services') = Len(services)
      /\ \A j \in 1 .. Len(services) : services'[j] = IF j = i THEN s ELSE services[j]
  <2>1. /\ RowsOK([services EXCEPT ![i] = s])
        /\ Len([services EXCEPT ![i] = s]) = Len(services)
        /\ \A j \in 1 .. Len(services) :
              [services EXCEPT ![i] = s][j] = IF j = i THEN s ELSE services[j]
    BY <1>0, <1>5, OneRow
  <2> QED BY <1>3, <2>1
<1>7. \A n \in Names : pidFiles'[n] = IF n = i THEN p ELSE pidFiles[n]
  BY <1>0, <1>3
<1>8. TypeOK'
  BY <1>0, <1>2, <1>3, <1>4, <1>6, TypeOKPartsNext
<1>9. Bookkept' /\ Recording'
  BY <1>0, <1>2, <1>3, <1>5, <1>6, <1>7, PidIsSome DEF Bookkept, Recording
<1>10. WellFiled'
  <2>1. \A j \in 1 .. Len(services) : j \in Names /\ services'[j].addr = services[j].addr
    BY <1>0, <1>5, <1>6, RowFacts
  <2>2. ASSUME ~ renamed, NEW n \in Names, pidFiles'[n] \in Pids
        PROVE  n <= Len(services) /\ processes[pidFiles'[n]].addr = services'[n].addr
    <3>1. CASE n = i
      BY <3>1, <1>0, <1>1, <1>2, <1>5, <1>6, <1>7 DEF RowsOK
    <3>2. CASE n # i
      <4>1. pidFiles'[n] = pidFiles[n] /\ n <= Len(services)
        BY <2>2, <3>2, <1>0, <1>7 DEF WellFiled
      <4>2. n \in 1 .. Len(services)
        BY <4>1, <1>0 DEF RowsOK, Names
      <4> QED BY <4>1, <4>2, <2>1, <2>2, <1>0 DEF WellFiled
    <3> QED BY <3>1, <3>2
  <2>3. ASSUME ~ renamed, NEW j \in 1 .. Len(services), services'[j].pid # None
        PROVE  pidFiles'[j] = services'[j].pid
    BY <2>1, <2>3, <1>0, <1>5, <1>6, <1>7 DEF WellFiled
  <2> QED BY <2>2, <2>3, <1>0, <1>6 DEF WellFiled
<1>11. NoProcessIsLost'
  <2> SUFFICES ASSUME ~ renamed, NEW q \in Pids \ interrupted, Alive(q)
               PROVE  \/ \E j \in 1 .. Len(services') :
                            services'[j].addr = processes[q].addr /\ pidFiles'[j] = q
                      \/ \E r \in Pids : r > q /\ processes[r].addr = processes[q].addr
    BY <1>0 DEF NoProcessIsLost, Alive
  <2>1. CASE q = p
    BY <2>1, <1>1, <1>2, <1>4, <1>5, <1>6, <1>7
  <2>2. ASSUME q # p, NEW j \in 1 .. Len(services),
               services[j].addr = processes[q].addr, pidFiles[j] = q
        PROVE  \/ /\ j \in 1 .. Len(services')
                  /\ services'[j].addr = processes[q].addr /\ pidFiles'[j] = q
               \/ p > q /\ processes[p].addr = processes[q].addr
    <3>1. j \in Names /\ q <= p /\ q \in Nat
      BY <2>2, <1>0, <1>2, RowFacts, PidIsSome DEF Bookkept
    <3>2. CASE j = i
      BY <3>1, <3>2, <2>2, <1>1, <1>2
    <3>3. CASE j # i
      BY <3>1, <3>3, <2>2, <1>6, <1>7
    <3> QED BY <3>2, <3>3
  <2> QED BY <2>1, <2>2, <1>0, <1>2 DEF NoProcessIsLost
<1> QED BY <1>8, <1>9, <1>10, <1>11 DEF TuiInv

\* A process that is killed keeps its address.
LEMMA KillFacts ==
    ASSUME processes \in [Pids -> Process], NEW p \in Pids, processes' = Killed(p)
    PROVE  /\ processes' \in [Pids -> Process]
           /\ \A q \in Pids : processes'[q].addr = processes[q].addr
           /\ \A q \in Pids : Alive(q)' => Alive(q) /\ q # p
           /\ \A q \in Pids : q # p => processes'[q] = processes[q]
           /\ processes[p].state = "unused" => processes'[p].state = "unused"
<1> DEFINE st == IF Alive(p) THEN Ended(processes[p]) ELSE processes[p].state
           new == [processes[p] EXCEPT !.state = st]
<1>1. processes' = [processes EXCEPT ![p] = new]
  BY DEF Killed
<1>2. st \in ProcessStates /\ ~ st \in {"spawned", "serving"}
  BY DEF Alive, Ended, Process, ProcessStates
<1>3. processes[p].state = "unused" => st = "unused"
  BY DEF Alive
<1>4. new \in Process /\ new.addr = processes[p].addr /\ new.state = st
  BY <1>2 DEF Process
<1> HIDE DEF st, new
<1>5. \A q \in Pids : processes'[q] = IF q = p THEN new ELSE processes[q]
  BY <1>1
<1>6. processes' \in [Pids -> Process]
  BY <1>1, <1>4
<1>7. \A q \in Pids : Alive(q)' <=> processes'[q].state \in {"spawned", "serving"}
  BY DEF Alive
<1> QED BY <1>2, <1>3, <1>4, <1>5, <1>6, <1>7 DEF Alive

LEMMA StopKeeps ==
    ASSUME TuiInv, NEW i \in Names, StopService(i), starting = None, TodoOK(todo'),
           UNCHANGED <<starting, lastPid, historyVars>>
    PROVE  TuiInv'
<1>0. /\ RowsOK(services)
      /\ pidFiles \in [Names -> Pids \cup {Empty, None}]
      /\ processes \in [Pids -> Process]
      /\ lastPid \in 0 .. MaxPids
      /\ renamed \in BOOLEAN /\ interrupted \subseteq Pids
      /\ UNCHANGED <<lastPid, renamed, interrupted>>
      /\ Bookkept /\ WellFiled /\ NoProcessIsLost
  BY TypeOKParts DEF TuiInv, historyVars
<1> USE <1>0, PidIsSome DEF TuiInv
<1>1. CASE i > Len(services) \/ ~ Started(i)
  <2>1. UNCHANGED <<services, pidFiles, processes>>
    BY <1>1 DEF StopService
  <2> QED BY <2>1, KeysKeep
<1>2. CASE ~ (i > Len(services) \/ ~ Started(i))
  <2> DEFINE p == services[i].pid
             s == StoppedRow(services[i].addr)
  <2>1. /\ processes' = Killed(p)
        /\ pidFiles' = [pidFiles EXCEPT ![i] = None]
        /\ services' = [services EXCEPT ![i] = s]
    BY <1>2 DEF StopService
  <2>2. i \in 1 .. Len(services)
    BY <1>2 DEF RowsOK, Names
  <2>3. services[i].addr \in Addrs /\ p \in Pids
    BY <1>2, <2>2, RowFacts DEF Bookkept, Started
  <2>4. s \in ServiceInfo /\ s.addr = services[i].addr /\ s.pid = None /\ s.status = "Stopped"
    BY <2>3 DEF StoppedRow, ServiceInfo, ServiceStatus
  <2> HIDE DEF s
  <2>5. /\ RowsOK(services')
        /\ Len(services') = Len(services)
        /\ \A j \in 1 .. Len(services) : services'[j] = IF j = i THEN s ELSE services[j]
    <3>1. /\ RowsOK([services EXCEPT ![i] = s])
          /\ Len([services EXCEPT ![i] = s]) = Len(services)
          /\ \A j \in 1 .. Len(services) :
                [services EXCEPT ![i] = s][j] = IF j = i THEN s ELSE services[j]
      BY <2>2, <2>4, OneRow
    <3> QED BY <2>1, <3>1
  <2>6. \A n \in Names : pidFiles'[n] = IF n = i THEN None ELSE pidFiles[n]
    BY <2>1
  <2>7. /\ processes' \in [Pids -> Process]
        /\ \A q \in Pids : processes'[q].addr = processes[q].addr
        /\ \A q \in Pids : Alive(q)' => Alive(q) /\ q # p
        /\ \A q \in Pids : q # p => processes'[q] = processes[q]
        /\ processes[p].state = "unused" => processes'[p].state = "unused"
    BY <2>1, <2>3, KillFacts
  <2>12. Recording'
    BY DEF Recording
  <2>8. TypeOK'
    BY <2>1, <2>5, <2>7, TypeOKPartsNext
  <2>9. Bookkept'
    BY <2>1, <2>3, <2>4, <2>5, <2>6, <2>7, PidIsSome DEF Bookkept
  <2>10. WellFiled'
    <3> SUFFICES ASSUME ~ renamed PROVE WellFiled'
      BY DEF WellFiled
    <3>1. \A n \in Names : pidFiles'[n] \in Pids =>
             n <= Len(services') /\ processes'[pidFiles'[n]].addr = services'[n].addr
      BY <2>4, <2>5, <2>6, <2>7 DEF WellFiled, Names
    <3>2. \A j \in 1 .. Len(services') :
             services'[j].pid # None => pidFiles'[j] = services'[j].pid
      BY <2>4, <2>5, <2>6, RowFacts DEF WellFiled
    <3> QED BY <3>1, <3>2 DEF WellFiled
  <2>11. NoProcessIsLost'
    <3>0. /\ Len(services') = Len(services)
          /\ \A j \in 1 .. Len(services) : services'[j].addr = services[j].addr
          /\ \A q \in Pids : processes'[q].addr = processes[q].addr
      BY <2>4, <2>5, <2>7
    <3> SUFFICES ASSUME ~ renamed, NEW q \in Pids \ interrupted, Alive(q)'
                 PROVE  \/ \E j \in 1 .. Len(services) :
                              services[j].addr = processes[q].addr /\ pidFiles'[j] = q
                        \/ \E r \in Pids : r > q /\ processes[r].addr = processes[q].addr
      BY <3>0 DEF NoProcessIsLost
    <3>1. Alive(q) /\ q # p
      BY <2>7
    <3>2. pidFiles[i] = p
      BY <2>2, <2>3 DEF WellFiled
    <3>3. ASSUME NEW j \in 1 .. Len(services),
                 services[j].addr = processes[q].addr /\ pidFiles[j] = q
          PROVE  pidFiles'[j] = q
      BY <3>1, <3>2, <3>3, <2>6, RowFacts
    <3> QED BY <3>1, <3>3 DEF NoProcessIsLost
  <2> QED BY <2>8, <2>9, <2>10, <2>11, <2>12
<1> QED BY <1>1, <1>2

-----------------------------------------------------------------------------
(***************************************************************************)
(* Processes.                                                              *)
(***************************************************************************)
LEMMA ProcessesKeep ==
    ASSUME TuiInv, processes' \in [Pids -> Process],
           UNCHANGED <<services, pidFiles, starting, lastPid, todo, historyVars>>,
           \A q \in Pids : /\ processes'[q].addr = processes[q].addr
                           /\ Alive(q)' => Alive(q)
                           /\ processes[q].state = "unused" =>
                                 processes'[q].state = "unused"
    PROVE  TuiInv'
<1>1. TypeOK'
  BY TypeOKParts, TypeOKPartsNext DEF TuiInv, historyVars
<1>2. Bookkept' /\ Recording'
  BY DEF TuiInv, Bookkept, Recording
<1>3. WellFiled'
  BY TypeOKParts DEF TuiInv, WellFiled, historyVars
<1>4. NoProcessIsLost'
  BY DEF TuiInv, NoProcessIsLost, historyVars
<1> QED BY <1>1, <1>2, <1>3, <1>4 DEF TuiInv

LEMMA BindKeeps == ASSUME TuiInv, NEW p \in Pids, Bind(p) PROVE TuiInv'
<1> PICK st \in {"gone", "zombie", "serving"} :
        /\ processes[p].state = "spawned"
        /\ processes' = [processes EXCEPT ![p].state = st]
  BY DEF Bind, Ended
<1>1. processes \in [Pids -> Process]
  BY TypeOKParts DEF TuiInv
<1>2. processes' \in [Pids -> Process]
  BY <1>1 DEF Process, ProcessStates
<1>3. \A q \in Pids : /\ processes'[q].addr = processes[q].addr
                      /\ q # p => processes'[q] = processes[q]
  BY <1>1 DEF Process
<1> QED BY <1>2, <1>3, ProcessesKeep DEF Bind, Alive

LEMMA CrashKeeps == ASSUME TuiInv, NEW p \in Pids, Crash(p) PROVE TuiInv'
<1>1. processes \in [Pids -> Process]
  BY TypeOKParts DEF TuiInv
<1>2. processes' = Killed(p)
  BY DEF Crash, Killed
<1> QED BY <1>1, <1>2, KillFacts, ProcessesKeep DEF Crash

-----------------------------------------------------------------------------
(***************************************************************************)
(* Keys.                                                                   *)
(***************************************************************************)
LEMMA PressKeyKeeps == ASSUME TuiInv, PressKey PROVE TuiInv'
<1>1. /\ TodoOK(StartAll) /\ TodoOK(StopAll)
  <2>1. 1 \in Names /\ Rows(1, 1, "start") \in Seq(Ops \X Names)
    BY RowsType, TuiAssumption DEF Names, Ops
  <2>2. Rows(1, FixedRows, "stop") \in Seq(Ops \X Names)
    BY <2>1, RowsType, TuiAssumption DEF Ops
  <2>3. Rows(2, FixedRows, "start") \in Seq(Ops \X Names)
    BY TuiAssumption DEF Rows, Names, Ops
  <2>4. StopAll \in Seq(Ops \X Names)
    BY <2>2 DEF StopAll
  <2>5. StartAll \in Seq(Ops \X Names)
    BY <2>1, <2>3, ConcatProperties DEF StartAll
  <2> QED BY <2>4, <2>5 DEF TodoOK
<1>2. \A i \in 1 .. FixedRows : TodoOK(Toggle(i))
  BY TuiAssumption DEF TodoOK, Toggle, Names, Ops
<1>3. TodoOK(todo')
  <2>1. TodoOK(StopAll \o StartAll)
    BY <1>1, ConcatProperties DEF TodoOK
  <2> QED BY <2>1, <1>1, <1>2 DEF PressKey
<1> QED BY <1>3, KeysKeep DEF PressKey

LEMMA DoNextKeeps == ASSUME TuiInv, DoNext PROVE TuiInv'
<1>1. TodoOK(todo)
  BY TypeOKParts DEF TuiInv
<1>2. TodoOK(todo') /\ Head(todo) \in Ops \X Names
  BY <1>1 DEF DoNext, TodoOK
<1>3. Head(todo)[2] \in Names
  BY <1>2
<1>4. starting = None /\ UNCHANGED historyVars
  BY DEF DoNext
<1>5. CASE Spawn(Head(todo)[2]) /\ UNCHANGED <<services, pidFiles>>
  BY <1>2, <1>3, <1>4, <1>5, SpawnKeeps
<1>6. CASE StopService(Head(todo)[2]) /\ UNCHANGED <<starting, lastPid>>
  BY <1>2, <1>3, <1>4, <1>6, StopKeeps
<1> QED BY <1>5, <1>6 DEF DoNext

\* Unless it is noted, no pid file changes hands.
LEMMA NamesStay ==
    ASSUME TuiInv, RowsOK(services'), NoteRenaming, ~ renamed',
           \A n \in Names : pidFiles'[n] \in {pidFiles[n], Empty, None}
    PROVE  /\ ~ renamed
           /\ \A n \in Names : pidFiles'[n] \in Pids =>
                 /\ n <= Len(services)
                 /\ n <= Len(services')
                 /\ services'[n].addr = services[n].addr
<1>1. /\ ~ renamed
      /\ \A n \in Names : pidFiles'[n] \in Pids =>
            AddrAt(services', n) = AddrAt(services, n)
  BY DEF NoteRenaming
<1>2. ASSUME NEW n \in Names, pidFiles'[n] \in Pids
      PROVE  /\ n <= Len(services)
             /\ n <= Len(services')
             /\ services'[n].addr = services[n].addr
  <2>1. n <= Len(services)
    BY <1>1, <1>2, PidIsSome DEF TuiInv, WellFiled
  <2>2. services[n].addr \in Addrs
    BY <2>1, RowFacts, TypeOKParts DEF TuiInv, Names
  <2>3. AddrAt(services', n) = services[n].addr
    BY <1>1, <1>2, <2>1 DEF AddrAt
  <2>4. n <= Len(services')
    BY <2>2, <2>3, TuiAssumption DEF AddrAt, Addrs
  <2> QED BY <2>1, <2>3, <2>4 DEF AddrAt
<1> QED BY <1>1, <1>2

LEMMA AddKeeps == ASSUME TuiInv, NEW a \in UpfAddrs, AddUpf(a) PROVE TuiInv'
<1> DEFINE s == StoppedRow(a)
<1>0. /\ RowsOK(services) /\ Bookkept /\ WellFiled /\ NoProcessIsLost
      /\ UNCHANGED <<pidFiles, starting, processes, lastPid, todo, interrupted>>
      /\ starting = None
      /\ services' = Append(services, s)
  BY TypeOKParts DEF TuiInv, AddUpf, Ready
<1>1. s \in ServiceInfo /\ s.addr = a /\ s.pid = None /\ s.status = "Stopped"
  BY DEF StoppedRow, ServiceInfo, ServiceStatus, Addrs
<1> HIDE DEF s
<1>2. /\ services' \in Seq(ServiceInfo)
      /\ Len(services') = Len(services) + 1
      /\ \A j \in 1 .. Len(services) : services'[j] = services[j]
      /\ services'[Len(services) + 1] = s
  BY <1>0, <1>1, AppendProperties DEF RowsOK
<1>3. \A j \in 1 .. Len(services) : services[j].addr # a
  <2>1. services[1].addr # a
    BY <1>0, TuiAssumption DEF RowsOK
  <2> QED BY <2>1, <1>0 DEF AddUpf, RowsOK
<1>4. RowsOK(services')
  <2>1. \A i, j \in 1 .. Len(services') : services'[i].addr = services'[j].addr => i = j
    BY <1>0, <1>1, <1>2, <1>3 DEF RowsOK
  <2> QED BY <1>0, <1>2, <2>1, TuiAssumption DEF RowsOK, AddUpf
<1>5. TypeOK'
  BY <1>0, <1>4, TypeOKParts, TypeOKPartsNext DEF TuiInv, AddUpf, NoteRenaming
<1>6. Bookkept' /\ Recording'
  BY <1>0, <1>1, <1>2 DEF Bookkept, RowsOK, Recording
<1>7. WellFiled' /\ NoProcessIsLost'
  <2> SUFFICES ASSUME ~ renamed' PROVE WellFiled' /\ NoProcessIsLost'
    BY DEF WellFiled, NoProcessIsLost
  <2>1. ~ renamed
    BY NamesStay, <1>0, <1>4 DEF AddUpf
  <2>2. WellFiled'
    BY <2>1, <1>0, <1>1, <1>2 DEF WellFiled, RowsOK, Names
  <2>3. NoProcessIsLost'
    <3>1. \A q \in Pids : Alive(q)' <=> Alive(q)
      BY <1>0 DEF Alive
    <3> QED BY <3>1, <2>1, <1>0, <1>2 DEF NoProcessIsLost, RowsOK
  <2> QED BY <2>2, <2>3
<1> QED BY <1>5, <1>6, <1>7 DEF TuiInv

LEMMA RemoveKeeps == ASSUME TuiInv, NEW i \in Names, RemoveUpf(i) PROVE TuiInv'
<1>0. /\ RowsOK(services) /\ Bookkept /\ WellFiled /\ NoProcessIsLost
      /\ pidFiles \in [Names -> Pids \cup {Empty, None}]
      /\ processes \in [Pids -> Process]
      /\ services' = Without(i)
      /\ i \in 2 .. Len(services)
      /\ UNCHANGED <<starting, lastPid, todo, interrupted>>
      /\ starting = None
      /\ NoteRenaming
  BY TypeOKParts DEF TuiInv, RemoveUpf, Ready
<1>1. /\ Len(services') = Len(services) - 1
      /\ \A j \in 1 .. Len(services') :
            services'[j] = services[IF j < i THEN j ELSE j + 1]
  BY <1>0 DEF Without, RowsOK
<1>2. RowsOK(services')
  <2>1. \A j \in 1 .. Len(services') : services'[j] \in ServiceInfo
    BY <1>0, <1>1 DEF RowsOK
  <2>2. services' \in Seq(ServiceInfo)
    BY <2>1, <1>0, <1>1 DEF Without, RowsOK
  <2>3. \A j, k \in 1 .. Len(services') : services'[j].addr = services'[k].addr => j = k
    <3> DEFINE Old(j) == IF j < i THEN j ELSE j + 1
    <3>1. /\ Len(services) \in Nat /\ i \in 2 .. Len(services)
          /\ \A j, k \in 1 .. Len(services) : services[j].addr = services[k].addr => j = k
      BY <1>0 DEF RowsOK
    <3>2. \A j \in 1 .. Len(services') :
             Old(j) \in 1 .. Len(services) /\ services'[j] = services[Old(j)]
      BY <3>1, <1>1
    <3>3. \A j, k \in 1 .. Len(services') : Old(j) = Old(k) => j = k
      BY <3>1, <1>1
    <3> HIDE DEF Old
    <3> QED BY <3>1, <3>2, <3>3
  <2>4. Len(services') \in 1 .. MaxUpfs + 1
    BY <1>0, <1>1, TuiAssumption DEF RowsOK
  <2>5. services'[1].addr = ProxyAddr
    BY <1>0, <1>1 DEF RowsOK
  <2> QED BY <2>2, <2>3, <2>4, <2>5 DEF RowsOK
<1>3. /\ processes' \in [Pids -> Process]
      /\ pidFiles' \in [Names -> Pids \cup {Empty, None}]
      /\ \A q \in Pids : processes'[q].addr = processes[q].addr
      /\ \A q \in Pids : Alive(q)' => Alive(q)
      /\ \A q \in Pids : processes[q].state = "unused" => processes'[q].state = "unused"
      /\ \/ pidFiles' = pidFiles
         \/ /\ Started(i)
            /\ \A n \in Names : pidFiles'[n] = IF n = i THEN None ELSE pidFiles[n]
            /\ \A q \in Pids : Alive(q)' => q # services[i].pid
  <2>1. CASE /\ Started(i)
             /\ processes' = Killed(services[i].pid)
             /\ pidFiles' = [pidFiles EXCEPT ![i] = None]
    <3>1. services[i].pid \in Pids
      BY <2>1, <1>0, RowFacts DEF Bookkept, Started
    <3>2. /\ pidFiles' \in [Names -> Pids \cup {Empty, None}]
          /\ \A n \in Names : pidFiles'[n] = IF n = i THEN None ELSE pidFiles[n]
      BY <2>1, <1>0
    <3> QED BY <2>1, <3>1, <3>2, <1>0, KillFacts
  <2>2. CASE UNCHANGED <<processes, pidFiles>>
    BY <2>2, <1>0 DEF Alive
  <2> QED BY <2>1, <2>2 DEF RemoveUpf
<1>4. /\ \A n \in Names : pidFiles'[n] \in {pidFiles[n], Empty, None}
      /\ \A n \in Names : pidFiles'[n] \in Pids => pidFiles'[n] = pidFiles[n]
      /\ \A n \in Names : n # i => pidFiles'[n] = pidFiles[n]
  BY <1>3, PidIsSome
<1>5. TypeOK'
  BY <1>0, <1>2, <1>3, <1>4, TypeOKParts, TypeOKPartsNext DEF TuiInv, NoteRenaming
<1>6. Bookkept' /\ Recording'
  <2>1. \A j \in 1 .. Len(services') :
           services'[j].status = "Running" => services'[j].pid # None
    BY <1>0, <1>1 DEF Bookkept, RowsOK
  <2>2. \A n \in Names : pidFiles'[n] \in Pids => pidFiles'[n] <= lastPid
    BY <1>0, <1>4, PidIsSome DEF Bookkept
  <2> QED BY <2>1, <2>2, <1>0, <1>3 DEF Bookkept, Recording
<1>7. WellFiled' /\ NoProcessIsLost'
  <2> SUFFICES ASSUME ~ renamed' PROVE WellFiled' /\ NoProcessIsLost'
    BY DEF WellFiled, NoProcessIsLost
  <2>1. /\ ~ renamed
        /\ \A n \in Names : pidFiles'[n] \in Pids =>
              /\ n <= Len(services)
              /\ n <= Len(services')
              /\ services'[n].addr = services[n].addr
    BY NamesStay, <1>0, <1>2, <1>4
  <2>2. WellFiled'
    <3>1. \A n \in Names : pidFiles'[n] \in Pids =>
             n <= Len(services') /\ processes'[pidFiles'[n]].addr = services'[n].addr
      BY <2>1, <1>0, <1>3, <1>4, PidIsSome DEF WellFiled
    <3>2. ASSUME NEW j \in 1 .. Len(services'), services'[j].pid # None
          PROVE  pidFiles'[j] = services'[j].pid
      <4>0. \A k \in 1 .. Len(services) :
               k \in Names /\ (services[k].pid # None => pidFiles[k] = services[k].pid)
        BY <2>1, <1>0, RowFacts DEF WellFiled
      <4>1. CASE j < i
        <5>0. Len(services) \in Nat /\ i \in 2 .. Len(services)
          BY <1>0 DEF RowsOK
        <5>1. /\ j \in 1 .. Len(services)
              /\ services'[j] = services[j]
              /\ j # i
          BY <4>1, <5>0, <1>1
        <5> QED BY <5>1, <4>0, <3>2, <1>4
      <4>2. CASE ~ j < i
        <5> Len(services) \in Nat /\ i \in 2 .. Len(services)
          BY <1>0 DEF RowsOK
        <5>0. j + 1 \in 1 .. Len(services) /\ services'[j] = services[j + 1]
          BY <4>2, <1>1
        <5>1. /\ j + 1 \in 1 .. Len(services) /\ j + 1 \in Names
              /\ services'[j] = services[j + 1]
              /\ pidFiles[j + 1] = services'[j].pid
          BY <5>0, <4>0, <3>2
        <5>2. pidFiles'[j + 1] \in Pids
          BY <5>1, <4>2, <3>2, <1>0, <1>2, <1>4, RowFacts
        <5>3. /\ j + 2 \in 1 .. Len(services)
              /\ services[j + 2].addr = services[j + 1].addr
          BY <5>1, <5>2, <4>2, <2>1, <1>0, <1>1 DEF RowsOK
        <5> QED BY <5>1, <5>3, <1>0 DEF RowsOK
      <4> QED BY <4>1, <4>2
    <3> QED BY <3>1, <3>2 DEF WellFiled
  <2>3. NoProcessIsLost'
    <3> SUFFICES ASSUME NEW q \in Pids \ interrupted, Alive(q)'
                 PROVE  \/ \E j \in 1 .. Len(services') :
                              services'[j].addr = processes[q].addr /\ pidFiles'[j] = q
                        \/ \E r \in Pids : r > q /\ processes[r].addr = processes[q].addr
      BY <1>0, <1>3 DEF NoProcessIsLost
    <3>1. Alive(q)
      BY <1>3
    <3>2. ASSUME NEW j \in 1 .. Len(services),
                 services[j].addr = processes[q].addr, pidFiles[j] = q
          PROVE  /\ j \in 1 .. Len(services')
                 /\ services'[j].addr = processes[q].addr /\ pidFiles'[j] = q
      <4>1. j \in Names
        BY <1>0, RowFacts
      <4>2. Started(i) => pidFiles[i] = services[i].pid
        BY <2>1, <1>0 DEF Started, WellFiled, Bookkept
      <4>3. pidFiles'[j] = q
        BY <4>1, <4>2, <3>2, <1>3
      <4> QED BY <4>1, <4>3, <3>2, <2>1, PidIsSome
    <3> QED BY <3>1, <3>2, <2>1, <1>0 DEF NoProcessIsLost
  <2> QED BY <2>2, <2>3
<1> QED BY <1>5, <1>6, <1>7 DEF TuiInv

-----------------------------------------------------------------------------
(***************************************************************************)
(* The look at the pid files, and a restart.                               *)
(***************************************************************************)
LEMMA UpdateKeeps == ASSUME TuiInv, UpdateServiceStatus PROVE TuiInv'
<1>0. /\ RowsOK(services) /\ Bookkept /\ WellFiled /\ NoProcessIsLost
      /\ pidFiles \in [Names -> Pids \cup {Empty, None}]
      /\ UNCHANGED <<starting, processes, lastPid, todo, renamed, interrupted>>
      /\ starting = None
  BY TypeOKParts DEF TuiInv, UpdateServiceStatus, Ready, historyVars
<1>1. ASSUME NEW i \in 1 .. Len(services)
      PROVE  LET s == Shown(i, services[i])
             IN  /\ s \in ServiceInfo
                 /\ s.addr = services[i].addr
                 /\ s.status = "Running" => s.pid # None
                 /\ s.pid # None => pidFiles[i] = s.pid /\ ProcessExists(s.pid)
  <2>1. services[i] \in ServiceInfo /\ i \in Names
    BY <1>0, RowFacts DEF RowsOK
  <2>2. CASE NamesProcess(pidFiles[i])
    <3>1. Shown(i, services[i]) = [services[i] EXCEPT !.status = "Running", !.pid = pidFiles[i]]
      BY <2>2 DEF Shown
    <3> QED BY <3>1, <2>1, <2>2, <1>0, PidIsSome DEF ServiceInfo, ServiceStatus, NamesProcess
  <2>3. CASE ~ NamesProcess(pidFiles[i])
    <3>1. Shown(i, services[i]) = StoppedRow(services[i].addr)
      BY <2>3 DEF Shown
    <3> QED BY <3>1, <2>1 DEF ServiceInfo, ServiceStatus, StoppedRow
  <2> QED BY <2>2, <2>3
<1>2. /\ services' \in Seq(ServiceInfo)
      /\ Len(services') = Len(services)
      /\ \A i \in 1 .. Len(services) : services'[i] = Shown(i, services[i])
  <2>1. services' = [i \in 1 .. Len(services) |-> Shown(i, services[i])]
    BY DEF UpdateServiceStatus
  <2>2. \A i \in 1 .. Len(services) : Shown(i, services[i]) \in ServiceInfo
    BY <1>1
  <2> QED BY <2>1, <2>2, <1>0 DEF RowsOK
<1>3. \A i \in 1 .. Len(services) :
         /\ services'[i].addr = services[i].addr
         /\ services'[i].status = "Running" => services'[i].pid # None
         /\ services'[i].pid # None =>
               pidFiles[i] = services'[i].pid /\ ProcessExists(services'[i].pid)
  BY <1>1, <1>2
<1>4. /\ pidFiles' \in [Names -> Pids \cup {Empty, None}]
      /\ \A n \in Names :
            pidFiles'[n] =
               IF n <= Len(services) /\ pidFiles[n] # Empty /\ ~ NamesProcess(pidFiles[n])
               THEN None ELSE pidFiles[n]
  BY <1>0 DEF UpdateServiceStatus
<1>5. RowsOK(services')
  BY <1>0, <1>2, <1>3 DEF RowsOK
<1>6. TypeOK'
  BY <1>0, <1>4, <1>5, TypeOKParts, TypeOKPartsNext DEF TuiInv
<1>7. Bookkept' /\ Recording'
  BY <1>0, <1>2, <1>3, <1>4, PidIsSome DEF Bookkept, Recording
<1>8. WellFiled'
  <2>1. \A i \in 1 .. Len(services) : i \in Names
    BY <1>0, RowFacts
  <2> SUFFICES ASSUME ~ renamed PROVE WellFiled'
    BY <1>0 DEF WellFiled
  <2>2. ASSUME NEW n \in Names, pidFiles'[n] \in Pids
        PROVE  /\ n \in 1 .. Len(services')
               /\ services'[n].addr = processes[pidFiles'[n]].addr
    <3>1. pidFiles'[n] = pidFiles[n]
      BY <2>2, <1>4, PidIsSome
    <3>2. n \in 1 .. Len(services) /\ services[n].addr = processes[pidFiles[n]].addr
      BY <3>1, <2>2, <1>0 DEF WellFiled, RowsOK, Names
    <3> QED BY <3>1, <3>2, <1>2, <1>3
  <2>3. ASSUME NEW i \in 1 .. Len(services'), services'[i].pid # None
        PROVE  pidFiles'[i] = services'[i].pid
    <3>1. pidFiles[i] = services'[i].pid /\ ProcessExists(pidFiles[i])
      BY <2>3, <1>2, <1>3
    <3>2. services'[i].pid \in Pids
      BY <2>3, <1>5, RowFacts
    <3> QED BY <3>1, <3>2, <2>1, <1>2, <1>4 DEF NamesProcess
  <2> QED BY <2>2, <2>3, <1>0 DEF WellFiled
<1>9. NoProcessIsLost'
  <2>1. \A q \in Pids : Alive(q)' <=> Alive(q)
    BY <1>0 DEF Alive
  <2>2. \A q \in Pids : Alive(q) => ProcessExists(q)
    BY DEF Alive, ProcessExists
  <2>3. \A i \in 1 .. Len(services) : i \in Names
    BY <1>0, RowFacts
  <2>4. \A q \in Pids, i \in 1 .. Len(services) :
           Alive(q) /\ pidFiles[i] = q => pidFiles'[i] = q
    BY <2>2, <2>3, <1>4 DEF NamesProcess
  <2> QED BY <2>1, <2>4, <1>0, <1>2, <1>3 DEF NoProcessIsLost
<1> QED BY <1>6, <1>7, <1>8, <1>9 DEF TuiInv

LEMMA RestartKeeps == ASSUME TuiInv, Restart PROVE TuiInv'
<1>0. /\ RowsOK(services) /\ Bookkept /\ WellFiled /\ NoProcessIsLost
      /\ pidFiles \in [Names -> Pids \cup {Empty, None}]
      /\ processes \in [Pids -> Process]
      /\ Recording /\ starting \in Names \cup {None} /\ interrupted \subseteq Pids
      /\ lastPid' = lastPid /\ starting' = None
      /\ interrupted' = interrupted \cup (IF starting = None THEN {} ELSE {lastPid})
      /\ services' = NewServices
      /\ todo' = << >>
      /\ NoteRenaming
  BY TypeOKParts DEF TuiInv, Restart
<1>1. RowsOK(services')
  BY <1>0, NewServicesType, NewServicesDistinct DEF RowsOK
<1>2. /\ processes' \in [Pids -> Process]
      /\ \A q \in Pids : processes'[q].addr = processes[q].addr
      /\ \A q \in Pids : Alive(q)' => Alive(q)
      /\ \A q \in Pids : processes[q].state = "unused" => processes'[q].state = "unused"
  <2> DEFINE new(q) == [processes[q] EXCEPT
                          !.state = IF @ = "zombie" THEN "gone" ELSE @,
                          !.orphan = (processes[q].state # "unused")]
  <2>1. processes' = [q \in Pids |-> new(q)]
    BY DEF Restart
  <2>2. ASSUME NEW q \in Pids
        PROVE  /\ new(q) \in Process
               /\ new(q).addr = processes[q].addr
               /\ new(q).state =
                     IF processes[q].state = "zombie" THEN "gone" ELSE processes[q].state
    BY <1>0 DEF Process, ProcessStates
  <2> HIDE DEF new
  <2> QED BY <2>1, <2>2 DEF Alive
<1>6. /\ pidFiles' \in [Names -> Pids \cup {Empty, None}]
      /\ \A n \in Names : pidFiles'[n] \in {pidFiles[n], Empty, None}
      /\ \A n \in Names : n # starting => pidFiles'[n] = pidFiles[n]
      /\ starting = None => pidFiles' = pidFiles
  BY <1>0 DEF Restart, Filed
<1>3. TypeOK'
  <2>1. interrupted' \subseteq Pids
    BY <1>0 DEF Recording
  <2> QED BY <2>1, <1>0, <1>1, <1>2, <1>6, TypeOKParts, TypeOKPartsNext
          DEF TuiInv, NoteRenaming, TodoOK
<1>4. Bookkept' /\ Recording'
  <2>1. \A i \in 1 .. Len(services') :
           services'[i].status = "Running" => services'[i].pid # None
    BY <1>0, NewServicesType
  <2>2. \A n \in Names : pidFiles'[n] \in Pids => pidFiles'[n] <= lastPid
    BY <1>0, <1>6, PidIsSome DEF Bookkept
  <2>3. \A p \in Pids :
           IF p <= lastPid THEN processes'[p].addr \in Addrs
           ELSE processes'[p].addr = None /\ processes'[p].state = "unused"
    BY <1>0, <1>2 DEF Bookkept
  <2> QED BY <1>0, <2>1, <2>2, <2>3 DEF Bookkept, Recording
<1>5. WellFiled' /\ NoProcessIsLost'
  <2> SUFFICES ASSUME ~ renamed' PROVE WellFiled' /\ NoProcessIsLost'
    BY DEF WellFiled, NoProcessIsLost
  <2>1. /\ ~ renamed
        /\ \A n \in Names : pidFiles'[n] \in Pids =>
              /\ n <= Len(services)
              /\ n <= Len(services')
              /\ services'[n].addr = services[n].addr
    BY NamesStay, <1>0, <1>1, <1>6
  <2>2. WellFiled'
    BY <2>1, <1>0, <1>2, <1>6, NewServicesType, TypeOKParts, PidIsSome DEF WellFiled, TuiInv
  <2>3. ASSUME NEW q \in Pids \ interrupted', Alive(q), NEW j \in 1 .. Len(services),
               services[j].addr = processes[q].addr, pidFiles[j] = q
        PROVE  \/ /\ j \in 1 .. Len(services')
                  /\ services'[j].addr = processes[q].addr /\ pidFiles'[j] = q
               \/ \E r \in Pids : r > q /\ processes[r].addr = processes[q].addr
    <3>1. j \in Names /\ q <= lastPid /\ q \in Nat
      BY <2>3, <1>0, RowFacts, PidIsSome DEF Bookkept
    <3>2. CASE j = starting
      <4>1. lastPid \in Pids /\ lastPid \in interrupted'
        BY <3>1, <3>2, <1>0, TuiAssumption DEF Recording, Names
      <4>2. processes[lastPid].addr = processes[q].addr
        BY <2>3, <3>1, <3>2, <1>0, TuiAssumption DEF Recording, Names
      <4>3. lastPid > q
        BY <3>1, <4>1, PidIsSome
      <4> QED BY <4>1, <4>2, <4>3
    <3>3. CASE j # starting
      <4>1. pidFiles'[j] = q
        BY <2>3, <3>1, <3>3, <1>6
      <4> QED BY <2>1, <2>3, <3>1, <4>1, <1>1 DEF RowsOK, Names
    <3> QED BY <3>2, <3>3
  <2>4. NoProcessIsLost'
    <3> SUFFICES ASSUME NEW q \in Pids \ interrupted', Alive(q)
                 PROVE  \/ \E j \in 1 .. Len(services') :
                              services'[j].addr = processes[q].addr /\ pidFiles'[j] = q
                        \/ \E r \in Pids : r > q /\ processes[r].addr = processes[q].addr
      BY <1>0, <1>2 DEF NoProcessIsLost
    <3>1. q \notin interrupted /\ ~ (starting # None /\ q = lastPid)
      BY <1>0
    <3> QED BY <2>1, <2>3, <3>1, <1>0 DEF NoProcessIsLost
  <2> QED BY <2>2, <2>4
<1> QED BY <1>3, <1>4, <1>5 DEF TuiInv

-----------------------------------------------------------------------------
LEMMA NextKeepsTui == TuiInv /\ [Next]_vars => TuiInv'
<1> SUFFICES ASSUME TuiInv, [Next]_vars PROVE TuiInv'
  OBVIOUS
<1>1. CASE PressKey
  BY <1>1, PressKeyKeeps
<1>2. CASE DoNext
  BY <1>2, DoNextKeeps
<1>3. ASSUME NEW a \in UpfAddrs, AddUpf(a) PROVE TuiInv'
  BY <1>3, AddKeeps
<1>4. ASSUME NEW i \in Names, RemoveUpf(i) PROVE TuiInv'
  BY <1>4, RemoveKeeps
<1>5. CASE UpdateServiceStatus
  BY <1>5, UpdateKeeps
<1>6. CASE Restart
  BY <1>6, RestartKeeps
<1>7. ASSUME NEW p \in Pids, Bind(p) \/ Crash(p) PROVE TuiInv'
  BY <1>7, BindKeeps, CrashKeeps
<1>8. CASE UNCHANGED vars
  BY <1>8, KeysKeep, TypeOKParts DEF vars, TuiInv
<1>9. CASE FilePid
  BY <1>9, FilePidKeeps
<1> QED BY <1>1, <1>2, <1>3, <1>4, <1>5, <1>6, <1>7, <1>8, <1>9 DEF Next

LEMMA TuiInvariant == Spec => []TuiInv
<1>1. Init => TuiInv
  BY InitTui
<1>2. TuiInv /\ [Next]_vars => TuiInv'
  BY NextKeepsTui
<1> QED BY <1>1, <1>2, PTL DEF Spec

\* The first row stays the proxy's, no address has two rows, and every other
\* variable keeps its type, whatever the keys and the order of the processes.
THEOREM TuiTypeCorrect == Spec => []TypeOK
<1>1. TuiInv => TypeOK
  BY DEF TuiInv
<1> QED BY <1>1, TuiInvariant, PTL

\* What stop_service kills for a row is a process of that row's service, for
\* any list, number of keys, crashes and restarts, unless the list changed under
\* a pid file.
THEOREM RowsCorrect == Spec => []RowsShowTheirProcess
<1>1. TuiInv => RowsShowTheirProcess
  BY TypeOKParts, RowFacts, PidIsSome
  DEF TuiInv, WellFiled, RowsShowTheirProcess
<1> QED BY <1>1, TuiInvariant, PTL

\* Every process that runs is in the pid file of its service, or is about to
\* be, unless another was started beside it, the program ended before it wrote
\* the file, or the list changed under a pid file.
THEOREM NoneLost == Spec => []NoProcessIsLost
<1>1. TuiInv => NoProcessIsLost
  BY DEF TuiInv
<1> QED BY <1>1, TuiInvariant, PTL

=============================================================================
