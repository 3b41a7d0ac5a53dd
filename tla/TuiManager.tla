----------------------------- MODULE TuiManager -----------------------------
(***************************************************************************)
(* The terminal program as the manager of the proxy and the test UPFs      *)
(* (src/bin/tui-runner.rs): it starts and stops them as processes, keeps a *)
(* row for each, and learns what runs from pid files, which outlive it.    *)
(* The rows are the proxy and then the list of UPFs; a service is called   *)
(* after its place ("upf2"), and so is its pid file, so that a name is the *)
(* number of a row here.                                                   *)
(*                                                                         *)
(* The program has one thread: a key is handled to its end before the next *)
(* key or the next look at the pid files.  The processes do not wait, and  *)
(* the program may end between any two of its steps: to spawn a process is *)
(* one, to write its pid file another.                                     *)
(***************************************************************************)
EXTENDS Integers, Sequences

CONSTANTS
    ProxyAddr,      \* PROXY_ADDR
    UpfAddrs,       \* the addresses of UPFs that are ever in the list
    DefaultUpfs,    \* UPF1_ADDR, UPF2_ADDR, UPF3_ADDR
    MaxUpfs,        \* the longest list, 64 in the code
    FixedRows,      \* the rows start_all and stop_all know, 4 in the code
    MaxPids,        \* how many processes are ever started
    Empty,          \* a pid file that does not parse
    None

\* An operator may type the proxy's address as that of a UPF; that they do not
\* is a condition.
ASSUME TuiAssumption ==
    /\ ProxyAddr \notin UpfAddrs
    /\ DefaultUpfs \in Seq(UpfAddrs)
    /\ \A i, j \in 1 .. Len(DefaultUpfs) :
          DefaultUpfs[i] = DefaultUpfs[j] => i = j
    /\ MaxUpfs \in Nat /\ Len(DefaultUpfs) <= MaxUpfs
    /\ FixedRows \in 0 .. MaxUpfs + 1
    /\ MaxPids \in Nat
    /\ None \notin Nat /\ Empty \notin Nat /\ Empty # None
    /\ None \notin UpfAddrs \cup {ProxyAddr}

VARIABLES
    services,   \* the rows
    pidFiles,   \* the pid file of each name, None where there is none
    starting,   \* the row whose process is spawned and not yet in its pid file
    processes,  \* what became of each pid
    lastPid,    \* the pid given last; no pid is given twice
    todo,       \* what is left of the key at hand, as <<"start", row>>, ...
    renamed,    \* a name that has a pid file changed hands (history)
    interrupted \* the pids a program that ended had not yet filed (history)

historyVars == <<renamed, interrupted>>

vars == <<services, pidFiles, starting, processes, lastPid, todo, historyVars>>

Names == 1 .. MaxUpfs + 1

Pids == 1 .. MaxPids

Addrs == UpfAddrs \cup {ProxyAddr}

\* Stopping and Error are never assigned.
ServiceStatus == {"Stopped", "Starting", "Running"}

ServiceInfo ==
    [addr : Addrs, status : ServiceStatus, pid : Pids \cup {None}]

\* A process that ended stays a zombie while its parent, which never waits for
\* it, lives; an orphan is gone at once.
ProcessStates == {"unused", "spawned", "serving", "zombie", "gone"}

Ops == {"start", "stop"}

Process == [addr : Addrs \cup {None}, state : ProcessStates, orphan : BOOLEAN]

\* Much of the program relies on the first row being the proxy's.
TypeOK ==
    /\ services \in Seq(ServiceInfo)
    /\ Len(services) \in 1 .. MaxUpfs + 1
    /\ services[1].addr = ProxyAddr
    /\ \A i, j \in 1 .. Len(services) :
          services[i].addr = services[j].addr => i = j
    /\ pidFiles \in [Names -> Pids \cup {Empty, None}]
    /\ starting \in Names \cup {None}
    /\ processes \in [Pids -> Process]
    /\ lastPid \in 0 .. MaxPids
    /\ todo \in Seq(Ops \X Names)
    /\ renamed \in BOOLEAN
    /\ interrupted \subseteq Pids

StoppedRow(a) == [addr |-> a, status |-> "Stopped", pid |-> None]

NewServices ==
    [i \in 1 .. Len(DefaultUpfs) + 1 |->
        StoppedRow(IF i = 1 THEN ProxyAddr ELSE DefaultUpfs[i - 1])]

Init ==
    /\ services = NewServices
    /\ pidFiles = [i \in Names |-> None]
    /\ starting = None
    /\ processes =
          [p \in Pids |-> [addr |-> None, state |-> "unused", orphan |-> FALSE]]
    /\ lastPid = 0
    /\ todo = << >>
    /\ renamed = FALSE
    /\ interrupted = {}

-----------------------------------------------------------------------------
(***************************************************************************)
(* Processes.  A second instance on one address finds its port taken and   *)
(* exits; which of two that were just spawned takes it is open.            *)
(***************************************************************************)
Alive(p) == processes[p].state \in {"spawned", "serving"}

\* kill -0 succeeds for a zombie.
ProcessExists(p) == processes[p].state \notin {"unused", "gone"}

Ended(p) == IF p.orphan THEN "gone" ELSE "zombie"

Bind(p) ==
    /\ processes[p].state = "spawned"
    /\ processes' = [processes EXCEPT ![p].state =
          IF \E q \in Pids : /\ processes[q].state = "serving"
                             /\ processes[q].addr = processes[p].addr
             THEN Ended(processes[p])
             ELSE "serving"]
    /\ UNCHANGED <<services, pidFiles, starting, lastPid, todo, historyVars>>

Crash(p) ==
    /\ Alive(p)
    /\ processes' = [processes EXCEPT ![p].state = Ended(processes[p])]
    /\ UNCHANGED <<services, pidFiles, starting, lastPid, todo, historyVars>>

-----------------------------------------------------------------------------
(***************************************************************************)
(* start_service and stop_service, of a row.                               *)
(***************************************************************************)
Started(i) == services[i].status = "Running"

\* start_service, as far as the child is spawned.
Spawn(i) ==
    IF i > Len(services) \/ Started(i)
    THEN UNCHANGED <<starting, processes, lastPid>>
    ELSE /\ lastPid < MaxPids
         /\ lastPid' = lastPid + 1
         /\ processes' = [processes EXCEPT ![lastPid + 1] =
               [addr |-> services[i].addr, state |-> "spawned", orphan |-> FALSE]]
         /\ starting' = i

\* Mutant: the pid file of a UPF is named by its place among the UPFs.
Filed_Misnamed(i, content) == [pidFiles EXCEPT ![IF i = 1 THEN 1 ELSE i - 1] = content]

Filed(i, content) == [pidFiles EXCEPT ![i] = content]

\* The rest of start_service.  A write that fails ends the program: Restart.
FilePid ==
    /\ starting # None
    /\ pidFiles' = Filed(starting, lastPid)
    /\ services' = [services EXCEPT
          ![starting] = [@ EXCEPT !.status = "Starting", !.pid = lastPid]]
    /\ starting' = None
    /\ UNCHANGED <<processes, lastPid, todo, historyVars>>

\* Mutant: no SIGKILL for a process that ignores SIGTERM.
Killed_Gently(p) ==
    [processes EXCEPT ![p].state =
        IF processes[p].state = "spawned" THEN Ended(processes[p]) ELSE @]

Killed(p) ==
    [processes EXCEPT ![p].state = IF Alive(p) THEN Ended(processes[p]) ELSE @]

\* SIGTERM, and SIGKILL half a second later.
StopService(i) ==
    IF i > Len(services) \/ ~ Started(i)
    THEN UNCHANGED <<services, pidFiles, processes>>
    ELSE /\ processes' = Killed(services[i].pid)
         /\ pidFiles' = [pidFiles EXCEPT ![i] = None]
         /\ services' = [services EXCEPT ![i] = StoppedRow(@.addr)]

-----------------------------------------------------------------------------
(***************************************************************************)
(* Keys.                                                                   *)
(***************************************************************************)
Ready == todo = << >> /\ starting = None

Rows(from, to, op) == [i \in 1 .. to - from + 1 |-> <<op, from + i - 1>>]

\* The proxy starts after the UPFs, and stops before them.
StartAll == Rows(2, FixedRows, "start") \o Rows(1, 1, "start")

StopAll == Rows(1, FixedRows, "stop")

\* Keys 1 to 4: with fewer rows the program panics, see Restart.
Toggle(i) == << <<IF Started(i) THEN "stop" ELSE "start", i>> >>

PressKey ==
    /\ Ready
    /\ \/ todo' = StartAll
       \/ todo' = StopAll
       \/ todo' = StopAll \o StartAll
       \/ \E i \in 1 .. FixedRows : i <= Len(services) /\ todo' = Toggle(i)
    /\ UNCHANGED <<services, pidFiles, starting, processes, lastPid, historyVars>>

DoNext ==
    /\ todo # << >> /\ starting = None
    /\ LET op == Head(todo)[1]
           i  == Head(todo)[2]
       IN  \/ /\ op = "start" /\ Spawn(i)
              /\ UNCHANGED <<services, pidFiles>>
           \/ /\ op = "stop" /\ StopService(i)
              /\ UNCHANGED <<starting, lastPid>>
    /\ todo' = Tail(todo)
    /\ UNCHANGED historyVars

\* The address called i among rows, None when there is no such row.
AddrAt(rows, i) == IF i <= Len(rows) THEN rows[i].addr ELSE None

\* Some name with a pid file is another service's after the step.
NoteRenaming ==
    renamed' = (renamed \/ \E i \in Names :
        pidFiles'[i] \in Pids /\ AddrAt(services', i) # AddrAt(services, i))

\* sync_services_with_upf_list finds a service's old row by its address, so
\* that a removed row is closed up and an added one comes last.
Without(i) ==
    [j \in 1 .. Len(services) - 1 |-> services[IF j < i THEN j ELSE j + 1]]

AddUpf(a) ==
    /\ Ready
    /\ Len(services) - 1 < MaxUpfs
    /\ \A i \in 2 .. Len(services) : services[i].addr # a
    /\ services' = Append(services, StoppedRow(a))
    /\ UNCHANGED <<pidFiles, starting, processes, lastPid, todo, interrupted>>
    /\ NoteRenaming

\* Mutant: the place in the list of UPFs is taken for that among the rows.
RemoveUpf_Unshifted(i) ==
    /\ Ready
    /\ i \in 1 .. Len(services) - 1
    /\ \/ /\ Started(i)
          /\ processes' = Killed(services[i].pid)
          /\ pidFiles' = [pidFiles EXCEPT ![i] = None]
       \/ UNCHANGED <<processes, pidFiles>>
    /\ services' = Without(i)
    /\ NoteRenaming
    /\ UNCHANGED <<starting, lastPid, todo, interrupted>>

\* A row that is Starting is not stopped, and that kill cannot be run is ignored.
RemoveUpf(i) ==
    /\ Ready
    /\ i \in 2 .. Len(services)
    /\ \/ /\ Started(i)
          /\ processes' = Killed(services[i].pid)
          /\ pidFiles' = [pidFiles EXCEPT ![i] = None]
       \/ UNCHANGED <<processes, pidFiles>>
    /\ services' = Without(i)
    /\ NoteRenaming
    /\ UNCHANGED <<starting, lastPid, todo, interrupted>>

-----------------------------------------------------------------------------
(***************************************************************************)
(* update_service_status, once a second: a row is what its pid file says.  *)
(***************************************************************************)
\* The process a pid file names, if there is one of that pid.
NamesProcess(content) == content \in Pids /\ ProcessExists(content)

Shown(i, s) ==
    IF NamesProcess(pidFiles[i])
    THEN [s EXCEPT !.status = "Running", !.pid = pidFiles[i]]
    ELSE StoppedRow(s.addr)

\* A pid file without a process is removed, one that does not parse is not.
UpdateServiceStatus ==
    /\ Ready
    /\ services' = [i \in 1 .. Len(services) |-> Shown(i, services[i])]
    /\ pidFiles' = [i \in Names |->
          IF i <= Len(services) /\ pidFiles[i] # Empty /\ ~ NamesProcess(pidFiles[i])
          THEN None ELSE pidFiles[i]]
    /\ UNCHANGED <<starting, processes, lastPid, todo, historyVars>>

\* The program ends (q, a panic, an error) and is started again: its
\* processes live on, its zombies are reaped, its list is the default one.  A
\* pid file it was about to write is as before, or empty.
Restart ==
    /\ services' = NewServices
    /\ processes' = [p \in Pids |->
          [processes[p] EXCEPT
              !.state = IF @ = "zombie" THEN "gone" ELSE @,
              !.orphan = (processes[p].state # "unused")]]
    /\ \/ pidFiles' = pidFiles
       \/ starting # None /\ pidFiles' = Filed(starting, Empty)
    /\ interrupted' = interrupted \cup (IF starting = None THEN {} ELSE {lastPid})
    /\ starting' = None
    /\ todo' = << >>
    /\ UNCHANGED lastPid
    /\ NoteRenaming

Next ==
    \/ PressKey
    \/ DoNext \/ FilePid
    \/ \E a \in UpfAddrs : AddUpf(a)
    \/ \E i \in Names : RemoveUpf(i)
    \/ UpdateServiceStatus
    \/ Restart
    \/ \E p \in Pids : Bind(p) \/ Crash(p)

Spec == Init /\ [][Next]_vars

-----------------------------------------------------------------------------
\* What stop_service kills for a row is a process of that row's service, never
\* another's, unless the list changed under a pid file.
RowsShowTheirProcess ==
    ~ renamed =>
        \A i \in 1 .. Len(services) :
            services[i].pid # None =>
                processes[services[i].pid].addr = services[i].addr

\* A process that runs can be found, and so stopped, by the pid file of its
\* service.  The exceptions: another one was started beside it on its address,
\* the program ended before it wrote the file, the list changed under a pid file.
NoProcessIsLost ==
    ~ renamed =>
        \A p \in Pids \ interrupted : Alive(p) =>
            \/ starting # None /\ p = lastPid
            \/ \E i \in 1 .. Len(services) :
                  services[i].addr = processes[p].addr /\ pidFiles[i] = p
            \/ \E q \in Pids : q > p /\ processes[q].addr = processes[p].addr

=============================================================================
