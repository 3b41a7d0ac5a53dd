----------------------------- MODULE ControlFile -----------------------------
(***************************************************************************)
(* Changing the pool while the proxy runs.  The UPF Management tab of the  *)
(* TUI (src/bin/tui-runner.rs) keeps a list of UPFs and appends each       *)
(* change to a file .upf_control; a task of the proxy (src/main.rs,        *)
(* run_proxy) looks at the size of its .upf_control twice a second, reads  *)
(* the file when it grew, and applies the lines it takes for new.  The     *)
(* monitor does not remember how many lines it has seen: it takes 20 bytes *)
(* for a line.  Either program ends and is started again at any time; the  *)
(* file stays.                                                             *)
(*                                                                         *)
(* Measuring, reading and each change of the pool are steps of their own,  *)
(* with the TUI running in between.                                        *)
(***************************************************************************)
EXTENDS UpfPool

CONSTANTS
    Texts,          \* what is entered for a UPF
    Parse,          \* the address a text stands for, None if it stands for none
    TextLength,     \* the length of each text
    DefaultList,    \* UPF1_ADDR, UPF2_ADDR, UPF3_ADDR
    ProxyDir,       \* where the proxy is started: "base" is the TUI's directory,
                    \* where the TUI starts it, and "target" the one below
    ReadMayFail,    \* whether the file may turn out to be unreadable
    MaxCommands,    \* bound on the lines the TUI writes
    MaxStarts       \* bound on how often the proxy is started

ASSUME ControlAssumption ==
    /\ Parse \in [Texts -> Upfs \cup {None}]
    /\ TextLength \in [Texts -> Nat]
    /\ DefaultList \in Seq(Texts)
    /\ ProxyDir \in {"base", "target"}
    /\ ReadMayFail \in BOOLEAN
    /\ MaxCommands \in Nat
    /\ MaxStarts \in Nat

VARIABLES
    upf_list,       \* the TUI's list, of texts
    file,           \* the lines the TUI wrote
    last_size,      \* last_size, in bytes
    current_size,   \* what the monitor measured
    step,           \* where the monitor is: "tick", "read" or "apply"
    lines,          \* the lines the monitor still has to apply
    missed,         \* whether a read failed since the proxy started (history)
    up,             \* whether the proxy runs
    starts          \* how often the proxy was started

tuiVars == <<upf_list, file>>

monitorVars == <<last_size, current_size, step, lines, missed>>

controlVars == <<tuiVars, monitorVars, up, starts, poolVars>>

\* A line, and the size of the file up to its end.
Line == [action : {"add", "remove"}, text : Texts, end : Nat]

ControlTypeOK ==
    /\ UpfPoolTypeOK
    /\ upf_list \in Seq(Texts)
    /\ file \in Seq(Line)
    /\ last_size \in Nat
    /\ current_size \in Nat
    /\ step \in {"tick", "read", "apply"}
    /\ lines \in Seq(Line)
    /\ missed \in BOOLEAN
    /\ up \in BOOLEAN
    /\ starts \in 0 .. MaxStarts

ControlInit ==
    /\ UpfPoolInit
    /\ upf_list = DefaultList
    /\ file = << >>
    /\ last_size = 0
    /\ current_size = 0
    /\ step = "tick"
    /\ lines = << >>
    /\ missed = FALSE
    /\ up = FALSE
    /\ starts = 0

\* The size of a file.
End(f) == IF f = << >> THEN 0 ELSE f[Len(f)].end

\* "add:<text>\n" or "remove:<text>\n".
Bytes(action, text) == (IF action = "add" THEN 3 ELSE 6) + 1 + TextLength[text] + 1

\* The TUI writes to target/.upf_control.
ProxyFile == IF ProxyDir = "target" THEN file ELSE << >>

-----------------------------------------------------------------------------
(***************************************************************************)
(* The UPF Management tab                                                  *)
(***************************************************************************)
SendUpfCommand(action, text) ==
    /\ Len(file) < MaxCommands
    /\ file' = Append(file, [action |-> action, text |-> text,
                             end |-> End(file) + Bytes(action, text)])

\* The list tells texts apart, not addresses, and takes any text.
AddUpf(text) ==
    /\ Len(upf_list) < MaxBackends
    /\ ~ Contains(upf_list, text)
    /\ upf_list' = Append(upf_list, text)
    /\ SendUpfCommand("add", text)
    /\ UNCHANGED <<monitorVars, up, starts, poolVars>>

RemoveUpf(i) ==
    /\ upf_list' = RemoveAt(upf_list, i)
    /\ SendUpfCommand("remove", upf_list[i])
    /\ UNCHANGED <<monitorVars, up, starts, poolVars>>

\* The TUI ends and is started again, with the list it always starts with.
RestartTui ==
    /\ upf_list' = DefaultList
    /\ UNCHANGED <<file, monitorVars, up, starts, poolVars>>

-----------------------------------------------------------------------------
(***************************************************************************)
(* The control file monitor                                                *)
(***************************************************************************)
\* Mutant: a change of less than a line's guessed length is not noticed.
Tick_Late ==
    /\ up /\ step = "tick"
    /\ End(ProxyFile) > last_size + 20
    /\ current_size' = End(ProxyFile)
    /\ step' = "read"
    /\ UNCHANGED <<tuiVars, last_size, lines, missed, up, starts, poolVars>>

Tick ==
    /\ up /\ step = "tick"
    /\ End(ProxyFile) > last_size
    /\ current_size' = End(ProxyFile)
    /\ step' = "read"
    /\ UNCHANGED <<tuiVars, last_size, lines, missed, up, starts, poolVars>>

\* Mutant: as many as the size just measured seems to stand for are skipped.
NewLines_Current ==
    SubSeq(ProxyFile, (current_size \div 20) + 1, Len(ProxyFile))

\* The lines left after skipping as many as last_size seems to stand for.
NewLines == SubSeq(ProxyFile, (last_size \div 20) + 1, Len(ProxyFile))

ReadFile ==
    /\ up /\ step = "read"
    /\ lines' = NewLines
    /\ step' = "apply"
    /\ UNCHANGED <<tuiVars, last_size, current_size, missed, up, starts, poolVars>>

\* The file cannot be opened, or read: last_size moves on all the same.
ReadFails ==
    /\ ReadMayFail
    /\ up /\ step = "read"
    /\ missed' = TRUE
    /\ last_size' = current_size
    /\ step' = "tick"
    /\ UNCHANGED <<tuiVars, current_size, lines, up, starts, poolVars>>

\* A line whose text does not parse, or that the pool refuses, has no effect.
ApplyLine ==
    LET action == Head(lines).action
        addr   == Parse[Head(lines).text]
    IN  /\ up /\ step = "apply"
        /\ lines # << >>
        /\ lines' = Tail(lines)
        /\ \/ addr # None /\ action = "add" /\ AddBackend(addr)
           \/ addr # None /\ action = "add" /\ ~ MayAdd(addr) /\ UNCHANGED poolVars
           \/ addr # None /\ action = "remove" /\ RemoveBackend(addr)
           \/ addr # None /\ action = "remove" /\ ~ IsBackend(addr)
                          /\ UNCHANGED poolVars
           \/ addr = None /\ UNCHANGED poolVars
        /\ UNCHANGED <<tuiVars, last_size, current_size, step, missed, up, starts>>

EndPass ==
    /\ up /\ step = "apply"
    /\ lines = << >>
    /\ last_size' = current_size
    /\ step' = "tick"
    /\ UNCHANGED <<tuiVars, current_size, lines, missed, up, starts, poolVars>>

Monitor == Tick \/ ReadFile \/ ReadFails \/ ApplyLine \/ EndPass

-----------------------------------------------------------------------------
(***************************************************************************)
(* The proxy starts and ends.                                              *)
(***************************************************************************)
\* Always with the backends it is given, and with the file as it is.
StartProxy ==
    /\ ~ up /\ starts < MaxStarts
    /\ up' = TRUE
    /\ starts' = starts + 1
    /\ backends' = InitialPool
    /\ health' = [u \in Upfs |-> "Unknown"]
    /\ nextIndex' = 0
    /\ last_size' = 0
    /\ current_size' = 0
    /\ step' = "tick"
    /\ lines' = << >>
    /\ missed' = FALSE
    /\ UNCHANGED <<tuiVars, strategy>>

\* It is killed, or crashes.
StopProxy ==
    /\ up
    /\ up' = FALSE
    /\ UNCHANGED <<tuiVars, monitorVars, starts, poolVars>>

-----------------------------------------------------------------------------
ControlNext ==
    \/ \E text \in Texts : AddUpf(text)
    \/ \E i \in 1 .. Len(upf_list) : RemoveUpf(i)
    \/ RestartTui
    \/ Monitor
    \/ StartProxy \/ StopProxy

ControlSpec == ControlInit /\ [][ControlNext]_controlVars

\* The monitor's ticker comes round again and again; the user need do nothing.
FairControlSpec == ControlSpec /\ WF_controlVars(Monitor)

-----------------------------------------------------------------------------
(***************************************************************************)
(* Properties                                                              *)
(***************************************************************************)
\* The lines of a file that are about a UPF, however they spell its address.
Naming(f, u) == {i \in 1 .. Len(f) : Parse[f[i].text] = u}

\* The pool that the lines ask for, each taken once: of the lines about a UPF
\* the last one counts.
Commanded(f) ==
    {u \in Upfs :
        \/ Naming(f, u) = {} /\ Contains(InitialPool, u)
        \/ \E i \in Naming(f, u) :
              f[i].action = "add" /\ \A j \in Naming(f, u) : j <= i}

CaughtUp == up /\ step = "tick" /\ End(ProxyFile) = last_size

\* Once the monitor has gone through its file the pool is what the lines there
\* ask for: "Supports dynamic addition/removal of backends at runtime"
\* (src/main.rs, UpfPool).
PoolFollowsCommands == CaughtUp /\ ~ missed => ToSet(backends) = Commanded(ProxyFile)

\* At the end of no line is a whole line more than there are taken for read.
GuessFits == \A i \in 1 .. Len(file) : file[i].end < 20 * (i + 1)

\* So it is as long as the guess of 20 bytes for a line fits, also when the file
\* grew while it was read, when lines were applied twice, and when either
\* program was started anew; not, if a read failed.
PoolFollowsShortLines == GuessFits => PoolFollowsCommands

\* What the user asks for comes about, once the user stops; the bound on the lines
\* makes sure of that.
CommandsTakeEffect ==
    []<>(ToSet(backends) = Commanded(file) \/ missed \/ ~ up \/ ~ GuessFits)

=============================================================================
